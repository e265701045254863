------------------------------ MODULE Pipeline ------------------------------
(***************************************************************************)
(* PacketRay: a tbb pipeline that consumes the meta blocks of a            *)
(* PacketRing.  CCollectPacketTask takes the next full block and wraps it  *)
(* in a BlockToken of the token pool, CBasicProcessTask and the CAppTasks  *)
(* work on the token, CReturnPacketTask moves the module's pointer by one  *)
(* block and gives the token back.  Move2NextMetaBlk does not say which    *)
(* block is returned: only the order of the filters makes it the token's.  *)
(*                                                                         *)
(* External: tbb (which filter runs when) and the ring, here the number of *)
(* blocks published so far; block b is the b-th since the module joined.   *)
(***************************************************************************)
EXTENDS Integers, Sequences, FiniteSets

CONSTANTS
  Tokens,     (* MAX_TOKEN_COUNT                                            *)
  Serial,     (* for each filter between collect and return: _isSerial      *)
  RingCount,  (* GetMetaBlockCount()                                        *)
  StopBlks,   (* the blocks that are stop signals                           *)
  PosMod,     (* the modulus of ringPos, 2^32                               *)
  NDebug,     (* is assert compiled out?                                    *)
  MaxBlk,     (* bound: blocks the captures publish                         *)
  MaxRuns     (* bound: calls of CPipelineMgr::start                        *)

ASSUME PipelineAssumption ==
  /\ Tokens \in Nat \ {0}
  /\ Serial \in Seq(BOOLEAN)
  /\ RingCount \in Nat /\ RingCount > 2
  /\ PosMod \in Nat \ {0} /\ MaxBlk \in Nat /\ MaxRuns \in Nat
  /\ StopBlks \subseteq 1 .. MaxBlk
  /\ NDebug \in BOOLEAN

Slots == 0 .. Tokens - 1
Return == Len(Serial) + 1      (* the filter of CReturnPacketTask           *)
Done == Return + 1

VARIABLES
  filters,    (* filters added to m_pipeline                                *)
  isRunning,  (* m_isRunning                                                *)
  runs,       (* calls of start so far                                      *)
  collect,    (* where CCollectPacketTask is; "aborted" by its assert       *)
  isSeenStop, (* its statics                                                *)
  ringPos,
  inputDone,  (* it has returned NULL                                       *)
  published,  (* blocks published in the ring                               *)
  picked,     (* blocks GetNextFullMetaBlk has returned                     *)
  moved,      (* blocks Move2NextMetaBlk has returned to the ring           *)
  used,       (* InteralObject::used  of the token pool                     *)
  curIndex,   (* m_curIndex of the token pool                               *)
  blkOf,      (* BlockToken::pMetaBlk                                       *)
  flow        (* the tokens of this run in the order tbb got them           *)

mgrVars  == <<filters, isRunning, runs>>
collVars == <<collect, isSeenStop, ringPos, inputDone>>
ringVars == <<published, picked, moved>>
poolVars == <<used, curIndex, blkOf>>
vars     == <<mgrVars, collVars, ringVars, poolVars, flow>>

Init ==
  /\ filters = 0 /\ isRunning = FALSE /\ runs = 0
  /\ collect = "out" /\ isSeenStop = FALSE /\ ringPos = 0 /\ inputDone = FALSE
  /\ published = 0 /\ picked = 0 /\ moved = 0
  /\ used = [s \in Slots |-> FALSE] /\ curIndex = 0 /\ blkOf = [s \in Slots |-> 0]
  /\ flow = <<>>

(***************************************************************************)
(* CPipelineMgr.                                                           *)
(***************************************************************************)
AddTask ==
  /\ ~isRunning /\ filters <= Return
  /\ filters' = filters + 1
  /\ UNCHANGED <<isRunning, runs, collVars, ringVars, poolVars, flow>>

Start ==
  /\ ~isRunning /\ filters = Return + 1 /\ runs < MaxRuns
  /\ isRunning' = TRUE /\ runs' = runs + 1
  /\ inputDone' = FALSE
  /\ UNCHANGED <<filters, collect, isSeenStop, ringPos, ringVars, poolVars, flow>>

(* run() returns when the tokens are through; start() clears the filters.  *)
Finish ==
  /\ isRunning /\ inputDone
  /\ \A n \in DOMAIN flow : flow[n].at = Done
  /\ isRunning' = FALSE /\ filters' = 0 /\ flow' = <<>>
  /\ UNCHANGED <<runs, collVars, ringVars, poolVars>>

(***************************************************************************)
(* The captures.                                                           *)
(***************************************************************************)
Publish ==
  /\ published < MaxBlk /\ published - moved < RingCount - 2
  /\ published' = published + 1
  /\ UNCHANGED <<mgrVars, collVars, picked, moved, poolVars, flow>>

(***************************************************************************)
(* CCollectPacketTask.  tbb calls it for a new token, while fewer than     *)
(* MAX_TOKEN_COUNT are on their way.                                       *)
(***************************************************************************)
InFlight == {n \in DOMAIN flow : flow[n].at # Done}

Room_OneMore == Cardinality(InFlight) <= Tokens

Room == Cardinality(InFlight) < Tokens

CollectCall ==
  /\ isRunning /\ ~inputDone /\ Room
  /\ collect = "out"
  /\ collect' = "loop"
  /\ UNCHANGED <<mgrVars, isSeenStop, ringPos, inputDone, ringVars, poolVars, flow>>

(* assert((ringPos++ % m_packetRing.GetMetaBlockCount()) == blkPos)        *)
PosIsRight == ringPos % RingCount = picked % RingCount

SeesStop_Never(b) == FALSE

SeesStop(b) == b \in StopBlks

CollectBlk_HoldsStop ==
  /\ collect = "loop" /\ ~isSeenStop
  /\ picked < published
  /\ picked' = picked + 1
  /\ ringPos' = IF NDebug THEN ringPos ELSE (ringPos + 1) % PosMod
  /\ isSeenStop' = SeesStop(picked + 1)
  /\ collect' = IF isSeenStop' THEN "loop" ELSE IF NDebug \/ PosIsRight THEN "token" ELSE "aborted"
  /\ UNCHANGED <<mgrVars, inputDone, published, moved, poolVars, flow>>

(* GetNextFullMetaBlk; without a block the loop yields and tries again.    *)
CollectBlk ==
  /\ collect = "loop" /\ ~isSeenStop
  /\ picked < published
  /\ picked' = picked + 1
  /\ ringPos' = IF NDebug THEN ringPos ELSE (ringPos + 1) % PosMod
  /\ collect' = IF NDebug \/ PosIsRight THEN "token" ELSE "aborted"
  /\ UNCHANGED <<mgrVars, isSeenStop, inputDone, published, moved, poolVars, flow>>

NextIndex_NoWrap == curIndex + 1

NextIndex == (curIndex + 1) % Tokens

GetBlock_Unmarked ==
  /\ ~used[curIndex]
  /\ curIndex' = NextIndex
  /\ UNCHANGED used

(* CObjectPool::getBlock spins until the object in turn is free; the       *)
(* collect filter is its only caller.                                      *)
GetBlock ==
  /\ ~used[curIndex]
  /\ used' = [used EXCEPT ![curIndex] = TRUE]
  /\ curIndex' = NextIndex

CollectToken ==
  /\ collect = "token"
  /\ GetBlock
  /\ blkOf' = [blkOf EXCEPT ![curIndex] = picked]
  /\ isSeenStop' = SeesStop(picked)
  /\ flow' = Append(flow, [slot |-> curIndex, at |-> 1, st |-> "waits"])
  /\ collect' = "out"
  /\ UNCHANGED <<mgrVars, ringPos, inputDone, ringVars>>

CollectEnd ==
  /\ collect = "loop" /\ isSeenStop
  /\ ringPos' = 0 /\ isSeenStop' = FALSE
  /\ inputDone' = TRUE /\ collect' = "out"
  /\ UNCHANGED <<mgrVars, ringVars, poolVars, flow>>

(***************************************************************************)
(* The other filters.  A serial filter gets the tokens one by one, in the  *)
(* order of the input filter.                                              *)
(***************************************************************************)
IsSerial_AppsOnly(f) == f # Return /\ Serial[f]

IsSerial(f) == f = Return \/ Serial[f]

BeginFilter(n) ==
  /\ flow[n].st = "waits" /\ flow[n].at # Done
  /\ IsSerial(flow[n].at) => \A m \in 1 .. n - 1 : flow[m].at > flow[n].at
  /\ flow' = [flow EXCEPT ![n].st = "runs"]
  /\ UNCHANGED <<mgrVars, collVars, ringVars, poolVars>>

(* CBasicProcessTask and CAppTask: read the block and its packets.         *)
EndFilter(n) ==
  /\ flow[n].st = "runs" /\ flow[n].at < Return
  /\ flow' = [flow EXCEPT ![n].st = "waits", ![n].at = @ + 1]
  /\ UNCHANGED <<mgrVars, collVars, ringVars, poolVars>>

(* CReturnPacketTask: the block first, then the token.                     *)
ReturnBlk(n) ==
  /\ flow[n].st = "runs" /\ flow[n].at = Return
  /\ moved' = moved + 1
  /\ flow' = [flow EXCEPT ![n].st = "moved"]
  /\ UNCHANGED <<mgrVars, collVars, published, picked, poolVars>>

Released_Kept(s) == used

Released(s) == [used EXCEPT ![s] = FALSE]

ReturnToken(n) ==
  /\ flow[n].st = "moved"
  /\ used' = Released(flow[n].slot)
  /\ flow' = [flow EXCEPT ![n].st = "waits", ![n].at = Done]
  /\ UNCHANGED <<mgrVars, collVars, ringVars, curIndex, blkOf>>

(***************************************************************************)
(* The specification.                                                      *)
(***************************************************************************)
Collect == CollectCall \/ CollectBlk \/ CollectToken \/ CollectEnd

Filter(n) == BeginFilter(n) \/ EndFilter(n) \/ ReturnBlk(n) \/ ReturnToken(n)

Next ==
  \/ AddTask \/ Start \/ Finish \/ Publish
  \/ Collect
  \/ \E n \in DOMAIN flow : Filter(n)

Spec == Init /\ [][Next]_vars

(* tbb calls a filter that has a token, and a filter ends; the captures    *)
(* and the owner of the pipeline need not do anything.                     *)
FairSpec ==
  /\ Spec
  /\ WF_vars(Finish) /\ WF_vars(Collect)
  /\ \A n \in 1 .. MaxBlk : WF_vars(n \in DOMAIN flow /\ Filter(n))
-----------------------------------------------------------------------------
(***************************************************************************)
(* Properties.                                                             *)
(***************************************************************************)
(* The values the variables take. *)
TypeOK ==
  /\ filters \in 0 .. Return + 1 /\ isRunning \in BOOLEAN /\ runs \in 0 .. MaxRuns
  /\ collect \in {"out", "loop", "token", "aborted"}
  /\ isSeenStop \in BOOLEAN /\ inputDone \in BOOLEAN /\ ringPos \in 0 .. PosMod - 1
  /\ published \in 0 .. MaxBlk /\ picked \in 0 .. MaxBlk /\ moved \in 0 .. MaxBlk
  /\ used \in [Slots -> BOOLEAN] /\ curIndex \in Slots /\ blkOf \in [Slots -> 0 .. MaxBlk]
  /\ flow \in Seq([slot: Slots, at: 1 .. Done, st: {"waits", "runs", "moved"}])

(* A block stays with the pipeline as long as a filter may look at it:     *)
(* CReturnPacketTask, which only says "the next one", never returns the    *)
(* block of a token that is still on its way.                              *)
BlkStaysMine ==
  \A n \in InFlight :
    /\ flow[n].st # "moved" => moved < blkOf[flow[n].slot]
    /\ flow[n].st = "moved" => moved = blkOf[flow[n].slot]

(* The used objects of the token pool are those of the tokens on their     *)
(* way, one each: no token is lost, and none is handed out twice.          *)
TokensAccounted ==
  /\ {s \in Slots : used[s]} = {flow[n].slot : n \in InFlight}
  /\ \A m, n \in InFlight : flow[m].slot = flow[n].slot => m = n

(* The pool has as many objects as tbb has tokens and takes them in turn:  *)
(* the object in turn is free whenever the collect filter needs one, so    *)
(* that a worker of tbb never spins in getBlock.                           *)
GetBlockNeverSpins == collect = "token" => ~used[curIndex]

(* When start() has returned, every block taken has been given back, every *)
(* token is in the pool again, and the last block was a stop signal.       *)
EndIsClean ==
  ~isRunning =>
    /\ picked = moved
    /\ \A s \in Slots : ~used[s]
    /\ runs > 0 => picked \in StopBlks

(* The assertion of CCollectPacketTask: "ringPos++ % GetMetaBlockCount()"  *)
(* is the position of the block.                                           *)
PosAssertHolds == collect # "aborted"

(* A stop signal that is in the ring brings the pipeline to its end.       *)
StopEndsRun ==
  \A b \in StopBlks : isRunning /\ moved < b /\ b <= published ~> ~isRunning

(* As long as the pipeline runs, every block of the ring is returned.      *)
BlksAreReturned ==
  \A b \in 1 .. MaxBlk : isRunning /\ b <= published ~> moved >= b \/ ~isRunning
=============================================================================
