----------------------------- MODULE BufferPool -----------------------------
(***************************************************************************)
(* CFixBufferPool: the data blocks of a capture.  The free blocks form a   *)
(* list whose links lie inside of the blocks themselves (Block_t is a      *)
(* union), so that the owner of a block overwrites its link.  Getters      *)
(* (captures) take blocks and fill them; they come, by way of the ring, to *)
(* releasers (S2D), which put them back.  A mutex guards the list.         *)
(*                                                                         *)
(* A name with an underscore is a faulty variant of the definition after   *)
(* it.                                                                     *)
(***************************************************************************)
EXTENDS Integers, FiniteSets

CONSTANTS
  Getters,    (* threads that call getBlock and tryGetBlock                 *)
  Releasers,  (* threads that call release                                  *)
  BufCount    (* m_bufCount                                                 *)

Bufs == 1 .. BufCount
Null == 0

(* resetMem accepts a count of 0, but init then gives out block 0 all the  *)
(* same.                                                                   *)
ASSUME BufferPoolAssumption ==
  /\ BufCount \in Nat \ {0}
  /\ Getters \cap Releasers = {}

VARIABLES
  link,       (* first word of every block: m_next, or data of its owner    *)
  nextBlock,  (* m_nextBlock, the head of the list                          *)
  bufMutex,   (* who has m_bufMutex, {} or one thread                       *)
  bufStop,    (* m_stop                                                     *)
  getter,     (* where each getter is                                       *)
  waits,      (* whether it is in getBlock, not just in tryGetBlock         *)
  got,        (* its local variable block                                   *)
  filled,     (* blocks on their way to the releasers                       *)
  releaser,   (* where each releaser is                                     *)
  back        (* _block of its release                                      *)

listVars   == <<link, nextBlock>>
getVars    == <<getter, waits, got>>
relVars    == <<releaser, back>>
bufferVars == <<listVars, bufMutex, bufStop, getVars, filled, relVars>>

Data == -1

BufferInit ==
  /\ link = [b \in Bufs |-> IF b = BufCount THEN Null ELSE b + 1]
  /\ nextBlock = 1
  /\ bufMutex = {} /\ bufStop = FALSE
  /\ getter = [t \in Getters |-> "idle"]
  /\ waits = [t \in Getters |-> FALSE]
  /\ got = [t \in Getters |-> Null]
  /\ filled = {}
  /\ releaser = [t \in Releasers |-> "idle"]
  /\ back = [t \in Releasers |-> Null]

GetterGoes(t, from, to) ==
  getter[t] = from /\ getter' = [getter EXCEPT ![t] = to]

ReleaserGoes(t, from, to) ==
  releaser[t] = from /\ releaser' = [releaser EXCEPT ![t] = to]

(* SCOPE_LOCK(m_bufMutex)                                                  *)
LockBuf_Not(t) == bufMutex' = bufMutex

LockBuf(t) == bufMutex = {} /\ bufMutex' = {t}

UnlockBuf(t) == bufMutex' = bufMutex \ {t}

(***************************************************************************)
(* getBlock and tryGetBlock.                                               *)
(***************************************************************************)
CallGet(t) ==
  /\ GetterGoes(t, "idle", "lock")
  /\ \E wait \in BOOLEAN : waits' = [waits EXCEPT ![t] = wait]
  /\ UNCHANGED <<listVars, bufMutex, bufStop, got, filled, relVars>>

TryGet(t) ==
  /\ GetterGoes(t, "lock", "head")
  /\ LockBuf(t)
  /\ UNCHANGED <<listVars, bufStop, waits, got, filled, relVars>>

ReadHead(t) ==
  /\ GetterGoes(t, "head", "unlink")
  /\ got' = [got EXCEPT ![t] = nextBlock]
  /\ UNCHANGED <<listVars, bufMutex, bufStop, waits, filled, relVars>>

Unlink(t) ==
  /\ GetterGoes(t, "unlink", IF got[t] = Null THEN "none" ELSE "fill")
  /\ nextBlock' = IF got[t] = Null THEN nextBlock ELSE link[got[t]]
  /\ UnlockBuf(t)
  /\ UNCHANGED <<link, bufStop, waits, got, filled, relVars>>

StopSeen_Never(t) == ~waits[t]

(* A call of tryGetBlock returns, one of getBlock when the pool is stopped.*)
StopSeen(t) == ~waits[t] \/ bufStop

TryAgain(t) ==
  /\ GetterGoes(t, "none", IF StopSeen(t) THEN "idle" ELSE "lock")
  /\ UNCHANGED <<listVars, bufMutex, bufStop, waits, got, filled, relVars>>

(* External: the capture stores packets in its block and passes it on.     *)
FillBuf(t) ==
  /\ GetterGoes(t, "fill", "idle")
  /\ link' = [link EXCEPT ![got[t]] = Data]
  /\ filled' = filled \cup {got[t]}
  /\ got' = [got EXCEPT ![t] = Null]
  /\ UNCHANGED <<nextBlock, bufMutex, bufStop, waits, relVars>>

(***************************************************************************)
(* release.                                                                *)
(***************************************************************************)
TakeFilled(t) ==
  /\ ReleaserGoes(t, "idle", "lock")
  /\ \E b \in filled : back' = [back EXCEPT ![t] = b] /\ filled' = filled \ {b}
  /\ UNCHANGED <<listVars, bufMutex, bufStop, getVars>>

LockRelease(t) ==
  /\ ReleaserGoes(t, "lock", "link")
  /\ LockBuf(t)
  /\ UNCHANGED <<listVars, bufStop, getVars, filled, back>>

LinkBuf(t) ==
  /\ ReleaserGoes(t, "link", "head")
  /\ link' = [link EXCEPT ![back[t]] = nextBlock]
  /\ UNCHANGED <<nextBlock, bufMutex, bufStop, getVars, filled, back>>

SetHead(t) ==
  /\ ReleaserGoes(t, "head", "idle")
  /\ nextBlock' = back[t]
  /\ back' = [back EXCEPT ![t] = Null]
  /\ UnlockBuf(t)
  /\ UNCHANGED <<link, bufStop, getVars, filled>>

(* stop(true)                                                              *)
StopPool ==
  /\ bufStop' = TRUE
  /\ UNCHANGED <<listVars, bufMutex, getVars, filled, relVars>>

(***************************************************************************)
(* The specification.                                                      *)
(***************************************************************************)
Getting(t)   == ReadHead(t) \/ Unlink(t) \/ TryAgain(t)
Releasing(t) == TakeFilled(t) \/ LinkBuf(t) \/ SetHead(t)

BufferNext ==
  \/ \E t \in Getters : CallGet(t) \/ TryGet(t) \/ Getting(t) \/ FillBuf(t)
  \/ \E t \in Releasers : LockRelease(t) \/ Releasing(t)
  \/ StopPool

(* Threads are scheduled, and one that asks for the mutex gets it in the   *)
(* end.  A capture may keep its block for ever, for want of packets.       *)
BufferFairness ==
  /\ \A t \in Getters : WF_bufferVars(Getting(t)) /\ SF_bufferVars(TryGet(t))
  /\ \A t \in Releasers : WF_bufferVars(Releasing(t)) /\ SF_bufferVars(LockRelease(t))

BufferSpec == BufferInit /\ [][BufferNext]_bufferVars /\ BufferFairness
-----------------------------------------------------------------------------
(***************************************************************************)
(* Properties.                                                             *)
(***************************************************************************)
(* The blocks that somebody has.                                           *)
TakenBufs ==
  {got[t] : t \in {u \in Getters : getter[u] = "fill"}} \cup filled
  \cup {back[t] : t \in {u \in Releasers : releaser[u] # "idle"}}

(* The i-th block of the list, counted from 0.                             *)
ListAt[i \in 0 .. BufCount] ==
  IF i = 0 THEN nextBlock
  ELSE IF ListAt[i-1] \in Bufs THEN link[ListAt[i-1]] ELSE Null

(* Whenever the mutex is free the list holds exactly the blocks that       *)
(* nobody has, once each, and ends: no block is lost, none is given to two *)
(* getters, and no owner's data is followed as a link.                     *)
FreeListSound ==
  bufMutex = {} =>
    LET free == Bufs \ TakenBufs IN
      /\ {ListAt[i] : i \in 0 .. Cardinality(free) - 1} = free
      /\ ListAt[Cardinality(free)] = Null

(* A getter that waits for a block returns once the pool is stopped, even  *)
(* if nobody gives a block back.                                           *)
WaiterEnds ==
  \A t \in Getters : bufStop /\ getter[t] # "idle" ~> getter[t] \in {"idle", "fill"}
=============================================================================
