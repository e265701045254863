---------------------------- MODULE MetaBlkRing ----------------------------
(***************************************************************************)
(* The meta block ring of PacketRing: capture threads claim meta blocks    *)
(* from a shared ring, fill them and publish them by storing a non-zero    *)
(* size; a chain of modules (1, 2, .., K-1 and finally module 0, the       *)
(* "save to disk" module S2D) reads them in ring order, each one behind    *)
(* the module before it; S2D gives them back by storing size = 0.          *)
(*                                                                         *)
(* No lock is taken anywhere: the claim is a compare-and-swap of the tail  *)
(* after three separate reads, a published block is announced by one       *)
(* store, and every position is kept modulo the number of blocks.  Each    *)
(* of those shared accesses is an action of its own here.                  *)
(*                                                                         *)
(* S2D and the capture threads themselves are not in the repository: they  *)
(* follow the working procedure in the class comment of CProducerRing.     *)
(***************************************************************************)
EXTENDS Integers, Sequences, FiniteSets

CONSTANTS
  N,          (* g_metaBlkCount: blocks in the ring                         *)
  BlkCap,     (* g_metaBlkCapacity: metas a block has room for              *)
  MetaCount,  (* g_metaCount: number of metas less one                      *)
  K,          (* g_index: modules registered                                *)
  Producers,  (* threads that claim blocks, one captureId each              *)
  PoolSize,   (* data blocks in the pool of each producer                   *)
  Signals,    (* kinds of signal sent: a subset of {"timeout", "stop"}      *)
  MaxSignals, (* bound: signals of one kind in the ring                     *)
  MaxInHand,  (* bound: blocks a module keeps before it moves on            *)
  MaxLag,     (* bound: claims by others while a thread is inside its own   *)
  NoBlk,      (* a NULL PktMetaBlk_t pointer                                *)
  NoData      (* a NULL DataBlock_t pointer                                 *)

Blocks   == 0 .. N-1
Modules  == 0 .. K-1
DataBlks == Producers \X (1 .. PoolSize)

(* The ring is sized by InitRing; GetEmptyMetaBlk keeps two blocks free,   *)
(* so that a ring of fewer than three blocks never gives one out.          *)
ASSUME RingAssumption ==
  /\ N \in Nat /\ N >= 3
  /\ K \in Nat /\ K >= 1
  /\ BlkCap \in Nat /\ BlkCap >= 1
  /\ MetaCount \in Nat /\ N = MetaCount \div BlkCap + 1
  /\ PoolSize \in Nat
  /\ Signals \subseteq {"timeout", "stop"}
  /\ MaxSignals \in Nat
  /\ MaxInHand \in Nat /\ MaxInHand >= 1
  /\ MaxLag \in Nat
  /\ NoBlk \notin Blocks
  /\ NoData \notin DataBlks

VARIABLES
  tail,      (* g_tailMetaBlk: the next block to claim                      *)
  blkPtr,    (* blkPtr of each module: the first block it still needs       *)
  blk,       (* the PktMetaBlk_t records and what their metas hold          *)
  freeData,  (* the data blocks in the producers' packet block pools        *)
  pc,        (* where each producer is                                      *)
  job,       (* what its claim is for: "data" or a signal                   *)
  cur,       (* m_curMetaBlock, or the local variable of a Send...Signal    *)
  used,      (* m_usedMetaInBlk                                             *)
  data,      (* the data block the capture is filling                       *)
  seenTail,  (* tailPos, read by GetEmptyMetaBlk                            *)
  lag,       (* history: claims by other threads since then                 *)
  pickPos,   (* m_metaBlkPickPos of each module                             *)
  picked,    (* m_metaBlks: blocks read ahead, not yet given to the module  *)
  inHand,    (* blocks the module has and has not moved past                *)
  s2dPc,     (* where S2D is in the release of a block                      *)
  relBlk,    (* the block S2D is releasing                                  *)
  relData,   (* the data block to free after it, or NoData                  *)
  relMoved   (* whether S2D already moved its pointer past relBlk           *)

prodVars == <<pc, job, cur, used, data, seenTail, lag>>
readVars == <<blkPtr, pickPos, picked, inHand>>
s2dVars  == <<s2dPc, relBlk, relData, relMoved>>
vars     == <<tail, blk, freeData, prodVars, readVars, s2dVars>>

(***************************************************************************)
(* Positions on the ring.                                                  *)
(*                                                                         *)
(* A name with an underscore, here and below, is a faulty variant of the   *)
(* definition after it: the runs show which property rejects it.           *)
(***************************************************************************)
Plus_NoWrap(i, n) == i + n

Plus(i, n) == (i + n) % N

(* blocks from a up to, not including, b                                   *)
Dist(a, b) == IF a <= b THEN b - a ELSE b + N - a

(* The metas of the last block may not all exist: GetMetaBlkCapacity.      *)
CapOf(b) == IF b * BlkCap + BlkCap > MetaCount
            THEN MetaCount - b * BlkCap
            ELSE BlkCap

(* The module m waits for, and how far it may go.                          *)
Dep(m)   == IF m = 0 THEN K - 1 ELSE m - 1
Limit_NoChain(m) == tail

Limit(m) == IF m = 1 \/ m = Dep(m) THEN tail ELSE blkPtr[Dep(m)]

IsRingEmpty == tail = blkPtr[0]

BlkRecord == [size: 0 .. BlkCap, isFinal: BOOLEAN,
              dataBlk: DataBlks \cup {NoData},
              metas: 0 .. BlkCap, kind: {"packet", "timeout", "stop"}]

(* What InitRing leaves: zeroed memory (so meta 0 reads as a stop signal). *)
EmptyBlk == [size |-> 0, isFinal |-> FALSE, dataBlk |-> NoData,
             metas |-> 0, kind |-> "stop"]

IsStopSignal(b) ==
  /\ blk[b].dataBlk = NoData /\ blk[b].isFinal
  /\ blk[b].size = 1 /\ blk[b].kind = "stop"

IsTimeoutSignal(b) ==
  /\ blk[b].dataBlk = NoData /\ blk[b].isFinal
  /\ blk[b].size = 1 /\ blk[b].kind = "timeout"

Init ==
  /\ tail = 0
  /\ blkPtr = [m \in Modules |-> 0]
  /\ blk = [b \in Blocks |-> EmptyBlk]
  /\ freeData = DataBlks
  /\ pc = [p \in Producers |-> "work"]
  /\ job = [p \in Producers |-> "data"]
  /\ cur = [p \in Producers |-> NoBlk]
  /\ used = [p \in Producers |-> 0]
  /\ data = [p \in Producers |-> NoData]
  /\ seenTail = [p \in Producers |-> 0]
  /\ lag = [p \in Producers |-> 0]
  /\ pickPos = [m \in Modules |-> 0]
  /\ picked = [m \in Modules |-> <<>>]
  /\ inHand = [m \in Modules |-> <<>>]
  /\ s2dPc = "idle"
  /\ relBlk = NoBlk
  /\ relData = NoData
  /\ relMoved = FALSE

(***************************************************************************)
(* Producers.                                                              *)
(***************************************************************************)
Goto(p, from, to) == pc[p] = from /\ pc' = [pc EXCEPT ![p] = to]

(* WaitNextEmptyPktBlk: a free data block of its own pool.                 *)
WaitNextEmptyPktBlk(p) ==
  /\ pc[p] = "work" /\ data[p] = NoData
  /\ \E d \in freeData :
       /\ d[1] = p
       /\ freeData' = freeData \ {d}
       /\ data' = [data EXCEPT ![p] = d]
  /\ UNCHANGED <<tail, blk, pc, job, cur, used, seenTail, lag, readVars, s2dVars>>

DoneMetaBlk_KeepsBlk(p) ==
  /\ blk' = IF cur[p] = NoBlk THEN blk ELSE [blk EXCEPT ![cur[p]].size = used[p]]
  /\ UNCHANGED cur

(* DoneMetaBlk: size, stored last, announces the block.                    *)
DoneMetaBlk(p) ==
  IF cur[p] = NoBlk \/ used[p] = 0
  THEN UNCHANGED <<blk, cur>>
  ELSE /\ blk' = [blk EXCEPT ![cur[p]].size = used[p]]
       /\ cur' = [cur EXCEPT ![p] = NoBlk]

(* The test of GetMeta4PktBlk and IsMetaBlkFull: a block with room.         *)
HasRoom(p) == cur[p] # NoBlk /\ used[p] < CapOf(cur[p])

(* GetMeta4PktBlk while the current block has room: the capture writes the *)
(* next packet into the meta it is given.                                  *)
NextMeta(p) ==
  /\ pc[p] = "work" /\ data[p] # NoData
  /\ HasRoom(p)
  /\ used' = [used EXCEPT ![p] = @ + 1]
  /\ blk' = [blk EXCEPT ![cur[p]].metas = used[p] + 1]
  /\ UNCHANGED <<tail, freeData, pc, job, cur, data, seenTail, lag, readVars, s2dVars>>

(* GetMeta4PktBlk without a current block, or with a full one: publish it  *)
(* and ask for another.                                                    *)
TurnOver(p) ==
  /\ Goto(p, "work", "readTail")
  /\ data[p] # NoData
  /\ ~HasRoom(p)
  /\ DoneMetaBlk(p)
  /\ job' = [job EXCEPT ![p] = "data"]
  /\ UNCHANGED <<tail, freeData, used, data, seenTail, lag, readVars, s2dVars>>

SignalsInRing(sig) == {b \in Blocks : blk[b].size # 0 /\ blk[b].kind = sig}

(* SendStopSignal, SendTimeoutSignal: sent between blocks of packets.      *)
SendSignal(p, sig) ==
  /\ Goto(p, "work", "readTail")
  /\ cur[p] = NoBlk
  /\ Cardinality(SignalsInRing(sig)) < MaxSignals
  /\ job' = [job EXCEPT ![p] = sig]
  /\ UNCHANGED <<tail, blk, freeData, cur, used, data, seenTail, lag, readVars, s2dVars>>

(* GetEmptyMetaBlk, _wait = true.  Every shared read is a step.            *)
ReadTail(p) ==
  /\ Goto(p, "readTail", "checkLimit")
  /\ seenTail' = [seenTail EXCEPT ![p] = tail]
  /\ lag' = [lag EXCEPT ![p] = 0]
  /\ UNCHANGED <<tail, blk, freeData, job, cur, used, data, readVars, s2dVars>>

RoundTrip_OneFree(p)  == Plus(seenTail[p], 1) = blkPtr[0]
RoundTrip_NoneFree(p) == Plus(seenTail[p], 0) = blkPtr[0]
RoundTrip_Never(p)    == FALSE

RoundTrip(p) == Plus(seenTail[p], 2) = blkPtr[0]

CheckLimit(p) ==
  /\ Goto(p, "checkLimit", IF RoundTrip(p) THEN "readTail" ELSE "checkSize")
  /\ UNCHANGED <<tail, blk, freeData, job, cur, used, data, seenTail, lag, readVars, s2dVars>>

CheckSize(p) ==
  /\ Goto(p, "checkSize", IF blk[seenTail[p]].size # 0 THEN "readTail" ELSE "cas")
  /\ UNCHANGED <<tail, blk, freeData, job, cur, used, data, seenTail, lag, readVars, s2dVars>>

CasFail(p) ==
  /\ Goto(p, "cas", "readTail")
  /\ tail # seenTail[p]
  /\ UNCHANGED <<tail, blk, freeData, job, cur, used, data, seenTail, lag, readVars, s2dVars>>

(* The threads between the reads of GetEmptyMetaBlk and its CAS.           *)
Claiming == {p \in Producers : pc[p] \in {"checkLimit", "checkSize", "cas"}}

(* INTERLOCKED_INCREMENT in place of the compare-and-swap.                 *)
CasTail_Increment(p) ==
  /\ Goto(p, "cas", IF job[p] = "data" THEN "open" ELSE "signal")
  /\ tail' = Plus(tail, 1)
  /\ cur' = [cur EXCEPT ![p] = seenTail[p]]
  /\ UNCHANGED <<blk, freeData, job, used, data, seenTail, lag, readVars, s2dVars>>

CasTail(p) ==
  /\ Goto(p, "cas", IF job[p] = "data" THEN "open" ELSE "signal")
  /\ \A q \in Claiming \ {p} : lag[q] < MaxLag
  /\ tail = seenTail[p]
  /\ tail' = Plus(seenTail[p], 1)
  /\ lag' = [q \in Producers |-> IF q \in Claiming \ {p} THEN lag[q] + 1 ELSE 0]
  /\ cur' = [cur EXCEPT ![p] = seenTail[p]]
  /\ UNCHANGED <<blk, freeData, job, used, data, seenTail, readVars, s2dVars>>

(* GetMeta4PktBlk goes on with the block it claimed and gives its meta 0   *)
(* to the capture.                                                         *)
OpenMetaBlk(p) ==
  /\ Goto(p, "open", "work")
  /\ used' = [used EXCEPT ![p] = 1]
  /\ blk' = [blk EXCEPT ![cur[p]] =
               [@ EXCEPT !.dataBlk = data[p], !.metas = 1, !.kind = "packet"]]
  /\ UNCHANGED <<tail, freeData, job, cur, data, seenTail, lag, readVars, s2dVars>>

(* FinalMetaBlk: isFinal first, then DoneMetaBlk; the capture is done with *)
(* its data block.                                                         *)
MarkFinal(p) ==
  /\ Goto(p, "work", "final")
  /\ cur[p] # NoBlk
  /\ blk' = [blk EXCEPT ![cur[p]].isFinal = TRUE]
  /\ UNCHANGED <<tail, freeData, job, cur, used, data, seenTail, lag, readVars, s2dVars>>

FinalMetaBlk(p) ==
  /\ Goto(p, "final", "work")
  /\ DoneMetaBlk(p)
  /\ data' = [data EXCEPT ![p] = NoData]
  /\ UNCHANGED <<tail, freeData, job, used, seenTail, lag, readVars, s2dVars>>

(* The rest of SendStopSignal and SendTimeoutSignal.                       *)
FillSignal(p) ==
  /\ Goto(p, "signal", "sent")
  /\ blk' = [blk EXCEPT ![cur[p]] =
               [@ EXCEPT !.metas = 1, !.kind = job[p], !.isFinal = TRUE]]
  /\ UNCHANGED <<tail, freeData, job, cur, used, data, seenTail, lag, readVars, s2dVars>>

PublishSignal(p) ==
  /\ Goto(p, "sent", "work")
  /\ blk' = [blk EXCEPT ![cur[p]].size = 1]
  /\ cur' = [cur EXCEPT ![p] = NoBlk]
  /\ UNCHANGED <<tail, freeData, job, used, data, seenTail, lag, readVars, s2dVars>>

(***************************************************************************)
(* Modules.                                                                *)
(***************************************************************************)
(* GetNextMetaBlks reads the limit once and then the sizes one by one; in  *)
(* the meantime more blocks may be published, never fewer, so that it      *)
(* returns some prefix of what is ready when it ends.                      *)
Pickable_Unpublished(m) == 1 .. Dist(pickPos[m], Limit(m))

Pickable(m) ==
  {n \in 1 .. Dist(pickPos[m], Limit(m)) :
     \A i \in 0 .. n-1 : blk[Plus(pickPos[m], i)].size # 0}

(* GetNextFullMetaBlk: the read-ahead list is refilled only when empty.    *)
GetNextFullMetaBlk(m) ==
  /\ Len(inHand[m]) < MaxInHand
  /\ \/ /\ picked[m] # <<>>
        /\ inHand' = [inHand EXCEPT ![m] = Append(@, Head(picked[m]))]
        /\ picked' = [picked EXCEPT ![m] = Tail(@)]
        /\ UNCHANGED pickPos
     \/ /\ picked[m] = <<>>
        /\ \E n \in Pickable(m) :
             /\ inHand' = [inHand EXCEPT ![m] = Append(@, pickPos[m])]
             /\ picked' = [picked EXCEPT ![m] =
                             [i \in 1 .. n-1 |-> Plus(pickPos[m], i)]]
             /\ pickPos' = [pickPos EXCEPT ![m] = Plus(@, n)]
  /\ UNCHANGED <<tail, blk, freeData, prodVars, blkPtr, s2dVars>>

MayMove_Strict(m, count) == count < Dist(blkPtr[m], Limit(m))

(* The test of Move2NextMetaBlk, which refuses with -3 when it fails.      *)
MayMove(m, count) == count <= Dist(blkPtr[m], Limit(m))

Move2NextMetaBlk(m, count) ==
  blkPtr' = IF MayMove(m, count)
            THEN [blkPtr EXCEPT ![m] = Plus(@, count)]
            ELSE blkPtr

(* An indexing module is done with the first blocks it holds.              *)
ModuleMove(m, count) ==
  /\ m # 0
  /\ count \in 1 .. Len(inHand[m])
  /\ Move2NextMetaBlk(m, count)
  /\ inHand' = [inHand EXCEPT ![m] = SubSeq(@, count + 1, Len(@))]
  /\ UNCHANGED <<tail, blk, freeData, prodVars, pickPos, picked, s2dVars>>

(***************************************************************************)
(* Module 0, S2D: FreeFullMetaBlk, FreeFullPktBlk when the block was the   *)
(* last one of its data block, and Move2NextMetaBlk, first or last.        *)
(***************************************************************************)
S2DMove == /\ Move2NextMetaBlk(0, 1)
           /\ relMoved' = TRUE
           /\ UNCHANGED <<tail, blk, freeData, prodVars, pickPos, picked, inHand,
                          s2dPc, relBlk, relData>>

S2DMoveFirst ==
  /\ s2dPc = "idle" /\ inHand[0] # <<>> /\ ~relMoved
  /\ S2DMove

FreeIsFinal_AnyBlk ==
  /\ s2dPc = "idle" /\ inHand[0] # <<>>
  /\ relBlk' = Head(inHand[0])
  /\ relData' = blk[relBlk'].dataBlk
  /\ blk' = [blk EXCEPT ![relBlk'].isFinal = FALSE]
  /\ s2dPc' = "freeDataBlk"
  /\ UNCHANGED <<tail, freeData, prodVars, readVars, relMoved>>

FreeIsFinal ==
  /\ s2dPc = "idle" /\ inHand[0] # <<>>
  /\ LET b == Head(inHand[0]) IN
       /\ relBlk' = b
       /\ relData' = IF blk[b].isFinal THEN blk[b].dataBlk ELSE NoData
       /\ blk' = [blk EXCEPT ![b].isFinal = FALSE]
  /\ s2dPc' = "freeDataBlk"
  /\ UNCHANGED <<tail, freeData, prodVars, readVars, relMoved>>

FreeDataBlk_Kept ==
  /\ s2dPc = "freeDataBlk"
  /\ s2dPc' = "freeSize"
  /\ UNCHANGED <<tail, blk, freeData, prodVars, readVars, relBlk, relData, relMoved>>

FreeDataBlk ==
  /\ s2dPc = "freeDataBlk"
  /\ blk' = [blk EXCEPT ![relBlk].dataBlk = NoData]
  /\ s2dPc' = "freeSize"
  /\ UNCHANGED <<tail, freeData, prodVars, readVars, relBlk, relData, relMoved>>

FreeSize ==
  /\ s2dPc = "freeSize"
  /\ blk' = [blk EXCEPT ![relBlk].size = 0]
  /\ s2dPc' = "freePktBlk"
  /\ UNCHANGED <<tail, freeData, prodVars, readVars, relBlk, relData, relMoved>>

FreeFullPktBlk ==
  /\ s2dPc = "freePktBlk"
  /\ freeData' = freeData \cup ({relData} \ {NoData})
  /\ s2dPc' = "freed"
  /\ UNCHANGED <<tail, blk, prodVars, readVars, relBlk, relData, relMoved>>

S2DMoveLast ==
  /\ s2dPc = "freed" /\ ~relMoved
  /\ S2DMove

S2DNext ==
  /\ s2dPc = "freed" /\ relMoved
  /\ s2dPc' = "idle"
  /\ relBlk' = NoBlk
  /\ relData' = NoData
  /\ relMoved' = FALSE
  /\ inHand' = [inHand EXCEPT ![0] = Tail(@)]
  /\ UNCHANGED <<tail, blk, freeData, prodVars, blkPtr, pickPos, picked>>

(***************************************************************************)
(* The specification.                                                      *)
(***************************************************************************)
Claim(p) == ReadTail(p) \/ CheckLimit(p) \/ CheckSize(p) \/ CasFail(p) \/ CasTail(p)

Finish(p) == OpenMetaBlk(p) \/ FinalMetaBlk(p) \/ FillSignal(p) \/ PublishSignal(p)

Produce(p) ==
  \/ WaitNextEmptyPktBlk(p)
  \/ NextMeta(p)
  \/ TurnOver(p)
  \/ \E sig \in Signals : SendSignal(p, sig)
  \/ MarkFinal(p)

Index(m) == \E count \in 1 .. MaxInHand : ModuleMove(m, count)

S2D == \/ S2DMoveFirst \/ FreeIsFinal \/ FreeDataBlk \/ FreeSize
       \/ FreeFullPktBlk \/ S2DMoveLast \/ S2DNext

Next ==
  \/ \E p \in Producers : Claim(p) \/ Finish(p) \/ Produce(p)
  \/ \E m \in Modules : GetNextFullMetaBlk(m) \/ Index(m)
  \/ S2D

Spec == Init /\ [][Next]_vars

(* A thread inside one of the functions above is scheduled again, and the  *)
(* modules keep asking for blocks, as the collect loop of the pipeline     *)
(* does.  Nothing makes a capture thread receive packets.                  *)
Fairness ==
  /\ \A p \in Producers : WF_vars(Claim(p)) /\ WF_vars(Finish(p))
  /\ \A m \in Modules : WF_vars(GetNextFullMetaBlk(m)) /\ WF_vars(Index(m))
  /\ WF_vars(S2D)

FairSpec == Spec /\ Fairness
-----------------------------------------------------------------------------
(***************************************************************************)
(* Properties.                                                             *)
(***************************************************************************)
PcLabels == {"work", "readTail", "checkLimit", "checkSize", "cas", "open",
             "final", "signal", "sent"}

(* The values the variables take. *)
TypeOK ==
  /\ tail \in Blocks
  /\ blkPtr \in [Modules -> Blocks]
  /\ blk \in [Blocks -> BlkRecord]
  /\ freeData \in SUBSET DataBlks
  /\ pc \in [Producers -> PcLabels]
  /\ job \in [Producers -> {"data"} \cup Signals]
  /\ cur \in [Producers -> Blocks \cup {NoBlk}]
  /\ used \in [Producers -> 0 .. BlkCap]
  /\ data \in [Producers -> DataBlks \cup {NoData}]
  /\ seenTail \in [Producers -> Blocks]
  /\ lag \in [Producers -> 0 .. MaxLag]
  /\ pickPos \in [Modules -> Blocks]
  /\ picked \in [Modules -> Seq(Blocks)]
  /\ inHand \in [Modules -> Seq(Blocks)]
  /\ s2dPc \in {"idle", "freeDataBlk", "freeSize", "freePktBlk", "freed"}
  /\ relBlk \in Blocks \cup {NoBlk}
  /\ relData \in DataBlks \cup {NoData}
  /\ relMoved \in BOOLEAN

Elems(s) == {s[i] : i \in 1 .. Len(s)}
Held(m)  == Elems(picked[m]) \cup Elems(inHand[m])

(* A block a producer just claimed was given back entirely by S2D: the     *)
(* asserts that size is 0, isFinal false and dataBlk NULL in               *)
(* GetMeta4PktBlk, SendStopSignal and SendTimeoutSignal never fail.        *)
ClaimedBlkIsClean ==
  \A p \in Producers : pc[p] \in {"open", "signal"} =>
    /\ blk[cur[p]].size = 0
    /\ ~blk[cur[p]].isFinal
    /\ blk[cur[p]].dataBlk = NoData

(* Between two calls of GetMeta4PktBlk nobody else touched the current     *)
(* block: its last assert, that the block still belongs to the data block  *)
(* being filled, never fails, and the metas written so far are the         *)
(* producer's own.                                                         *)
OpenBlkIsMine ==
  \A p \in Producers : pc[p] \in {"work", "final"} /\ cur[p] # NoBlk =>
    /\ blk[cur[p]].dataBlk = data[p]
    /\ blk[cur[p]].metas = used[p]
    /\ blk[cur[p]].size = 0

(* The last assert of GetMeta4PktBlk: the current block, when it has room  *)
(* for one more meta, belongs to the data block being filled.              *)
CurBlkIsOfDataBlk ==
  \A p \in Producers :
    pc[p] = "work" /\ data[p] # NoData /\ HasRoom(p) => blk[cur[p]].dataBlk = data[p]

(* A module never holds a block whose producer is not finished with it, or *)
(* that S2D has begun to give back: everything it says is there.           *)
HeldBlkIsComplete ==
  \A m \in Modules : \A b \in Held(m) \ {relBlk} :
    /\ blk[b].size \in 1 .. BlkCap
    /\ blk[b].size = blk[b].metas
    /\ blk[b].dataBlk # NoData \/ IsStopSignal(b) \/ IsTimeoutSignal(b)

(* While an indexing module holds a block, no step of anybody changes it.  *)
HeldBlkIsStable ==
  [][\A m \in Modules \ {0} : \A b \in Held(m) : b \in Held(m)' => blk'[b] = blk[b]]_vars

(* The modules stay in the order of the chain on the ring, S2D last, and   *)
(* the tail keeps clear of S2D by the safe distance.                       *)
Occupied == Dist(blkPtr[0], tail)
Ahead(m) == Dist(blkPtr[0], blkPtr[m])

ChainOrder ==
  /\ Occupied <= N - 2
  /\ \A m \in Modules : m = 1 => Ahead(m) <= Occupied
  /\ \A m \in Modules : m > 1 => Ahead(m) <= Ahead(m-1)

(* Move2NextMetaBlk never refuses a module that is done with blocks it     *)
(* got from the ring.                                                      *)
MoveNeverRefused ==
  /\ \A m \in Modules \ {0} : MayMove(m, Len(inHand[m]))
  /\ inHand[0] # <<>> /\ ~relMoved => MayMove(0, 1)

(* A data block is in the pool, being filled, owed to the pool by S2D, or  *)
(* named by exactly one block marked final: it is neither lost nor freed   *)
(* twice, and one in the pool is named by no meta block at all.            *)
DataBlkAccounted ==
  \A d \in DataBlks :
    LET filling == {p \in Producers : data[p] = d}
        owed    == IF relData = d /\ s2dPc # "freed" THEN {relBlk} ELSE {}
        final   == {b \in Blocks : blk[b].dataBlk = d /\ blk[b].isFinal}
        named   == {b \in Blocks : blk[b].dataBlk = d}
    IN  \/ d \in freeData /\ filling = {} /\ owed = {} /\ named = {}
        \/ d \notin freeData /\ filling # {} /\ owed = {}
        \/ d \notin freeData /\ filling = {} /\ owed # {} /\ final = {}
        \/ d \notin freeData /\ filling = {} /\ owed = {}
             /\ \E b \in final : final = {b}

(* IsRingEmpty says the ring is empty only when every published block has  *)
(* been given back or is on its way back.                                  *)
EmptyMeansDrained ==
  IsRingEmpty => \A b \in Blocks : blk[b].size # 0 => b = relBlk \/ b \in Held(0)

(* Every published block is eventually given back by S2D.                  *)
PublishedIsReleased ==
  \A b \in Blocks : blk[b].size # 0 ~> blk[b].size = 0

(* A producer that waits for an empty block eventually gets one.           *)
ClaimIsServed ==
  \A p \in Producers : pc[p] = "readTail" ~> pc[p] \in {"open", "signal"}
=============================================================================
