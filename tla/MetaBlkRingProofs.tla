------------------------- MODULE MetaBlkRingProofs -------------------------
(***************************************************************************)
(* Proofs about the meta block ring, for any number of blocks, modules,    *)
(* producers and data blocks.                                              *)
(***************************************************************************)
EXTENDS MetaBlkRing, SequenceTheorems, TLAPS

(* Positions stay on the ring, and a short step wraps at most once.        *)
LEMMA PlusType == ASSUME NEW i \in Blocks, NEW n \in Nat PROVE Plus(i, n) \in Blocks
  BY RingAssumption DEF Plus, Blocks

LEMMA PlusValue ==
  ASSUME NEW i \in Blocks, NEW n \in 0 .. N-1
  PROVE  Plus(i, n) = IF i + n < N THEN i + n ELSE i + n - N
<1>1. CASE i + n < N
  BY <1>1, RingAssumption DEF Plus, Blocks
<1>2. CASE i + n >= N
  BY <1>2, RingAssumption DEF Plus, Blocks
<1> QED BY <1>1, <1>2, RingAssumption DEF Blocks

LEMMA DistType == ASSUME NEW a \in Blocks, NEW b \in Blocks PROVE Dist(a, b) \in 0 .. N-1
  BY RingAssumption DEF Dist, Blocks

LEMMA CapType == ASSUME NEW b \in Blocks PROVE CapOf(b) \in Int /\ CapOf(b) <= BlkCap
<1>1. b * BlkCap \in Int
  BY RingAssumption DEF Blocks
<1>2. QED BY <1>1, RingAssumption DEF CapOf

LEMMA AppendNonEmpty ==
  ASSUME NEW S, NEW s \in Seq(S), NEW e \in S PROVE Append(s, e) # <<>>
<1>1. Len(Append(s, e)) = Len(s) + 1 /\ Len(s) \in Nat
  BY AppendProperties, LenProperties
<1>2. Len(<<>>) = 0
  OBVIOUS
<1>3. QED BY <1>1, <1>2

(* One field of one block is stored, the others are left alone.            *)
BlkType == blk \in [Blocks -> BlkRecord]

LEMMA BlkStore ==
  ASSUME BlkType, NEW b, NEW r, b \in Blocks => r \in BlkRecord
  PROVE  [blk EXCEPT ![b] = r] \in [Blocks -> BlkRecord]
  BY DEF BlkType

LEMMA StoreSize ==
  ASSUME BlkType, NEW b, NEW v \in 0 .. BlkCap
  PROVE  [blk EXCEPT ![b].size = v] \in [Blocks -> BlkRecord]
<1>1. b \in Blocks => [blk[b] EXCEPT !.size = v] \in BlkRecord
  BY DEF BlkType, BlkRecord
<1>2. QED BY <1>1, BlkStore

LEMMA StoreMetas ==
  ASSUME BlkType, NEW b, NEW v \in 0 .. BlkCap
  PROVE  [blk EXCEPT ![b].metas = v] \in [Blocks -> BlkRecord]
<1>1. b \in Blocks => [blk[b] EXCEPT !.metas = v] \in BlkRecord
  BY DEF BlkType, BlkRecord
<1>2. QED BY <1>1, BlkStore

LEMMA StoreIsFinal ==
  ASSUME BlkType, NEW b, NEW v \in BOOLEAN
  PROVE  [blk EXCEPT ![b].isFinal = v] \in [Blocks -> BlkRecord]
<1>1. b \in Blocks => [blk[b] EXCEPT !.isFinal = v] \in BlkRecord
  BY DEF BlkType, BlkRecord
<1>2. QED BY <1>1, BlkStore

LEMMA StoreDataBlk ==
  ASSUME BlkType, NEW b, NEW v \in DataBlks \cup {NoData}
  PROVE  [blk EXCEPT ![b].dataBlk = v] \in [Blocks -> BlkRecord]
<1>1. b \in Blocks => [blk[b] EXCEPT !.dataBlk = v] \in BlkRecord
  BY DEF BlkType, BlkRecord
<1>2. QED BY <1>1, BlkStore

LEMMA StoreThree ==
  ASSUME NEW r \in BlkRecord, NEW n \in 0 .. BlkCap, NEW f \in BOOLEAN,
         NEW d \in DataBlks \cup {NoData}, NEW k \in {"packet", "timeout", "stop"}
  PROVE  /\ [r EXCEPT !.dataBlk = d, !.metas = n, !.kind = k] \in BlkRecord
         /\ [r EXCEPT !.metas = n, !.kind = k, !.isFinal = f] \in BlkRecord
<1> DEFINE s == [r EXCEPT !.metas = n]
<1>1. s \in BlkRecord
  BY DEF BlkRecord
<1>2. [s EXCEPT !.kind = k] \in BlkRecord
  BY <1>1 DEF BlkRecord
<1>3. QED BY <1>1, <1>2 DEF BlkRecord

(* DoneMetaBlk stores the number of metas used, and lets the block go.      *)
LEMMA DoneType ==
  ASSUME BlkType, cur \in [Producers -> Blocks \cup {NoBlk}],
         NEW p \in Producers, used[p] \in 0 .. BlkCap, DoneMetaBlk(p)
  PROVE  /\ blk' \in [Blocks -> BlkRecord]
         /\ cur' \in [Producers -> Blocks \cup {NoBlk}]
<1>1. [blk EXCEPT ![cur[p]].size = used[p]] \in [Blocks -> BlkRecord]
  BY StoreSize
<1>2. CASE cur[p] = NoBlk \/ used[p] = 0
  BY <1>2 DEF DoneMetaBlk, BlkType
<1>3. CASE ~(cur[p] = NoBlk \/ used[p] = 0)
  BY <1>1, <1>3 DEF DoneMetaBlk
<1>4. QED BY <1>2, <1>3

-----------------------------------------------------------------------------
(***************************************************************************)
(* Type correctness.  A signal is only written for a signal's claim, and   *)
(* what S2D is releasing is the first block it holds.                      *)
(***************************************************************************)
SignalJob == \A p \in Producers : pc[p] = "signal" => job[p] \in Signals

ReleasingHeld == s2dPc # "idle" \/ relMoved => inHand[0] # <<>>

TypeInv == TypeOK /\ SignalJob /\ ReleasingHeld

LEMMA TypeInit == Init => TypeInv
<1> SUFFICES ASSUME Init PROVE TypeInv
  OBVIOUS
<1> USE RingAssumption DEF Init
<1>1. 0 \in Blocks /\ 0 \in 0 .. BlkCap /\ 0 \in 0 .. MaxLag
  BY DEF Blocks
<1>2. EmptyBlk \in BlkRecord
  BY <1>1 DEF EmptyBlk, BlkRecord
<1>3. blk \in [Blocks -> BlkRecord]
  BY <1>2
<1>4. <<>> \in Seq(Blocks)
  OBVIOUS
<1>5. QED BY <1>1, <1>3, <1>4 DEF TypeInv, TypeOK, SignalJob, ReleasingHeld, PcLabels

LEMMA TypeNext == TypeInv /\ [Next]_vars => TypeInv'
<1> SUFFICES ASSUME TypeInv, [Next]_vars PROVE TypeInv'
  OBVIOUS
<1> USE RingAssumption DEF TypeInv, SignalJob, ReleasingHeld
<1>a. BlkType /\ 0 \in 0 .. BlkCap /\ 1 \in 0 .. BlkCap
  BY DEF BlkType, TypeOK
<1>b. \A p \in Producers : used[p] \in 0 .. BlkCap
  BY DEF TypeOK
<1>1. ASSUME NEW p \in Producers, Claim(p) PROVE TypeInv'
  <2>1. CASE ReadTail(p)
    BY <2>1 DEF ReadTail, Goto, TypeOK, PcLabels, readVars, s2dVars
  <2>2. CASE CheckLimit(p)
    BY <2>2 DEF CheckLimit, Goto, TypeOK, PcLabels, readVars, s2dVars
  <2>3. CASE CheckSize(p)
    BY <2>3 DEF CheckSize, Goto, TypeOK, PcLabels, readVars, s2dVars
  <2>4. CASE CasFail(p)
    BY <2>4 DEF CasFail, Goto, TypeOK, PcLabels, readVars, s2dVars
  <2>5. CASE CasTail(p)
    <3>1. Plus(seenTail[p], 1) \in Blocks
      BY PlusType DEF TypeOK
    <3>2. QED
      BY <2>5, <3>1 DEF CasTail, Claiming, Goto, TypeOK, PcLabels, readVars, s2dVars
  <2>6. QED BY <1>1, <2>1, <2>2, <2>3, <2>4, <2>5 DEF Claim
<1>2. ASSUME NEW p \in Producers, Finish(p) PROVE TypeInv'
  <2>1. CASE OpenMetaBlk(p)
    <3>1. cur[p] \in Blocks => [blk[cur[p]] EXCEPT !.dataBlk = data[p], !.metas = 1,
                                                   !.kind = "packet"] \in BlkRecord
      BY <1>a, StoreThree DEF TypeOK
    <3>2. blk' \in [Blocks -> BlkRecord]
      BY <2>1, <3>1, BlkStore DEF OpenMetaBlk, BlkType, TypeOK
    <3>3. QED BY <2>1, <3>2 DEF OpenMetaBlk, Goto, TypeOK, PcLabels, readVars, s2dVars
  <2>2. CASE FinalMetaBlk(p)
    <3>1. blk' \in [Blocks -> BlkRecord] /\ cur' \in [Producers -> Blocks \cup {NoBlk}]
      BY <2>2, <1>a, <1>b, DoneType DEF FinalMetaBlk, TypeOK
    <3>2. QED BY <2>2, <3>1 DEF FinalMetaBlk, Goto, TypeOK, PcLabels, readVars, s2dVars
  <2>3. CASE FillSignal(p)
    <3>1. job[p] \in {"timeout", "stop"}
      BY <2>3 DEF FillSignal, Goto
    <3>2. cur[p] \in Blocks => [blk[cur[p]] EXCEPT !.metas = 1, !.kind = job[p],
                                                   !.isFinal = TRUE] \in BlkRecord
      BY <1>a, <3>1, StoreThree DEF TypeOK
    <3>3. blk' \in [Blocks -> BlkRecord]
      BY <2>3, <3>2, BlkStore DEF FillSignal, BlkType, TypeOK
    <3>4. QED BY <2>3, <3>3 DEF FillSignal, Goto, TypeOK, PcLabels, readVars, s2dVars
  <2>4. CASE PublishSignal(p)
    <3>1. blk' \in [Blocks -> BlkRecord]
      BY <2>4, <1>a, StoreSize DEF PublishSignal, BlkType
    <3>2. QED BY <2>4, <3>1 DEF PublishSignal, Goto, TypeOK, PcLabels, readVars, s2dVars
  <2>5. QED BY <1>2, <2>1, <2>2, <2>3, <2>4 DEF Finish
<1>3. ASSUME NEW p \in Producers, Produce(p) PROVE TypeInv'
  <2>1. CASE WaitNextEmptyPktBlk(p)
    BY <2>1 DEF WaitNextEmptyPktBlk, TypeOK, readVars, s2dVars
  <2>2. CASE NextMeta(p)
    <3>1. used[p] + 1 \in 0 .. BlkCap
      <4>1. cur[p] \in Blocks /\ used[p] < CapOf(cur[p])
        BY <2>2 DEF NextMeta, HasRoom, TypeOK
      <4>2. used[p] \in 0 .. BlkCap /\ BlkCap \in Nat
        BY RingAssumption DEF TypeOK
      <4>3. CapOf(cur[p]) \in Int /\ CapOf(cur[p]) <= BlkCap
        BY <4>1, CapType
      <4>4. QED BY <4>1, <4>2, <4>3
    <3>2. blk' \in [Blocks -> BlkRecord]
      BY <2>2, <3>1, StoreMetas DEF NextMeta, BlkType, TypeOK
    <3>3. QED BY <2>2, <3>1, <3>2 DEF NextMeta, TypeOK, readVars, s2dVars
  <2>3. CASE TurnOver(p)
    <3>1. blk' \in [Blocks -> BlkRecord] /\ cur' \in [Producers -> Blocks \cup {NoBlk}]
      BY <2>3, <1>a, <1>b, DoneType DEF TurnOver, TypeOK
    <3>2. QED BY <2>3, <3>1 DEF TurnOver, Goto, TypeOK, PcLabels, readVars, s2dVars
  <2>4. ASSUME NEW sig \in Signals, SendSignal(p, sig) PROVE TypeInv'
    BY <2>4 DEF SendSignal, Goto, TypeOK, PcLabels, readVars, s2dVars
  <2>5. CASE MarkFinal(p)
    <3>1. blk' \in [Blocks -> BlkRecord]
      BY <2>5, StoreIsFinal DEF MarkFinal, BlkType, TypeOK
    <3>2. QED BY <2>5, <3>1 DEF MarkFinal, Goto, TypeOK, PcLabels, readVars, s2dVars
  <2>6. QED BY <1>3, <2>1, <2>2, <2>3, <2>4, <2>5 DEF Produce
<1>4. ASSUME NEW m \in Modules, GetNextFullMetaBlk(m) PROVE TypeInv'
  <2>1. CASE picked[m] # <<>> /\ inHand' = [inHand EXCEPT ![m] = Append(@, Head(picked[m]))]
             /\ picked' = [picked EXCEPT ![m] = Tail(@)] /\ UNCHANGED pickPos
    <3>1. Head(picked[m]) \in Blocks /\ Tail(picked[m]) \in Seq(Blocks)
      BY <2>1, HeadTailProperties DEF TypeOK
    <3>2. Append(inHand[m], Head(picked[m])) \in Seq(Blocks)
      BY <3>1, AppendProperties DEF TypeOK
    <3>3. Append(inHand[m], Head(picked[m])) # <<>>
      BY <3>1, AppendNonEmpty DEF TypeOK
    <3>4. ReleasingHeld'
      BY <1>4, <2>1, <3>3 DEF GetNextFullMetaBlk, TypeOK, s2dVars
    <3>5. TypeOK' /\ SignalJob'
      BY <1>4, <2>1, <3>1, <3>2 DEF GetNextFullMetaBlk, TypeOK, prodVars, s2dVars
    <3>6. QED BY <3>4, <3>5
  <2>2. ASSUME NEW n \in Pickable(m),
               inHand' = [inHand EXCEPT ![m] = Append(@, pickPos[m])],
               picked' = [picked EXCEPT ![m] = [i \in 1 .. n-1 |-> Plus(pickPos[m], i)]],
               pickPos' = [pickPos EXCEPT ![m] = Plus(@, n)]
        PROVE TypeInv'
    <3>1. n \in Nat /\ n >= 1
      BY DEF Pickable
    <3>2. Plus(pickPos[m], n) \in Blocks
      BY <3>1, PlusType DEF TypeOK
    <3>3. [i \in 1 .. n-1 |-> Plus(pickPos[m], i)] \in Seq(Blocks)
      <4>1. \A i \in 1 .. n-1 : Plus(pickPos[m], i) \in Blocks
        BY <3>1, PlusType DEF TypeOK
      <4>2. QED BY <3>1, <4>1, IsASeq
    <3>4. Append(inHand[m], pickPos[m]) \in Seq(Blocks)
      BY AppendProperties DEF TypeOK
    <3>5. Append(inHand[m], pickPos[m]) # <<>>
      BY AppendNonEmpty DEF TypeOK
    <3>6. ReleasingHeld'
      BY <1>4, <2>2, <3>5 DEF GetNextFullMetaBlk, TypeOK, s2dVars
    <3>7. TypeOK' /\ SignalJob'
      BY <1>4, <2>2, <3>2, <3>3, <3>4 DEF GetNextFullMetaBlk, TypeOK, prodVars, s2dVars
    <3>8. QED BY <3>6, <3>7
  <2>3. QED BY <1>4, <2>1, <2>2 DEF GetNextFullMetaBlk
<1>5. ASSUME NEW m \in Modules, NEW count \in 1 .. MaxInHand, ModuleMove(m, count) PROVE TypeInv'
  <2>1. blkPtr' \in [Modules -> Blocks]
    <3>1. Plus(blkPtr[m], count) \in Blocks
      BY PlusType DEF TypeOK
    <3>2. QED BY <1>5, <3>1 DEF ModuleMove, Move2NextMetaBlk, TypeOK
  <2>2. SubSeq(inHand[m], count + 1, Len(inHand[m])) \in Seq(Blocks)
    BY <1>5, SubSeqProperties, LenProperties DEF ModuleMove, TypeOK
  <2>3. ReleasingHeld'
    BY <1>5 DEF ModuleMove, TypeOK, s2dVars
  <2>4. TypeOK' /\ SignalJob'
    BY <1>5, <2>1, <2>2 DEF ModuleMove, TypeOK, prodVars, s2dVars
  <2>5. QED BY <2>3, <2>4
<1>6. ASSUME S2D PROVE TypeInv'
  <2> 0 \in Modules
    BY DEF Modules
  <2>1. ASSUME S2DMove, inHand[0] # <<>> PROVE TypeInv'
    <3>1. Plus(blkPtr[0], 1) \in Blocks
      BY PlusType DEF TypeOK
    <3>2. blkPtr' \in [Modules -> Blocks]
      BY <2>1, <3>1 DEF S2DMove, Move2NextMetaBlk, TypeOK
    <3>3. QED BY <2>1, <3>2, <1>6 DEF S2DMove, TypeOK, prodVars
  <2>2. CASE FreeIsFinal
    <3>1. Head(inHand[0]) \in Blocks
      BY <2>2, HeadTailProperties DEF FreeIsFinal, TypeOK
    <3>2. blk' \in [Blocks -> BlkRecord]
      BY <2>2, StoreIsFinal DEF FreeIsFinal, BlkType, TypeOK
    <3>3. relData' \in DataBlks \cup {NoData}
      BY <2>2, <3>1 DEF FreeIsFinal, TypeOK, BlkRecord
    <3>4. QED BY <2>2, <3>1, <3>2, <3>3 DEF FreeIsFinal, TypeOK, prodVars, readVars
  <2>3. CASE FreeDataBlk
    <3>1. blk' \in [Blocks -> BlkRecord]
      BY <2>3, StoreDataBlk DEF FreeDataBlk, BlkType, TypeOK
    <3>2. QED BY <2>3, <3>1 DEF FreeDataBlk, TypeOK, prodVars, readVars
  <2>4. CASE FreeSize
    <3>1. blk' \in [Blocks -> BlkRecord]
      BY <2>4, <1>a, StoreSize DEF FreeSize, BlkType
    <3>2. QED BY <2>4, <3>1 DEF FreeSize, TypeOK, prodVars, readVars
  <2>5. CASE FreeFullPktBlk
    BY <2>5 DEF FreeFullPktBlk, TypeOK, prodVars, readVars
  <2>6. CASE S2DNext
    <3>1. inHand' \in [Modules -> Seq(Blocks)]
      BY <2>6, HeadTailProperties DEF S2DNext, TypeOK
    <3>2. QED BY <2>6, <3>1 DEF S2DNext, TypeOK, prodVars
  <2>7. QED BY <1>6, <2>1, <2>2, <2>3, <2>4, <2>5, <2>6 DEF S2D, S2DMoveFirst, S2DMoveLast
<1>7. CASE UNCHANGED vars
  BY <1>7 DEF vars, prodVars, readVars, s2dVars, TypeOK
<1>8. QED BY <1>1, <1>2, <1>3, <1>4, <1>5, <1>6, <1>7 DEF Next, Index

(* Every variable of the ring keeps its type, whatever the number of       *)
(* blocks, modules and capture threads.                                    *)
THEOREM TypeCorrect == Spec => []TypeOK
<1>1. TypeInv => TypeOK
  BY DEF TypeInv
<1>2. QED BY TypeInit, TypeNext, <1>1, PTL DEF Spec

-----------------------------------------------------------------------------
(***************************************************************************)
(* The order of the chain.  A producer that enters its compare-and-swap    *)
(* with a tail nobody moved since (lag = 0) has seen room for one more     *)
(* block, and S2D only makes more; a producer whose tail was moved fewer   *)
(* than N times since sees another value in g_tailMetaBlk, so that its     *)
(* swap fails.  A tail moved N times looks unmoved: hence MaxLag < N.      *)
(***************************************************************************)
TailSeen ==
  \A p \in Producers : p \in Claiming => tail = Plus(seenTail[p], lag[p])

RoomSeen ==
  \A p \in Producers :
    pc[p] \in {"checkSize", "cas"} /\ lag[p] = 0 => Occupied <= N - 3

Chained ==
  /\ Occupied <= N - 2
  /\ \A m \in Modules : Ahead(m) <= Occupied
  /\ \A m, n \in Modules : 1 <= m /\ m <= n => Ahead(n) <= Ahead(m)

ChainInv == TailSeen /\ RoomSeen /\ Chained

(* Arithmetic of the ring: distances add up as long as they do not wrap.   *)
LEMMA DistSelf == ASSUME NEW a \in Blocks PROVE Dist(a, a) = 0
  BY RingAssumption DEF Dist, Blocks

LEMMA DistSplit ==
  ASSUME NEW a \in Blocks, NEW b \in Blocks, NEW c \in Blocks, Dist(a, b) <= Dist(a, c)
  PROVE  Dist(b, c) = Dist(a, c) - Dist(a, b)
  BY RingAssumption DEF Dist, Blocks

LEMMA DistPlus ==
  ASSUME NEW a \in Blocks, NEW b \in Blocks, NEW n \in Nat, Dist(a, b) + n <= N - 1
  PROVE  Dist(a, Plus(b, n)) = Dist(a, b) + n
<1>1. n \in 0 .. N-1
  BY DistType, RingAssumption
<1>2. Plus(b, n) = IF b + n < N THEN b + n ELSE b + n - N
  BY <1>1, PlusValue
<1>3. QED BY <1>2, RingAssumption DEF Dist, Blocks

LEMMA DistNext ==
  ASSUME NEW a \in Blocks, NEW b \in Blocks, Dist(a, b) >= 1
  PROVE  Dist(Plus(a, 1), b) = Dist(a, b) - 1
<1>1. Plus(a, 1) = IF a + 1 < N THEN a + 1 ELSE a + 1 - N
  BY PlusValue, RingAssumption
<1>2. QED BY <1>1, RingAssumption DEF Dist, Blocks

(* Two more blocks reach S2D exactly when the ring is at its limit.        *)
LEMMA FullRing ==
  ASSUME NEW a \in Blocks, NEW b \in Blocks, Plus(b, 2) # a, Dist(a, b) <= N - 2
  PROVE  Dist(a, b) <= N - 3
<1>1. Plus(b, 2) = IF b + 2 < N THEN b + 2 ELSE b + 2 - N
  BY PlusValue, RingAssumption
<1>2. QED BY <1>1, RingAssumption DEF Dist, Blocks

(* One more claim, seen from a tail read n claims ago.                     *)
LEMMA PlusPlus ==
  ASSUME NEW i \in Blocks, NEW n \in 0 .. N-2
  PROVE  Plus(Plus(i, n), 1) = Plus(i, n + 1)
<1>1. Plus(i, n) = IF i + n < N THEN i + n ELSE i + n - N
  BY PlusValue, RingAssumption
<1>2. Plus(i, n + 1) = IF i + (n + 1) < N THEN i + (n + 1) ELSE i + (n + 1) - N
  BY PlusValue, RingAssumption
<1>3. Plus(i, n) \in Blocks
  BY PlusType
<1>4. Plus(Plus(i, n), 1) = IF Plus(i, n) + 1 < N THEN Plus(i, n) + 1 ELSE Plus(i, n) + 1 - N
  BY <1>3, PlusValue, RingAssumption
<1>5. QED BY <1>1, <1>2, <1>4, RingAssumption DEF Blocks

(* A tail that moved fewer than N times and is back was not moved at all.  *)
LEMMA NotLapped ==
  ASSUME NEW i \in Blocks, NEW n \in 0 .. N-1, i = Plus(i, n)
  PROVE  n = 0
<1>1. Plus(i, n) = IF i + n < N THEN i + n ELSE i + n - N
  BY PlusValue
<1>2. QED BY <1>1, RingAssumption DEF Blocks

LEMMA ChainInit == Init => ChainInv
<1> SUFFICES ASSUME Init PROVE ChainInv
  OBVIOUS
<1>1. 0 \in Blocks /\ 0 \in Modules
  BY RingAssumption DEF Blocks, Modules
<1>2. Occupied = 0 /\ \A m \in Modules : Ahead(m) = 0
  BY <1>1, DistSelf DEF Init, Occupied, Ahead
<1>3. QED
  BY <1>2, RingAssumption DEF Init, ChainInv, TailSeen, RoomSeen, Chained, Claiming

(* A step that moves no position of the chain and makes nobody believe     *)
(* anything about it keeps ChainInv.                                       *)
LEMMA ChainStutter ==
  ASSUME ChainInv, UNCHANGED <<tail, blkPtr, seenTail, lag>>,
         \A p \in Producers :
           /\ pc'[p] \in {"checkLimit", "checkSize", "cas"} => p \in Claiming
           /\ pc'[p] \in {"checkSize", "cas"} => pc[p] \in {"checkSize", "cas"}
  PROVE  ChainInv'
  BY DEF ChainInv, TailSeen, RoomSeen, Chained, Claiming, Occupied, Ahead, Dist, Plus

(* A module other than S2D moves no further than the module before it.     *)
LEMMA ChainModuleMove ==
  ASSUME TypeOK, ChainInv, NEW m \in Modules \ {0}, NEW count \in Nat, ModuleMove(m, count)
  PROVE  ChainInv'
<1> USE RingAssumption DEF ChainInv
<1>0. 0 \in Modules /\ Dep(m) \in Modules /\ Dep(m) = m - 1 /\ m # Dep(m)
  BY DEF Modules, Dep
<1>1. CASE ~MayMove(m, count)
  <2>1. UNCHANGED <<tail, blkPtr, pc, seenTail, lag>>
    BY <1>1 DEF ModuleMove, Move2NextMetaBlk, prodVars
  <2>2. QED BY <2>1, ChainStutter DEF Claiming
<1>2. CASE MayMove(m, count)
  <2>1. /\ blkPtr' = [blkPtr EXCEPT ![m] = Plus(@, count)]
        /\ UNCHANGED <<tail, pc, seenTail, lag>>
    BY <1>2 DEF ModuleMove, Move2NextMetaBlk, prodVars
  <2> DEFINE before == IF m = 1 THEN Occupied ELSE Ahead(m - 1)
  <2>2. Limit(m) \in Blocks /\ before = Dist(blkPtr[0], Limit(m))
    BY <1>0 DEF Limit, Occupied, Ahead, TypeOK
  <2>3. /\ before \in 0 .. N-2 /\ before <= Occupied /\ Ahead(m) <= before
        /\ \A j \in Modules : 1 <= j /\ j < m => before <= Ahead(j)
    <3>1. Occupied \in 0 .. N-1 /\ \A j \in Modules : Ahead(j) \in 0 .. N-1
      BY <1>0, DistType DEF Occupied, Ahead, TypeOK
    <3>2. CASE m = 1
      BY <3>1, <3>2 DEF Chained, Modules
    <3>3. CASE m # 1
      <4>1. m - 1 \in Modules /\ 1 <= m - 1 /\ m - 1 <= m
        BY <3>3 DEF Modules
      <4>2. \A j \in Modules : 1 <= j /\ j < m => j <= m - 1
        BY DEF Modules
      <4>3. QED BY <3>1, <3>3, <4>1, <4>2 DEF Chained
    <3>4. QED BY <3>2, <3>3
  <2>4. count <= before - Ahead(m)
    <3>1. Dist(blkPtr[m], Limit(m)) = before - Ahead(m)
      BY <1>0, <2>2, <2>3, DistSplit DEF Ahead, TypeOK
    <3>2. QED BY <1>2, <3>1 DEF MayMove
  <2>5. Dist(blkPtr[0], Plus(blkPtr[m], count)) = Ahead(m) + count
    <3>1. Ahead(m) + count <= N - 1 /\ Ahead(m) \in 0 .. N-1
      <4>1. Ahead(m) \in 0 .. N-1
        BY <1>0, DistType DEF Ahead, TypeOK
      <4> HIDE DEF before
      <4>2. QED BY <2>3, <2>4, <4>1
    <3>2. QED BY <1>0, <3>1, DistPlus DEF Ahead, TypeOK
  <2>6. blkPtr'[0] = blkPtr[0] /\ Occupied' = Occupied
    BY <1>0, <2>1 DEF Occupied, TypeOK
  <2>7. Ahead(m)' = Ahead(m) + count
    BY <2>1, <2>5, <2>6 DEF Ahead, TypeOK
  <2>8. \A j \in Modules \ {m} : Ahead(j)' = Ahead(j)
    BY <2>1, <2>6 DEF Ahead, TypeOK
  <2>9. Chained'
    <3>1. \A j \in Modules : Ahead(j) \in 0 .. N-1
      BY <1>0, DistType DEF Ahead, TypeOK
    <3>2. Occupied' <= N - 2 /\ \A j \in Modules : Ahead(j)' <= Occupied'
      <4>1. before \in 0 .. N-2 /\ before <= Occupied /\ count <= before - Ahead(m)
        BY <2>3, <2>4
      <4>2. Occupied' <= N - 2
        BY <2>6 DEF Chained
      <4>3. Occupied \in 0 .. N-1
        BY <1>0, DistType DEF Occupied, TypeOK
      <4> HIDE DEF before
      <4>4. Ahead(m)' <= Occupied'
        BY <2>6, <2>7, <3>1, <4>1, <4>3
      <4>5. \A j \in Modules \ {m} : Ahead(j)' <= Occupied'
        BY <2>6, <2>8 DEF Chained
      <4>6. QED BY <4>2, <4>4, <4>5
    <3>3. ASSUME NEW i \in Modules, NEW j \in Modules, 1 <= i, i <= j
          PROVE  Ahead(j)' <= Ahead(i)'
      <4>0. i \in Int /\ j \in Int /\ m \in Int
        BY DEF Modules
      <4>1. CASE j = m /\ i # m
        BY <2>3, <2>4, <2>7, <2>8, <3>1, <3>3, <4>0, <4>1
      <4>2. CASE i = m
        BY <2>7, <2>8, <3>1, <3>3, <4>2 DEF Chained
      <4>3. CASE i # m /\ j # m
        BY <2>8, <3>3, <4>3 DEF Chained
      <4>4. QED BY <4>1, <4>2, <4>3
    <3>4. QED BY <3>2, <3>3 DEF Chained
  <2>10. TailSeen' /\ RoomSeen'
    BY <2>1, <2>6 DEF TailSeen, RoomSeen, Claiming, Plus
  <2>11. QED BY <2>9, <2>10
<1>3. QED BY <1>1, <1>2

(* S2D moves only when every module has passed its block, and frees one.   *)
LEMMA ChainS2DMove ==
  ASSUME TypeOK, ChainInv, S2DMove
  PROVE  ChainInv'
<1> USE RingAssumption DEF ChainInv
<1>0. 0 \in Modules /\ Dep(0) \in Modules /\ Dep(0) = K - 1
  BY DEF Modules, Dep
<1>1. CASE ~MayMove(0, 1)
  <2>1. UNCHANGED <<tail, blkPtr, pc, seenTail, lag>>
    BY <1>1 DEF S2DMove, Move2NextMetaBlk, prodVars
  <2>2. QED BY <2>1, ChainStutter DEF Claiming
<1>2. CASE MayMove(0, 1)
  <2>1. /\ blkPtr' = [blkPtr EXCEPT ![0] = Plus(@, 1)]
        /\ UNCHANGED <<tail, pc, seenTail, lag>>
    BY <1>2 DEF S2DMove, Move2NextMetaBlk, prodVars
  <2>2. Occupied \in 0 .. N-1 /\ \A m \in Modules : Ahead(m) \in 0 .. N-1
    BY <1>0, DistType DEF Occupied, Ahead, TypeOK
  <2>3. Occupied >= 1 /\ \A m \in Modules \ {0} : Ahead(m) >= 1
    <3>1. CASE K = 1
      BY <1>0, <1>2, <2>2, <3>1 DEF MayMove, Limit, Occupied, Modules
    <3>2. CASE K # 1
      <4>1. Ahead(K-1) >= 1
        BY <1>0, <1>2, <2>2, <3>2 DEF MayMove, Limit, Ahead
      <4>2. \A m \in Modules \ {0} : 1 <= m /\ m <= K - 1
        BY DEF Modules
      <4>3. QED BY <1>0, <2>2, <4>1, <4>2 DEF Chained
    <3>3. QED BY <3>1, <3>2
  <2>4. blkPtr'[0] = Plus(blkPtr[0], 1)
    BY <1>0, <2>1 DEF TypeOK
  <2>5. Occupied' = Occupied - 1
    BY <1>0, <2>1, <2>3, <2>4, DistNext DEF Occupied, TypeOK
  <2>6. \A m \in Modules \ {0} : Ahead(m)' = Ahead(m) - 1
    BY <1>0, <2>1, <2>3, <2>4, DistNext DEF Ahead, TypeOK
  <2>7. Ahead(0)' = 0
    <3>1. blkPtr'[0] \in Blocks
      BY <1>0, <2>4, PlusType DEF TypeOK
    <3>2. QED BY <3>1, DistSelf DEF Ahead
  <2>8. Chained'
    <3>1. Occupied' <= N - 2
      BY <2>2, <2>5 DEF Chained
    <3>2. \A m \in Modules : Ahead(m)' <= Occupied'
      BY <2>2, <2>3, <2>5, <2>6, <2>7 DEF Chained
    <3>3. ASSUME NEW i \in Modules, NEW j \in Modules, 1 <= i, i <= j
          PROVE  Ahead(j)' <= Ahead(i)'
      <4>1. i # 0 /\ j # 0
        BY <3>3 DEF Modules
      <4>2. QED BY <2>2, <2>6, <3>3, <4>1 DEF Chained
    <3>4. QED BY <3>1, <3>2, <3>3 DEF Chained
  <2>9. TailSeen' /\ RoomSeen'
    BY <2>1, <2>2, <2>5 DEF TailSeen, RoomSeen, Claiming, Plus
  <2>10. QED BY <2>8, <2>9
<1>3. QED BY <1>1, <1>2

(* The swap succeeds only for the thread that saw the last tail, and then  *)
(* the room it saw is still there.                                         *)
LEMMA ChainCasTail ==
  ASSUME MaxLag < N, TypeOK, ChainInv, NEW p \in Producers, CasTail(p)
  PROVE  ChainInv'
<1> USE RingAssumption DEF ChainInv
<1>0. 0 \in Modules
  BY DEF Modules
<1>1. /\ pc[p] = "cas" /\ p \in Claiming /\ tail = seenTail[p]
      /\ tail' = Plus(tail, 1) /\ UNCHANGED <<blkPtr, seenTail>>
      /\ \A q \in Claiming \ {p} : lag[q] < MaxLag
      /\ lag' = [q \in Producers |-> IF q \in Claiming \ {p} THEN lag[q] + 1 ELSE 0]
      /\ pc' = [pc EXCEPT ![p] = IF job[p] = "data" THEN "open" ELSE "signal"]
  BY DEF CasTail, Goto, Claiming, readVars
<1>2. lag[p] = 0
  <2>1. lag[p] \in 0 .. N-1
    BY DEF TypeOK
  <2>2. seenTail[p] \in Blocks /\ seenTail[p] = Plus(seenTail[p], lag[p])
    BY <1>1 DEF TypeOK, TailSeen
  <2>3. QED BY <2>1, <2>2, NotLapped
<1>3. Occupied \in 0 .. N-3
  BY <1>0, <1>1, <1>2, DistType DEF RoomSeen, Occupied, TypeOK
<1>4. Occupied' = Occupied + 1
  BY <1>0, <1>1, <1>3, DistPlus DEF Occupied, TypeOK
<1>5. \A m \in Modules : Ahead(m)' = Ahead(m)
  BY <1>1 DEF Ahead
<1>6. Chained'
  <2>1. \A m \in Modules : Ahead(m) \in 0 .. N-1
    BY <1>0, DistType DEF Ahead, TypeOK
  <2>2. QED BY <1>3, <1>4, <1>5, <2>1 DEF Chained
<1>7. Claiming' = Claiming \ {p}
  BY <1>1 DEF Claiming, TypeOK
<1>8. TailSeen'
  <2>1. ASSUME NEW q \in Claiming \ {p} PROVE tail' = Plus(seenTail[q], lag[q] + 1)
    <3>1. q \in Producers /\ tail = Plus(seenTail[q], lag[q]) /\ lag[q] < MaxLag
      BY <1>1, <2>1 DEF TailSeen, Claiming
    <3>2. seenTail[q] \in Blocks /\ lag[q] \in 0 .. N-2
      BY <3>1 DEF TypeOK
    <3>3. QED BY <1>1, <3>1, <3>2, PlusPlus
  <2>2. \A q \in Claiming \ {p} : lag'[q] = lag[q] + 1
    BY <1>1 DEF Claiming
  <2>3. QED BY <1>1, <1>7, <2>1, <2>2 DEF TailSeen, Plus
<1>9. RoomSeen'
  <2>1. ASSUME NEW q \in Producers, pc'[q] \in {"checkSize", "cas"} PROVE lag'[q] # 0
    <3>1. q # p /\ q \in Claiming
      BY <1>1, <2>1 DEF Claiming, TypeOK
    <3>2. QED BY <1>1, <3>1 DEF TypeOK
  <2>2. QED BY <2>1 DEF RoomSeen
<1>10. QED BY <1>6, <1>8, <1>9

(* A producer reads the tail: it is 0 claims old.                          *)
LEMMA ChainReadTail ==
  ASSUME TypeOK, ChainInv, NEW p \in Producers, ReadTail(p)
  PROVE  ChainInv'
<1>1. /\ pc' = [pc EXCEPT ![p] = "checkLimit"]
      /\ seenTail' = [seenTail EXCEPT ![p] = tail]
      /\ lag' = [lag EXCEPT ![p] = 0]
      /\ UNCHANGED <<tail, blkPtr>>
  BY DEF ReadTail, Goto, readVars
<1>2. Plus(tail, 0) = tail
  BY PlusValue, RingAssumption DEF TypeOK, Blocks
<1>3. TailSeen'
  <2>1. ASSUME NEW q \in Producers, q \in Claiming' PROVE tail' = Plus(seenTail'[q], lag'[q])
    <3>1. CASE q = p
      BY <1>1, <1>2, <3>1 DEF TypeOK
    <3>2. CASE q # p
      BY <1>1, <2>1, <3>2 DEF ChainInv, TailSeen, Claiming, TypeOK
    <3>3. QED BY <3>1, <3>2
  <2>2. QED BY <2>1 DEF TailSeen, Plus
<1>4. RoomSeen'
  BY <1>1 DEF ChainInv, RoomSeen, Occupied, Dist, TypeOK
<1>5. Chained'
  BY <1>1 DEF ChainInv, Chained, Occupied, Ahead, Dist
<1>6. QED BY <1>3, <1>4, <1>5 DEF ChainInv

(* A producer whose tail is still the last one and that gets past the      *)
(* safe-distance test has seen room for a block.                           *)
LEMMA ChainCheckLimit ==
  ASSUME TypeOK, ChainInv, NEW p \in Producers, CheckLimit(p)
  PROVE  ChainInv'
<1>1. /\ pc[p] = "checkLimit"
      /\ pc' = [pc EXCEPT ![p] = IF RoundTrip(p) THEN "readTail" ELSE "checkSize"]
      /\ UNCHANGED <<tail, blkPtr, seenTail, lag>>
  BY DEF CheckLimit, Goto, readVars
<1>2. CASE RoundTrip(p)
  BY <1>1, <1>2, ChainStutter DEF Claiming, TypeOK
<1>3. CASE ~RoundTrip(p)
  <2>1. lag[p] = 0 => Occupied <= N - 3
    <3> SUFFICES ASSUME lag[p] = 0 PROVE Occupied <= N - 3
      OBVIOUS
    <3>1. seenTail[p] \in Blocks /\ tail = Plus(seenTail[p], 0)
      BY <1>1 DEF ChainInv, TailSeen, Claiming, TypeOK
    <3>2. tail = seenTail[p]
      BY <3>1, PlusValue, RingAssumption DEF Blocks
    <3>3. 0 \in Modules
      BY RingAssumption DEF Modules
    <3>4. QED BY <1>3, <3>2, <3>3, FullRing DEF RoundTrip, ChainInv, Chained, Occupied, TypeOK
  <2>2. RoomSeen'
    BY <1>1, <2>1 DEF ChainInv, RoomSeen, Occupied, Dist, TypeOK
  <2>3. TailSeen' /\ Chained'
    BY <1>1 DEF ChainInv, TailSeen, Chained, Claiming, Occupied, Ahead, Dist, Plus, TypeOK
  <2>4. QED BY <2>2, <2>3 DEF ChainInv
<1>4. QED BY <1>2, <1>3

LEMMA ChainNext == MaxLag < N /\ TypeInv /\ ChainInv /\ [Next]_vars => ChainInv'
<1> SUFFICES ASSUME MaxLag < N, TypeInv, ChainInv, [Next]_vars PROVE ChainInv'
  OBVIOUS
<1>0. TypeOK
  BY DEF TypeInv
<1>1. ASSUME NEW p \in Producers, Claim(p) PROVE ChainInv'
  <2>1. CASE CheckSize(p) \/ CasFail(p)
    BY <1>0, <2>1, ChainStutter DEF CheckSize, CasFail, Goto, Claiming, readVars, TypeOK
  <2>2. QED
    BY <1>0, <1>1, <2>1, ChainReadTail, ChainCheckLimit, ChainCasTail DEF Claim
<1>2. ASSUME NEW p \in Producers, Finish(p) PROVE ChainInv'
  BY <1>0, <1>2, ChainStutter
     DEF Finish, OpenMetaBlk, FinalMetaBlk, FillSignal, PublishSignal, Goto, Claiming, readVars, TypeOK
<1>3. ASSUME NEW p \in Producers, Produce(p) PROVE ChainInv'
  <2>1. CASE WaitNextEmptyPktBlk(p) \/ NextMeta(p)
    BY <2>1, ChainStutter DEF WaitNextEmptyPktBlk, NextMeta, Claiming, readVars
  <2>2. CASE TurnOver(p) \/ MarkFinal(p)
    BY <1>0, <2>2, ChainStutter DEF TurnOver, MarkFinal, Goto, Claiming, readVars, TypeOK
  <2>3. ASSUME NEW sig \in Signals, SendSignal(p, sig) PROVE ChainInv'
    BY <1>0, <2>3, ChainStutter DEF SendSignal, Goto, Claiming, readVars, TypeOK
  <2>4. QED BY <1>3, <2>1, <2>2, <2>3 DEF Produce
<1>4. ASSUME NEW m \in Modules, GetNextFullMetaBlk(m) PROVE ChainInv'
  BY <1>4, ChainStutter DEF GetNextFullMetaBlk, Claiming, prodVars
<1>5. ASSUME NEW m \in Modules, NEW count \in 1 .. MaxInHand, ModuleMove(m, count)
      PROVE  ChainInv'
  <2>1. m \in Modules \ {0} /\ count \in Nat
    BY <1>5 DEF ModuleMove
  <2>2. QED BY <1>0, <1>5, <2>1, ChainModuleMove
<1>6. ASSUME S2D PROVE ChainInv'
  <2>1. CASE S2DMove
    BY <1>0, <2>1, ChainS2DMove
  <2>2. CASE FreeIsFinal \/ FreeDataBlk \/ FreeSize \/ FreeFullPktBlk \/ S2DNext
    BY <2>2, ChainStutter
       DEF FreeIsFinal, FreeDataBlk, FreeSize, FreeFullPktBlk, S2DNext, Claiming, prodVars, readVars
  <2>3. QED BY <1>6, <2>1, <2>2 DEF S2D, S2DMoveFirst, S2DMoveLast
<1>7. CASE UNCHANGED vars
  BY <1>7, ChainStutter DEF vars, prodVars, readVars, Claiming
<1>8. QED BY <1>1, <1>2, <1>3, <1>4, <1>5, <1>6, <1>7 DEF Next, Index

(* The modules stay in the order of the chain and the tail never catches   *)
(* up with S2D, for any number of capture threads, provided none of them   *)
(* is lapped inside its claim.                                             *)
THEOREM ChainOrderHolds == ASSUME MaxLag < N PROVE Spec => []ChainOrder
<1>1. Init => TypeInv /\ ChainInv
  BY TypeInit, ChainInit
<1>2. TypeInv /\ ChainInv /\ [Next]_vars => (TypeInv /\ ChainInv)'
  BY TypeNext, ChainNext
<1>3. ChainInv => ChainOrder
  <2>1. \A m \in Modules : m > 1 => m - 1 \in Modules /\ 1 <= m - 1 /\ m - 1 <= m
    BY RingAssumption DEF Modules
  <2>2. QED BY <2>1 DEF ChainInv, Chained, ChainOrder
<1>4. QED BY <1>1, <1>2, <1>3, PTL DEF Spec
=============================================================================
