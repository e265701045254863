----------------------- MODULE MetaBlkRingChainProofs -----------------------
(***************************************************************************)
(* The meta block ring implements ChainQueue: the proof, step by step.     *)
(***************************************************************************)
EXTENDS MetaBlkRingChain, MetaBlkRingBlockProofs

(* The mapping: what the queue holds, and how far each stage is.           *)
At(i) == Plus(blkPtr[0], i - 1)
Place(b) == Dist(blkPtr[0], b)
Queue == [i \in 1 .. Occupied |-> EntryOf(At(i))]
Passed == [m \in 1 .. K-1 |-> Ahead(m)]

Entries == {Chain!Open, Chain!Done} \cup {Chain!Ready(item) : item \in ChainItems}

(***************************************************************************)
(* Sequences, element by element.                                          *)
(***************************************************************************)
LEMMA IsAppend ==
  ASSUME NEW S, NEW s \in Seq(S), NEW t \in Seq(S), NEW e \in S,
         Len(t) = Len(s) + 1, \A i \in 1 .. Len(s) : t[i] = s[i], t[Len(s) + 1] = e
  PROVE  t = Append(s, e)
<1> DEFINE n == Len(s)
           u == Append(s, e)
<1>1. /\ u \in Seq(S) /\ Len(u) = n + 1 /\ u[n+1] = e
      /\ \A i \in 1 .. n : u[i] = s[i]
  BY AppendProperties
<1>2. n \in Nat /\ Len(t) = n + 1 /\ t[n+1] = e /\ \A i \in 1 .. n : t[i] = s[i]
  BY LenProperties
<1> HIDE DEF n, u
<1>3. \A i \in 1 .. n + 1 : i \in 1 .. n \/ i = n + 1
  BY <1>2
<1>4. \A i \in 1 .. Len(t) : t[i] = u[i]
  BY <1>1, <1>2, <1>3
<1>5. QED BY <1>1, <1>2, <1>4, SeqEqual DEF u

LEMMA IsTail ==
  ASSUME NEW S, NEW s \in Seq(S), NEW t \in Seq(S), s # <<>>,
         Len(t) = Len(s) - 1, \A i \in 1 .. Len(t) : t[i] = s[i+1]
  PROVE  t = Tail(s)
  BY HeadTailProperties, SeqEqual

LEMMA IsExcept ==
  ASSUME NEW S, NEW s \in Seq(S), NEW t \in Seq(S), NEW k \in 1 .. Len(s), NEW e \in S,
         Len(t) = Len(s), t[k] = e, \A i \in 1 .. Len(s) : i # k => t[i] = s[i]
  PROVE  t = [s EXCEPT ![k] = e]
  BY ExceptSeq, SeqEqual

(***************************************************************************)
(* The queue's definitions, with the mapping in place of its variables.    *)
(***************************************************************************)
LEMMA MappedInit == Chain!Init <=> Queue = <<>> /\ Passed = [m \in 1 .. K-1 |-> 0]
  BY DEF Chain!Init, Queue, Passed, At

LEMMA MappedReserve ==
  Chain!Reserve <=> /\ Len(Queue) < N - 2
                    /\ Queue' = Append(Queue, Chain!Open)
                    /\ Passed' = Passed
  BY DEF Chain!Reserve, Queue, Passed, At

LEMMA MappedPublish ==
  Chain!Publish <=> /\ \E i \in 1 .. Len(Queue), item \in ChainItems :
                         /\ Queue[i] = Chain!Open
                         /\ Queue' = [Queue EXCEPT ![i] = Chain!Ready(item)]
                    /\ Passed' = Passed
  BY DEF Chain!Publish, Queue, Passed, At

LEMMA MappedAdvance ==
  Chain!Advance <=>
    /\ \E m \in 1 .. K-1 :
       \E count \in 1 .. (IF m = 1 THEN Len(Queue) ELSE Passed[m-1]) - Passed[m] :
         /\ \A i \in Passed[m] + 1 .. Passed[m] + count : Queue[i].state = "ready"
         /\ Passed' = [Passed EXCEPT ![m] = @ + count]
    /\ Queue' = Queue
  BY DEF Chain!Advance, Chain!UpTo, Chain!IsReady, Queue, Passed, At

LEMMA MappedTakeHead ==
  Chain!TakeHead <=> /\ Queue # <<>> /\ \A m \in 1 .. K-1 : Passed[m] > 0
                     /\ Queue[1].state = "ready"
                     /\ Queue' = [Queue EXCEPT ![1] = Chain!Done]
                     /\ Passed' = Passed
  BY DEF Chain!TakeHead, Chain!HeadPassed, Chain!IsReady, Queue, Passed, At

LEMMA MappedDropHead ==
  Chain!DropHead <=> /\ Queue # <<>> /\ \A m \in 1 .. K-1 : Passed[m] > 0
                     /\ Queue[1] # Chain!Open
                     /\ Queue' = Tail(Queue)
                     /\ Passed' = [m \in 1 .. K-1 |-> Passed[m] - 1]
  BY DEF Chain!DropHead, Chain!HeadPassed, Queue, Passed, At

-----------------------------------------------------------------------------
(***************************************************************************)
(* The blocks of the queue.                                                *)
(***************************************************************************)
QueueOk ==
  /\ Queue \in Seq(Entries) /\ Len(Queue) = Occupied /\ Occupied \in 0 .. N-2
  /\ \A i \in 1 .. Occupied :
       At(i) \in Blocks /\ Place(At(i)) = i - 1 /\ Queue[i] = EntryOf(At(i))
  /\ \A m \in 1 .. K-1 : Passed[m] = Ahead(m) /\ Ahead(m) \in 0 .. N-2

LEMMA EntryType ==
  ASSUME TypeOK, BlkInv, NEW b \in Blocks
  PROVE  /\ EntryOf(b) \in Entries
         /\ b # relBlk /\ blk[b].size # 0 => ItemOf(b) \in ChainItems
<1>1. blk[b] \in BlkRecord
  BY DEF TypeOK
<1>2. CASE b = relBlk \/ blk[b].size = 0
  BY <1>2 DEF EntryOf, Entries, Chain!Done, Chain!Open
<1>3. CASE b # relBlk /\ blk[b].size # 0
  <2>1. blk[b].size \in 1 .. BlkCap
    BY <1>3 DEF BlkInv, Complete
  <2>2. /\ blk[b].dataBlk \in DataBlks \cup {NoData} /\ blk[b].isFinal \in BOOLEAN
        /\ blk[b].kind \in {"packet", "timeout", "stop"}
    BY <1>1 DEF BlkRecord
  <2>3. ItemOf(b) \in ChainItems
    BY <2>1, <2>2 DEF ItemOf, ChainItems
  <2>4. EntryOf(b) = Chain!Ready(ItemOf(b))
    BY <1>3 DEF EntryOf, Chain!Ready
  <2>5. QED BY <2>3, <2>4 DEF Entries
<1>4. QED BY <1>2, <1>3

LEMMA QueueFacts == RingInv => QueueOk
<1> SUFFICES ASSUME RingInv PROVE QueueOk
  OBVIOUS
<1> USE RingSize
<1>1. TypeOK /\ Chained /\ BlkInv /\ 0 \in Modules /\ blkPtr[0] \in Blocks
  BY RelType DEF RingInv, TypeInv, ChainInv, BlockInv, TypeOK
<1>2. Occupied \in 0 .. N-2 /\ \A m \in Modules : Ahead(m) \in 0 .. N-2
  BY <1>1, RelChain
<1>3. ASSUME NEW i \in 1 .. Occupied PROVE At(i) \in Blocks /\ Place(At(i)) = i - 1
  <2>1. i - 1 \in Nat /\ 0 + (i - 1) <= N - 1
    BY <1>2
  <2>2. Dist(blkPtr[0], blkPtr[0]) = 0
    BY <1>1, DistSelf
  <2>3. Dist(blkPtr[0], Plus(blkPtr[0], i - 1)) = 0 + (i - 1)
    BY <1>1, <2>1, <2>2, DistPlus
  <2>4. QED BY <1>1, <2>1, <2>3, PlusType DEF At, Place
<1>4. \A i \in 1 .. Occupied : EntryOf(At(i)) \in Entries
  BY <1>1, <1>3, EntryType
<1>5. Queue \in Seq(Entries) /\ Len(Queue) = Occupied
  BY <1>2, <1>4 DEF Queue
<1>6. \A i \in 1 .. Occupied : Queue[i] = EntryOf(At(i))
  BY DEF Queue
<1>7. \A m \in 1 .. K-1 : Passed[m] = Ahead(m) /\ m \in Modules
  BY RingAssumption DEF Passed, Modules
<1>8. QED BY <1>2, <1>3, <1>5, <1>6, <1>7 DEF QueueOk

LEMMA QueueFactsNext == RingInv' => QueueOk'
  BY QueueFacts, PTL

(* A block less than Occupied away from S2D's pointer is in the queue.     *)
LEMMA PlaceIsAt ==
  ASSUME RingInv, NEW b \in Blocks, Place(b) < Occupied
  PROVE  Place(b) + 1 \in 1 .. Occupied /\ At(Place(b) + 1) = b
<1>0. TypeOK /\ 0 \in Modules
  BY RelType DEF RingInv, TypeInv
<1>1. blkPtr[0] \in Blocks /\ Occupied \in 0 .. N-2 /\ Place(b) \in 0 .. N-1
  BY <1>0, QueueFacts, DistType DEF TypeOK, QueueOk, Place
<1>2. Plus(blkPtr[0], Place(b)) = b
  BY <1>1, PlusDist DEF Place
<1>3. Place(b) + 1 \in 1 .. Occupied /\ (Place(b) + 1) - 1 = Place(b)
  BY <1>1, RingSize
<1>4. QED BY <1>2, <1>3 DEF At

LEMMA PlaceOfRel ==
  ASSUME RingInv, NEW b \in Blocks
  PROVE  /\ Place(b) \in 0 .. N-1
         /\ Rel(b) >= Moved => Place(b) = Rel(b) - Moved
         /\ relMoved => Place(S2DBlk) = N - 1
<1> USE RingSize
<1>1. TypeOK /\ 0 \in Modules /\ blkPtr[0] \in Blocks /\ S2DBlk \in Blocks /\ Rel(b) \in 0 .. N-1
  BY RelType DEF RingInv, TypeInv, TypeOK
<1>2. Place(b) \in 0 .. N-1
  BY <1>1, DistType DEF Place
<1>3. CASE ~relMoved
  BY <1>1, <1>2, <1>3 DEF Moved, Place, Rel, S2DBlk
<1>4. CASE relMoved
  <2>1. S2DBlk = Plus(blkPtr[0], N - 1) /\ Plus(S2DBlk, 1) = blkPtr[0]
    BY <1>1, <1>4, DistBefore DEF S2DBlk
  <2>2. Rel(b) >= 1 => Place(b) = Rel(b) - 1
    BY <1>1, <2>1, DistNext DEF Place, Rel
  <2>3. Place(S2DBlk) = N - 1
    <3>1. N - 1 \in Nat /\ 0 + (N - 1) <= N - 1 /\ Dist(blkPtr[0], blkPtr[0]) = 0
      BY <1>1, DistSelf
    <3>2. Dist(blkPtr[0], Plus(blkPtr[0], N - 1)) = 0 + (N - 1)
      BY <1>1, <3>1, DistPlus
    <3>3. QED BY <2>1, <3>2 DEF Place
  <2>4. QED BY <1>2, <1>4, <2>2, <2>3 DEF Moved
<1>5. QED BY <1>3, <1>4

LEMMA EntrySame ==
  ASSUME NEW b, b = relBlk' <=> b = relBlk,
         b # relBlk => (blk[b].size = 0 /\ blk'[b].size = 0) \/ blk'[b] = blk[b]
  PROVE  EntryOf(b)' = EntryOf(b)
  BY DEF EntryOf, ItemOf

LEMMA QueueSame ==
  ASSUME RingInv, RingInv', tail' = tail, blkPtr'[0] = blkPtr[0],
         \A b \in Blocks : Place(b) < Occupied => EntryOf(b)' = EntryOf(b)
  PROVE  Queue' = Queue
<1>1. QueueOk /\ QueueOk'
  BY QueueFacts, QueueFactsNext
<1>2. Occupied' = Occupied /\ \A i : At(i)' = At(i)
  BY DEF Occupied, Dist, At, Plus
<1>3. ASSUME NEW i \in 1 .. Occupied PROVE Queue'[i] = Queue[i]
  <2>1. PICK b \in Blocks : b = At(i)
    BY <1>1 DEF QueueOk
  <2>2. Place(b) < Occupied
    BY <1>1, <2>1 DEF QueueOk
  <2>3. Queue'[i] = EntryOf(At(i))'
    BY <1>1, <1>2 DEF QueueOk
  <2>4. EntryOf(At(i))' = EntryOf(b)'
    BY <1>2, <2>1 DEF EntryOf, ItemOf
  <2>5. QED BY <1>1, <2>1, <2>2, <2>3, <2>4 DEF QueueOk
<1>4. Queue \in Seq(Entries) /\ Queue' \in Seq(Entries) /\ Len(Queue) = Occupied /\ Len(Queue') = Occupied
  BY <1>1, <1>2 DEF QueueOk, Entries, Chain!Open, Chain!Done, Chain!Ready, ChainItems
<1>5. QED BY <1>3, <1>4, SeqEqual

LEMMA PassedSame ==
  ASSUME blkPtr' = blkPtr
  PROVE  Passed' = Passed
  BY DEF Passed, Ahead, Dist

-----------------------------------------------------------------------------
(***************************************************************************)
(* Every step of the ring.                                                 *)
(***************************************************************************)
Shown == Queue' = Queue /\ Passed' = Passed

(* A producer at work on its own block shows nothing, ...                  *)
LEMMA StepUnseen ==
  ASSUME RingInv, RingInv', NEW p \in Producers, UNCHANGED <<tail, readVars, s2dVars>>,
         \A b \in Blocks : b # cur[p] => blk'[b] = blk[b],
         cur[p] # NoBlk => blk'[cur[p]].size = 0
  PROVE  Shown
<1>1. blkPtr' = blkPtr /\ relBlk' = relBlk
  BY DEF readVars, s2dVars
<1>2. ASSUME NEW b \in Blocks PROVE EntryOf(b)' = EntryOf(b)
  <2>1. cur[p] # NoBlk => blk[cur[p]].size = 0
    BY DEF RingInv, BlockInv, ProdInv, Alone
  <2>2. (blk[b].size = 0 /\ blk'[b].size = 0) \/ blk'[b] = blk[b]
    BY <2>1, RingAssumption
  <2>3. QED BY <1>1, <2>2, EntrySame
<1>3. QED BY <1>1, <1>2, QueueSame, PassedSame DEF Shown

(* ... until it publishes it.                                              *)
LEMMA StepPublish ==
  ASSUME RingInv, RingInv', NEW p \in Producers, UNCHANGED <<tail, readVars, s2dVars>>,
         \A b \in Blocks : b # cur[p] => blk'[b] = blk[b],
         cur[p] # NoBlk, blk'[cur[p]].size # 0
  PROVE  Chain!Publish
<1> USE RingSize
<1>1. blkPtr' = blkPtr /\ relBlk' = relBlk /\ QueueOk /\ QueueOk' /\ Passed' = Passed
  BY QueueFacts, QueueFactsNext, PassedSame DEF readVars, s2dVars
<1>2. PICK c \in Blocks : c = cur[p]
  BY DEF RingInv, TypeInv, TypeOK
<1>3. c # relBlk /\ blk[c].size = 0 /\ Rel(c) < Span /\ TypeOK /\ Chained
  BY <1>2 DEF RingInv, TypeInv, ChainInv, BlockInv, ProdInv, Alone
<1>4. Place(c) < Occupied
  <2>1. Rel(c) \in 0 .. N-1 /\ Span = Occupied + Moved /\ Occupied \in 0 .. N-2
    BY <1>3, RelType, RelChain
  <2>2. CASE ~relMoved
    BY <1>3, <2>1, <2>2, PlaceOfRel DEF Moved
  <2>3. CASE relMoved
    <3>1. Rel(c) # 0
      <4>1. inHand[0] # <<>> /\ BlockInv
        BY <2>3 DEF RingInv, TypeInv, ReleasingHeld
      <4>2. c # S2DBlk /\ Rel(S2DBlk) = 0 /\ S2DBlk \in Blocks
        BY <1>2, <1>3, <4>1, S2DHolds
      <4>3. QED BY <1>3, <4>2, RelInjective
    <3>2. Place(c) = Rel(c) - 1
      BY <2>1, <2>3, <3>1, PlaceOfRel DEF Moved
    <3>3. QED BY <1>3, <2>1, <2>3, <3>1, <3>2 DEF Moved
  <2>4. QED BY <2>2, <2>3
<1>5. PICK k \in 1 .. Occupied : At(k) = c
  BY <1>4, PlaceIsAt
<1>6. Occupied' = Occupied /\ \A i : At(i)' = At(i)
  BY <1>1 DEF Occupied, Dist, At, Plus
<1>7. Queue[k] = Chain!Open
  BY <1>1, <1>3, <1>5 DEF QueueOk, EntryOf, Chain!Open
<1>8. PICK item \in ChainItems : EntryOf(c)' = Chain!Ready(item)
  <2>1. c # relBlk' /\ blk'[c].size # 0
    BY <1>1, <1>2, <1>3
  <2>2. ItemOf(c)' \in ChainItems
    <3>1. TypeOK' /\ BlkInv'
      BY DEF RingInv, TypeInv, BlockInv
    <3>2. blk'[c] \in BlkRecord /\ blk'[c].size \in 1 .. BlkCap
      BY <2>1, <3>1 DEF TypeOK, BlkInv, Complete
    <3>3. QED BY <3>2 DEF ItemOf, ChainItems, BlkRecord
  <2>3. EntryOf(c)' = Chain!Ready(ItemOf(c)')
    BY <2>1 DEF EntryOf, Chain!Ready, ItemOf
  <2>4. QED BY <2>2, <2>3
<1>9. Queue'[k] = Chain!Ready(item)
  <2>1. Queue'[k] = EntryOf(At(k))'
    BY <1>1, <1>6 DEF QueueOk
  <2>2. EntryOf(At(k))' = EntryOf(c)'
    BY <1>5, <1>6 DEF EntryOf, ItemOf
  <2>3. QED BY <1>8, <2>1, <2>2
<1>10. ASSUME NEW i \in 1 .. Occupied, i # k PROVE Queue'[i] = Queue[i]
  <2>1. PICK b \in Blocks : b = At(i)
    BY <1>1 DEF QueueOk
  <2>2. b # c
    <3>1. Place(b) = i - 1 /\ Place(c) = k - 1
      BY <1>1, <1>5, <2>1 DEF QueueOk
    <3>2. QED BY <1>1, <1>10, <3>1
  <2>3. EntryOf(b)' = EntryOf(b)
    BY <1>1, <1>2, <2>2, EntrySame
  <2>4. Queue'[i] = EntryOf(At(i))' /\ EntryOf(At(i))' = EntryOf(b)'
    BY <1>1, <1>6, <2>1 DEF QueueOk, EntryOf, ItemOf
  <2>5. QED BY <1>1, <2>1, <2>3, <2>4 DEF QueueOk
<1>11. /\ Queue \in Seq(Entries) /\ Queue' \in Seq(Entries) /\ Len(Queue) = Occupied
       /\ Len(Queue') = Occupied
  BY <1>1, <1>6 DEF QueueOk, Entries, Chain!Open, Chain!Done, Chain!Ready, ChainItems
<1>12. Queue' = [Queue EXCEPT ![k] = Chain!Ready(item)]
  <2>1. Chain!Ready(item) \in Entries
    BY DEF Entries
  <2>2. QED BY <1>9, <1>10, <1>11, <2>1, IsExcept
<1>13. QED BY <1>1, <1>7, <1>11, <1>12, MappedPublish

(* A claim reserves an entry.                                              *)
LEMMA StepReserve ==
  ASSUME MaxLag < N, RingInv, RingInv', NEW p \in Producers, CasTail(p)
  PROVE  Chain!Reserve
<1> USE RingSize
<1>1. /\ tail' = Plus(tail, 1) /\ blkPtr' = blkPtr /\ relBlk' = relBlk /\ blk' = blk
      /\ QueueOk /\ QueueOk' /\ Passed' = Passed /\ TypeOK /\ tail \in Blocks
      /\ blkPtr[0] \in Blocks /\ pc[p] = "cas"
  BY QueueFacts, QueueFactsNext, PassedSame, RelType
     DEF CasTail, Goto, readVars, s2dVars, RingInv, TypeInv, TypeOK
<1>2. Occupied <= N - 3 /\ Occupied \in 0 .. N-2
  BY <1>1, ClaimHasRoom DEF RingInv, QueueOk
<1>3. Occupied' = Occupied + 1
  <2>1. Dist(blkPtr[0], Plus(tail, 1)) = Dist(blkPtr[0], tail) + 1
    BY <1>1, <1>2, DistPlus DEF Occupied
  <2>2. Occupied' = Dist(blkPtr[0], Plus(tail, 1))
    BY <1>1 DEF Occupied, Dist
  <2>3. QED BY <2>1, <2>2 DEF Occupied
<1>4. \A i : At(i)' = At(i)
  BY <1>1 DEF At, Plus
<1>5. ASSUME NEW i \in 1 .. Occupied PROVE Queue'[i] = Queue[i]
  <2>1. EntryOf(At(i))' = EntryOf(At(i))
    BY <1>1, <1>4 DEF EntryOf, ItemOf
  <2>2. i \in 1 .. Occupied'
    BY <1>2, <1>3
  <2>3. QED BY <1>1, <2>1, <2>2 DEF QueueOk
<1>6. Queue'[Occupied + 1] = Chain!Open
  <2>1. At(Occupied + 1) = tail
    <3>1. (Occupied + 1) - 1 = Dist(blkPtr[0], tail)
      BY <1>2 DEF Occupied
    <3>2. QED BY <1>1, <3>1, PlusDist DEF At
  <2>2. Clean(tail) /\ tail # relBlk
    <3>1. Rel(tail) >= Span
      BY <1>1, RelType DEF Span
    <3>2. cur'[p] = tail /\ tail # NoBlk
      BY <1>1, RingAssumption DEF CasTail, TypeOK
    <3>3. tail # relBlk'
      BY <3>2 DEF RingInv, BlockInv, ProdInv, Alone
    <3>4. QED BY <1>1, <3>1, <3>3 DEF RingInv, BlockInv, BlkInv
  <2>3. Queue'[Occupied + 1] = EntryOf(tail)
    <3>1. Occupied + 1 \in 1 .. Occupied'
      BY <1>2, <1>3
    <3>2. \A i \in 1 .. Occupied' : Queue'[i] = EntryOf(At(i))'
      BY <1>1 DEF QueueOk
    <3>3. PICK k : k = Occupied + 1
      OBVIOUS
    <3>4. Queue'[k] = EntryOf(At(k))'
      BY <3>1, <3>2, <3>3
    <3>5. EntryOf(At(k))' = EntryOf(At(k))
      BY <1>1, <1>4 DEF EntryOf, ItemOf
    <3>6. QED BY <2>1, <3>3, <3>4, <3>5
  <2>4. QED BY <2>1, <2>2, <2>3 DEF EntryOf, Clean, Chain!Open
<1>7. /\ Queue \in Seq(Entries) /\ Queue' \in Seq(Entries) /\ Len(Queue) = Occupied
      /\ Len(Queue') = Occupied + 1
  BY <1>1, <1>3 DEF QueueOk, Entries, Chain!Open, Chain!Done, Chain!Ready, ChainItems
<1>8. Queue' = Append(Queue, Chain!Open)
  <2>1. Chain!Open \in Entries
    BY DEF Entries
  <2>2. QED BY <1>5, <1>6, <1>7, <2>1, IsAppend
<1>9. QED BY <1>1, <1>2, <1>7, <1>8, MappedReserve

(* A module that lets go of blocks it holds lets its stage advance.        *)
LEMMA StepAdvance ==
  ASSUME RingInv, RingInv', NEW m \in Modules, Index(m)
  PROVE  Chain!Advance
<1> USE RingSize
<1>1. PICK count \in 1 .. MaxInHand : ModuleMove(m, count)
  BY DEF Index
<1>a. QueueOk /\ QueueOk' /\ TypeOK /\ Chained /\ ReadInv
  BY QueueFacts, QueueFactsNext DEF RingInv, TypeInv, ChainInv, BlockInv
<1>b. /\ m # 0 /\ count \in 1 .. Len(inHand[m]) /\ UNCHANGED <<tail, blk, relBlk>>
  BY <1>1 DEF ModuleMove, s2dVars
<1>c. m \in 1 .. K-1 /\ m \in Modules \ {0} /\ 0 \in Modules /\ count \in Nat /\ count >= 1
  BY <1>a, <1>b, RelType, RingAssumption DEF Modules
<1>2. /\ m \in 1 .. K-1 /\ m \in Modules \ {0} /\ count \in Nat /\ count >= 1
      /\ count \in 1 .. Len(inHand[m])
      /\ UNCHANGED <<tail, blk, relBlk>>
      /\ QueueOk /\ QueueOk' /\ TypeOK /\ Chained /\ ReadInv /\ 0 \in Modules
      /\ blkPtr[m] \in Blocks /\ blkPtr[0] \in Blocks
  BY <1>a, <1>b, <1>c DEF TypeOK
<1>3. Ahead(m) + count <= (IF m = 1 THEN Occupied ELSE Ahead(m-1))
      /\ blkPtr' = [blkPtr EXCEPT ![m] = Plus(blkPtr[m], count)]
  <2> DEFINE lim == Dist(blkPtr[m], Limit(m))
  <2>1. count <= lim
    <3> DEFINE h == Len(inHand[m])
               k == Len(picked[m])
    <3>1. h \in Nat /\ k \in Nat /\ Count(m) = h + k /\ count <= h
      BY <1>2, CountType DEF Count
    <3>2. Count(m) <= lim /\ lim \in 0 .. N-1
      BY <1>2, HandFits, DistType, RelType DEF Start
    <3> HIDE DEF h, k, lim
    <3>3. QED BY <1>2, <3>1, <3>2
  <2>2. blkPtr' = [blkPtr EXCEPT ![m] = Plus(blkPtr[m], count)]
    BY <1>1, <2>1 DEF ModuleMove, Move2NextMetaBlk, MayMove
  <2>3. Dist(blkPtr[0], Limit(m)) = IF m = 1 THEN Occupied ELSE Ahead(m-1)
    <3>1. m # Dep(m) /\ Dep(m) = m - 1
      BY <1>2, RingAssumption DEF Dep
    <3>2. QED BY <3>1 DEF Limit, Occupied, Ahead
  <2>4. Dist(blkPtr[0], blkPtr[m]) = Ahead(m)
    BY DEF Ahead
  <2>5. Ahead(m) <= (IF m = 1 THEN Occupied ELSE Ahead(m-1))
    <3>1. m # 1 => m - 1 \in Modules /\ 1 <= m - 1 /\ m - 1 <= m
      BY <1>2, RingAssumption DEF Modules
    <3>2. QED BY <1>2, <3>1 DEF Chained
  <2>6. lim = (IF m = 1 THEN Occupied ELSE Ahead(m-1)) - Ahead(m)
    BY <1>2, <2>3, <2>4, <2>5, DistSplit, RelType
  <2>7. /\ Occupied \in 0 .. N-2 /\ Ahead(m) \in 0 .. N-2
        /\ m # 1 => Ahead(m-1) \in 0 .. N-2
    <3>1. m # 1 => m - 1 \in 1 .. K-1
      BY <1>2, RingAssumption
    <3>2. QED BY <1>2, <3>1 DEF QueueOk
  <2> HIDE DEF lim
  <2>8. QED BY <1>2, <2>1, <2>2, <2>6, <2>7
<1>4. Ahead(m) + count <= Occupied /\ Ahead(m) \in 0 .. N-2 /\ Occupied \in 0 .. N-2
  <2>1. m # 1 => m - 1 \in Modules /\ m - 1 \in 1 .. K-1
    BY <1>2, RingAssumption DEF Modules
  <2>2. m # 1 => Ahead(m-1) <= Occupied /\ Ahead(m-1) \in 0 .. N-2
    BY <1>2, <2>1 DEF Chained, QueueOk
  <2>3. Ahead(m) \in 0 .. N-2 /\ Occupied \in 0 .. N-2
    BY <1>2 DEF QueueOk
  <2>4. QED BY <1>2, <1>3, <2>2, <2>3
<1>5. Ahead(m)' = Ahead(m) + count
  <2>1. Dist(blkPtr[0], Plus(blkPtr[m], count)) = Ahead(m) + count
    BY <1>2, <1>4, DistPlus DEF Ahead
  <2>2. blkPtr'[0] = blkPtr[0] /\ blkPtr'[m] = Plus(blkPtr[m], count)
    BY <1>2, <1>3 DEF TypeOK
  <2>3. QED BY <2>1, <2>2 DEF Ahead, Dist
<1>6. Passed' = [Passed EXCEPT ![m] = @ + count]
  <2>1. \A j \in 1 .. K-1 : j # m => Ahead(j)' = Ahead(j)
    <3>1. \A j \in 1 .. K-1 : j # m => blkPtr'[j] = blkPtr[j] /\ blkPtr'[0] = blkPtr[0]
      BY <1>2, <1>3, RingAssumption DEF TypeOK, Modules
    <3>2. QED BY <3>1 DEF Ahead, Dist
  <2>2. Passed[m] = Ahead(m)
    BY <1>2 DEF QueueOk
  <2>3. QED BY <1>2, <1>5, <2>1, <2>2 DEF Passed
<1>7. ASSUME NEW i \in Ahead(m) + 1 .. Ahead(m) + count PROVE Queue[i].state = "ready"
  <2>1. /\ i \in 1 .. Occupied /\ i - Ahead(m) \in 1 .. count
        /\ i - Ahead(m) \in 1 .. Len(inHand[m]) /\ (i - Ahead(m)) - 1 \in Nat
        /\ Ahead(m) + ((i - Ahead(m)) - 1) = i - 1
    <3> DEFINE h == Len(inHand[m])
    <3>1. h \in Nat /\ count <= h
      BY <1>2, CountType
    <3> HIDE DEF h
    <3>2. /\ i \in 1 .. Occupied /\ i - Ahead(m) \in 1 .. count
          /\ i - Ahead(m) \in 1 .. h /\ (i - Ahead(m)) - 1 \in Nat
          /\ Ahead(m) + ((i - Ahead(m)) - 1) = i - 1
      <4> DEFINE a == Ahead(m)
                 o == Occupied
      <4>1. a \in Nat /\ o \in Nat /\ a + count <= o /\ count \in Nat
        BY <1>2, <1>4
      <4> HIDE DEF a, o
      <4>2. i \in a + 1 .. a + count
        BY DEF a
      <4>3. /\ i \in 1 .. o /\ i - a \in 1 .. count
            /\ i - a \in 1 .. h /\ (i - a) - 1 \in Nat
            /\ a + ((i - a) - 1) = i - 1
        BY <3>1, <4>1, <4>2
      <4>4. QED BY <4>3 DEF a, o
    <3>3. QED BY <3>2 DEF h
  <2>2. PICK b \in Blocks : b = At(i)
    BY <1>2, <2>1 DEF QueueOk
  <2>3. b \in Held(m)
    <3>1. inHand[m][i - Ahead(m)] = Plus(blkPtr[m], (i - Ahead(m)) - 1)
      BY <1>2, <2>1 DEF ReadInv, Consecutive, Start
    <3>2. Plus(blkPtr[m], (i - Ahead(m)) - 1) = Plus(blkPtr[0], i - 1)
      <4>1. blkPtr[m] = Plus(blkPtr[0], Ahead(m))
        BY <1>2, PlusDist DEF Ahead
      <4>2. Ahead(m) \in Nat /\ Ahead(m) + ((i - Ahead(m)) - 1) <= N - 1
        BY <1>4, <2>1
      <4>3. (i - Ahead(m)) - 1 \in Nat /\ Ahead(m) + ((i - Ahead(m)) - 1) = i - 1
            /\ blkPtr[0] \in Blocks
        BY <1>2, <2>1
      <4>4. Plus(Plus(blkPtr[0], Ahead(m)), (i - Ahead(m)) - 1)
              = Plus(blkPtr[0], Ahead(m) + ((i - Ahead(m)) - 1))
        BY <4>2, <4>3, PlusSum
      <4>5. QED BY <4>1, <4>3, <4>4
    <3>3. b = inHand[m][i - Ahead(m)]
      BY <2>2, <3>1, <3>2 DEF At
    <3>4. QED BY <2>1, <3>3 DEF Held, Elems
  <2>4. b # relBlk /\ blk[b].size # 0
    BY <1>2, <2>3, HeldIsPublished DEF RingInv, ChainInv
  <2>5. Queue[i] = EntryOf(b)
    BY <1>2, <2>1, <2>2 DEF QueueOk
  <2>6. EntryOf(b).state = "ready"
    BY <2>4 DEF EntryOf
  <2>7. QED BY <2>5, <2>6
<1>8. Queue' = Queue
  <2>1. blkPtr'[0] = blkPtr[0]
    BY <1>2, <1>3 DEF TypeOK
  <2>2. \A b \in Blocks : EntryOf(b)' = EntryOf(b)
    BY <1>2, EntrySame
  <2>3. QED BY <1>2, <2>1, <2>2, QueueSame
<1>9. Passed[m] = Ahead(m) /\ Len(Queue) = Occupied /\ (m # 1 => Passed[m-1] = Ahead(m-1))
  <2>1. m # 1 => m - 1 \in 1 .. K-1
    BY <1>2, RingAssumption
  <2>2. QED BY <1>2, <2>1 DEF QueueOk
<1>10. count \in 1 .. (IF m = 1 THEN Len(Queue) ELSE Passed[m-1]) - Passed[m]
  <2>1. m # 1 => Ahead(m-1) \in 0 .. N-2
    <3>1. m # 1 => m - 1 \in 1 .. K-1
      BY <1>2, RingAssumption
    <3>2. QED BY <1>2, <3>1 DEF QueueOk
  <2>2. QED BY <1>2, <1>3, <1>4, <1>9, <2>1
<1>11. QED BY <1>2, <1>6, <1>7, <1>8, <1>9, <1>10, MappedAdvance

(* S2D has the head of the queue, which every stage passed.                *)
LEMMA S2DAtHead ==
  ASSUME RingInv, inHand[0] # <<>>, ~relMoved
  PROVE  /\ Queue # <<>> /\ \A m \in 1 .. K-1 : Passed[m] > 0
         /\ Occupied >= 1 /\ At(1) = blkPtr[0] /\ blkPtr[0] = S2DBlk /\ Queue[1] = EntryOf(S2DBlk)
<1> USE RingSize
<1>1. QueueOk /\ TypeOK /\ Chained /\ BlockInv /\ ReadInv /\ S2DBlk = blkPtr[0] /\ Span = Occupied
      /\ S2DBlk \in Blocks
  BY QueueFacts, RelType DEF RingInv, TypeInv, ChainInv, BlockInv, S2DBlk, Span, Rel, Occupied
<1>2. Occupied >= 1
  BY <1>1, S2DHolds
<1>3. At(1) = blkPtr[0]
  <2>1. Plus(blkPtr[0], 0) = blkPtr[0]
    BY <1>1, PlusValue DEF Blocks
  <2>2. QED BY <2>1 DEF At
<1>4. Queue # <<>>
  BY <1>1, <1>2, EmptySeq DEF QueueOk
<1>5. 1 \in 1 .. Occupied
  BY <1>1, <1>2 DEF QueueOk
<1>6. Queue[1] = EntryOf(S2DBlk)
  BY <1>1, <1>3, <1>5 DEF QueueOk
<1>7. ASSUME NEW m \in 1 .. K-1 PROVE Passed[m] > 0
  <2>1. m \in Modules \ {0}
    BY RingAssumption DEF Modules
  <2>2. Rel(blkPtr[m]) >= 1 /\ Rel(blkPtr[m]) = Ahead(m)
    BY <1>1, <2>1, ModulesArePast DEF Rel, Ahead
  <2>3. QED BY <1>1, <2>2 DEF QueueOk
<1>8. QED BY <1>1, <1>2, <1>3, <1>4, <1>6, <1>7

(* FreeIsFinal takes the head, unless S2D moved past it before.            *)
LEMMA StepTakeHead ==
  ASSUME RingInv, RingInv', FreeIsFinal
  PROVE  Chain!TakeHead \/ Shown
<1> USE RingSize
<1>1. /\ inHand[0] # <<>> /\ s2dPc = "idle" /\ relBlk = NoBlk
      /\ UNCHANGED <<tail, blkPtr, relMoved>> /\ Passed' = Passed
      /\ relBlk' = Head(inHand[0]) /\ blk' = [blk EXCEPT ![Head(inHand[0])].isFinal = FALSE]
  BY PassedSame DEF FreeIsFinal, readVars, RingInv, BlockInv, ReleaseInv
<1>2. /\ relBlk' = S2DBlk /\ S2DBlk \in Blocks /\ blk[S2DBlk].size # 0
      /\ \A b \in Blocks : b # S2DBlk => blk'[b] = blk[b]
  <2>1. Head(inHand[0]) = S2DBlk /\ S2DBlk \in Blocks /\ blk[S2DBlk].size # 0
    BY <1>1, S2DHolds, RelType, RingAssumption DEF RingInv, TypeInv, ChainInv
  <2>2. QED BY <1>1, <2>1 DEF RingInv, TypeInv, TypeOK
<1>3. ASSUME NEW b \in Blocks, b # S2DBlk PROVE EntryOf(b)' = EntryOf(b)
  <2>1. b # relBlk /\ b # relBlk' /\ blk'[b] = blk[b]
    BY <1>1, <1>2, <1>3, RingAssumption
  <2>2. QED BY <2>1, EntrySame
<1>4. QueueOk /\ QueueOk'
  BY QueueFacts, QueueFactsNext
<1>5. CASE relMoved
  <2>1. Place(S2DBlk) = N - 1 /\ Occupied \in 0 .. N-2
    BY <1>2, <1>4, <1>5, PlaceOfRel DEF QueueOk
  <2>2. \A b \in Blocks : Place(b) < Occupied => EntryOf(b)' = EntryOf(b)
    BY <1>3, <2>1
  <2>3. QED BY <1>1, <2>2, QueueSame DEF Shown
<1>6. CASE ~relMoved
  <2>1. /\ Queue # <<>> /\ \A m \in 1 .. K-1 : Passed[m] > 0
        /\ Occupied >= 1 /\ At(1) = S2DBlk /\ Queue[1] = EntryOf(S2DBlk)
    BY <1>1, <1>6, S2DAtHead
  <2>2. Queue[1].state = "ready"
    BY <1>1, <1>2, <2>1, RingAssumption DEF EntryOf
  <2>3. Occupied' = Occupied /\ (\A i : At(i)' = At(i)) /\ 1 \in 1 .. Occupied
    BY <1>1, <1>4, <2>1 DEF Occupied, Dist, At, Plus, QueueOk
  <2>4. Queue'[1] = Chain!Done
    <3>1. Queue'[1] = EntryOf(At(1))'
      BY <1>4, <2>3 DEF QueueOk
    <3>2. At(1)' = relBlk'
      BY <1>2, <2>1, <2>3
    <3>3. QED BY <3>1, <3>2 DEF EntryOf, Chain!Done
  <2>5. ASSUME NEW i \in 1 .. Occupied, i # 1 PROVE Queue'[i] = Queue[i]
    <3>1. PICK b \in Blocks : b = At(i)
      BY <1>4 DEF QueueOk
    <3>2. b # S2DBlk
      <4>1. Place(b) = i - 1 /\ Place(S2DBlk) = 1 - 1
        BY <1>4, <2>1, <2>3, <3>1 DEF QueueOk
      <4>2. QED BY <1>4, <2>5, <4>1
    <3>3. Queue'[i] = EntryOf(At(i))' /\ EntryOf(At(i))' = EntryOf(b)'
      BY <1>4, <2>3, <3>1 DEF QueueOk, EntryOf, ItemOf
    <3>4. QED BY <1>3, <1>4, <3>1, <3>2, <3>3 DEF QueueOk
  <2>6. /\ Queue \in Seq(Entries) /\ Queue' \in Seq(Entries) /\ Len(Queue) = Occupied
        /\ Len(Queue') = Occupied
    BY <1>4, <2>3 DEF QueueOk, Entries, Chain!Open, Chain!Done, Chain!Ready, ChainItems
  <2>7. Queue' = [Queue EXCEPT ![1] = Chain!Done]
    <3>1. Chain!Done \in Entries
      BY DEF Entries
    <3>2. QED BY <2>3, <2>4, <2>5, <2>6, <3>1, IsExcept
  <2>8. QED BY <1>1, <2>1, <2>2, <2>7, MappedTakeHead
<1>7. QED BY <1>5, <1>6

(* S2D's pointer moves past the head, before it takes it or after.         *)
LEMMA StepDropHead ==
  ASSUME RingInv, RingInv', S2DMoveFirst \/ S2DMoveLast
  PROVE  Chain!DropHead
<1> USE RingSize
<1>1. inHand[0] # <<>> /\ ~relMoved /\ S2DMove
  BY DEF S2DMoveFirst, S2DMoveLast, RingInv, TypeInv, ReleasingHeld
<1>2. /\ Queue # <<>> /\ \A m \in 1 .. K-1 : Passed[m] > 0
      /\ Occupied >= 1 /\ blkPtr[0] = S2DBlk /\ Queue[1] = EntryOf(S2DBlk)
  BY <1>1, S2DAtHead
<1>3. /\ QueueOk /\ QueueOk' /\ TypeOK /\ Chained /\ 0 \in Modules /\ S2DBlk \in Blocks
      /\ UNCHANGED <<tail, blk, relBlk>>
  BY <1>1, QueueFacts, QueueFactsNext, RelType DEF S2DMove, RingInv, TypeInv, ChainInv
<1>4. blkPtr' = [blkPtr EXCEPT ![0] = Plus(@, 1)]
  BY <1>1, <1>3, ReadS2DMove DEF RingInv, BlockInv
<1>5. Queue[1] # Chain!Open
  <2>1. relBlk # S2DBlk => blk[S2DBlk].size # 0
    BY <1>1, <1>3, S2DHolds DEF RingInv
  <2>2. QED BY <1>2, <2>1 DEF EntryOf, Chain!Open
<1>6. /\ blkPtr'[0] = Plus(blkPtr[0], 1) /\ \A m \in Modules \ {0} : blkPtr'[m] = blkPtr[m]
      /\ blkPtr[0] \in Blocks /\ tail \in Blocks /\ \A m \in Modules : blkPtr[m] \in Blocks
  BY <1>3, <1>4 DEF TypeOK
<1>7. Occupied' = Occupied - 1
  <2>1. Dist(Plus(blkPtr[0], 1), tail) = Dist(blkPtr[0], tail) - 1
    BY <1>2, <1>6, DistNext DEF Occupied
  <2>2. Occupied' = Dist(Plus(blkPtr[0], 1), tail)
    BY <1>3, <1>6 DEF Occupied, Dist
  <2>3. QED BY <2>1, <2>2 DEF Occupied
<1>8. ASSUME NEW m \in 1 .. K-1 PROVE Ahead(m)' = Passed[m] - 1
  <2>1. m \in Modules \ {0} /\ Ahead(m) = Passed[m] /\ Ahead(m) > 0 /\ Ahead(m) \in 0 .. N-2
    BY <1>2, <1>3, RingAssumption DEF Modules, QueueOk
  <2>2. Ahead(m) >= 1
    BY <2>1
  <2>3. Dist(Plus(blkPtr[0], 1), blkPtr[m]) = Dist(blkPtr[0], blkPtr[m]) - 1
    BY <1>6, <2>1, <2>2, DistNext DEF Ahead
  <2>4. Ahead(m)' = Dist(Plus(blkPtr[0], 1), blkPtr[m])
    BY <1>6, <2>1 DEF Ahead, Dist
  <2>5. QED BY <2>1, <2>3, <2>4 DEF Ahead
<1>9. Passed' = [m \in 1 .. K-1 |-> Passed[m] - 1]
  BY <1>8 DEF Passed
<1>10. ASSUME NEW i \in 1 .. Occupied - 1 PROVE Queue'[i] = Queue[i+1]
  <2>1. /\ i \in 1 .. Occupied' /\ i + 1 \in 1 .. Occupied /\ i - 1 \in Nat /\ 1 + (i - 1) = (i + 1) - 1
        /\ 1 + (i - 1) <= N - 1
    BY <1>3, <1>7 DEF QueueOk
  <2>2. Queue'[i] = EntryOf(At(i))'
    BY <1>3, <2>1 DEF QueueOk
  <2>3. At(i)' = At(i+1)
    <3>1. At(i)' = Plus(Plus(blkPtr[0], 1), i - 1)
      BY <1>6 DEF At, Plus
    <3>2. Plus(Plus(blkPtr[0], 1), i - 1) = Plus(blkPtr[0], 1 + (i - 1))
      BY <1>6, <2>1, PlusSum
    <3>3. QED BY <2>1, <3>1, <3>2 DEF At
  <2>4. EntryOf(At(i))' = EntryOf(At(i+1))
    BY <1>3, <2>3 DEF EntryOf, ItemOf
  <2>5. QED BY <1>3, <2>1, <2>2, <2>4 DEF QueueOk
<1>11. /\ Queue \in Seq(Entries) /\ Queue' \in Seq(Entries) /\ Len(Queue) = Occupied
       /\ Len(Queue') = Occupied - 1
  BY <1>3, <1>7 DEF QueueOk, Entries, Chain!Open, Chain!Done, Chain!Ready, ChainItems
<1>12. Queue' = Tail(Queue)
  BY <1>2, <1>10, <1>11, IsTail
<1>13. QED BY <1>2, <1>5, <1>9, <1>12, MappedDropHead

LEMMA StepS2D ==
  ASSUME RingInv, RingInv', S2D
  PROVE  Chain!Next \/ Shown
<1>1. CASE S2DMoveFirst \/ S2DMoveLast
  BY <1>1, StepDropHead DEF Chain!Next
<1>2. CASE FreeIsFinal
  BY <1>2, StepTakeHead DEF Chain!Next
<1>3. CASE FreeDataBlk \/ FreeSize \/ FreeFullPktBlk
  <2>1. /\ UNCHANGED <<tail, blkPtr, relBlk>>
        /\ \A b \in Blocks : b # relBlk => blk'[b] = blk[b]
    BY <1>3 DEF FreeDataBlk, FreeSize, FreeFullPktBlk, readVars, RingInv, TypeInv, TypeOK
  <2>2. \A b \in Blocks : EntryOf(b)' = EntryOf(b)
    BY <2>1, EntrySame
  <2>3. QED BY <2>1, <2>2, QueueSame, PassedSame DEF Shown
<1>4. CASE S2DNext
  <2>1. /\ UNCHANGED <<tail, blkPtr, blk>> /\ relMoved /\ relBlk = S2DBlk /\ relBlk' = NoBlk
        /\ S2DBlk \in Blocks
    BY <1>4, RelType DEF S2DNext, RingInv, TypeInv, BlockInv, ReleaseInv
  <2>2. Place(S2DBlk) = N - 1 /\ Occupied \in 0 .. N-2
    BY <2>1, PlaceOfRel, QueueFacts DEF QueueOk
  <2>3. ASSUME NEW b \in Blocks, Place(b) < Occupied PROVE EntryOf(b)' = EntryOf(b)
    <3>1. b # S2DBlk
      BY <2>2, <2>3, RingSize
    <3>2. QED BY <2>1, <3>1, EntrySame, RingAssumption
  <2>4. QED BY <2>1, <2>3, QueueSame, PassedSame DEF Shown
<1>5. QED BY <1>1, <1>2, <1>3, <1>4 DEF S2D

LEMMA StepProducer ==
  ASSUME MaxLag < N, RingInv, RingInv', NEW p \in Producers, Claim(p) \/ Finish(p) \/ Produce(p)
  PROVE  Chain!Next \/ Shown
<1>0. blk \in [Blocks -> BlkRecord] /\ cur \in [Producers -> Blocks \cup {NoBlk}]
  BY DEF RingInv, TypeInv, TypeOK
<1>1. CASE CasTail(p)
  BY <1>1, StepReserve DEF Chain!Next
<1>2. CASE ~CasTail(p)
  <2>1. UNCHANGED <<tail, readVars, s2dVars>> /\ \A b \in Blocks : b # cur[p] => blk'[b] = blk[b]
    BY <1>0, <1>2
       DEF Claim, ReadTail, CheckLimit, CheckSize, CasFail, Finish, OpenMetaBlk,
           FinalMetaBlk, DoneMetaBlk, FillSignal, PublishSignal, Produce,
           WaitNextEmptyPktBlk, NextMeta, TurnOver, SendSignal, MarkFinal
  <2>2. CASE cur[p] # NoBlk /\ blk'[cur[p]].size # 0
    BY <2>1, <2>2, StepPublish DEF Chain!Next
  <2>3. CASE ~(cur[p] # NoBlk /\ blk'[cur[p]].size # 0)
    BY <2>1, <2>3, StepUnseen
  <2>4. QED BY <2>2, <2>3
<1>3. QED BY <1>1, <1>2

LEMMA StepMapped ==
  MaxLag < N /\ RingInv /\ RingInv' /\ [Next]_vars => Chain!Next \/ Shown
<1> SUFFICES ASSUME MaxLag < N, RingInv, RingInv', [Next]_vars PROVE Chain!Next \/ Shown
  OBVIOUS
<1>1. ASSUME NEW p \in Producers, Claim(p) \/ Finish(p) \/ Produce(p)
      PROVE  Chain!Next \/ Shown
  BY <1>1, StepProducer
<1>2. ASSUME NEW m \in Modules, Index(m) PROVE Chain!Next
  BY <1>2, StepAdvance DEF Chain!Next
<1>3. CASE (\E m \in Modules : GetNextFullMetaBlk(m)) \/ UNCHANGED vars
  <2>1. UNCHANGED <<tail, blkPtr, blk, relBlk>>
    BY <1>3 DEF GetNextFullMetaBlk, vars, readVars, s2dVars
  <2>2. \A b \in Blocks : EntryOf(b)' = EntryOf(b)
    BY <2>1, EntrySame
  <2>3. QED BY <2>1, <2>2, QueueSame, PassedSame DEF Shown
<1>4. CASE S2D
  BY <1>4, StepS2D
<1>5. QED BY <1>1, <1>2, <1>3, <1>4 DEF Next

(* The ring implements the bounded queue with its chain of stages, for     *)
(* every size and any number of producers and modules: no block is lost,   *)
(* seen twice, seen out of order, changed after it was published, or given *)
(* back before every module has passed it.                                 *)
THEOREM RingImplementsChain == ASSUME MaxLag < N PROVE Spec => ImplementsChain
<1>1. Init => Chain!Init
  <2> SUFFICES ASSUME Init PROVE Chain!Init
    OBVIOUS
  <2>1. 0 \in Blocks /\ 0 \in Modules /\ \A m \in 1 .. K-1 : m \in Modules
    BY RingAssumption DEF Blocks, Modules
  <2>2. Occupied = 0 /\ \A m \in 1 .. K-1 : Ahead(m) = 0
    BY <2>1, DistSelf DEF Init, Occupied, Ahead
  <2>3. Queue = <<>> /\ Passed = [m \in 1 .. K-1 |-> 0]
    BY <2>2 DEF Queue, Passed
  <2>4. QED BY <2>3, MappedInit
<1>2. RingInv /\ RingInv' /\ [Next]_vars
      => [Chain!Next]_<<[i \in 1 .. Occupied |-> EntryOf(Plus(blkPtr[0], i - 1))],
                        [m \in 1 .. K-1 |-> Ahead(m)]>>
  BY StepMapped DEF Shown, Queue, Passed, At
<1>3. QED BY <1>1, <1>2, RingInvHolds, PTL DEF Spec, ImplementsChain, Chain!Spec

=============================================================================
