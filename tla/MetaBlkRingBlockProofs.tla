----------------------- MODULE MetaBlkRingBlockProofs -----------------------
(***************************************************************************)
(* Proofs about the blocks of the meta block ring: who may write a block,  *)
(* what a published one says, what a module holds, and where the data      *)
(* blocks are.  They rest on the order of the chain, and so on the same    *)
(* assumption: no producer is lapped inside its claim.                     *)
(***************************************************************************)
EXTENDS MetaBlkRingProofs

(***************************************************************************)
(* The block S2D is at: when it has moved its pointer before it is done    *)
(* with the block, the one before the pointer.  Every other position is    *)
(* measured from there: Rel is 0 for that block and Span for the tail.     *)
(***************************************************************************)
S2DBlk  == IF relMoved THEN Plus(blkPtr[0], N - 1) ELSE blkPtr[0]
Rel(b)  == Dist(S2DBlk, b)
Span    == Rel(tail)
Start(m) == IF m = 0 THEN S2DBlk ELSE blkPtr[m]
Count(m) == Len(inHand[m]) + Len(picked[m])
Reach(m) == Rel(Start(m)) + Count(m)

(* What a module has in hand, then what it has read ahead, are the blocks  *)
(* from its pointer on, up to the one it reads next; all of them are       *)
(* behind the module it depends on, and published.                         *)
Consecutive(m) ==
  /\ \A i \in 1 .. Len(inHand[m]) : inHand[m][i] = Plus(Start(m), i - 1)
  /\ \A i \in 1 .. Len(picked[m]) : picked[m][i] = Plus(Start(m), Len(inHand[m]) + i - 1)
  /\ pickPos[m] = Plus(Start(m), Count(m))

ReadInv ==
  /\ \A m \in Modules : Consecutive(m)
  /\ \A m \in Modules : Reach(m) <= Rel(Limit(m))
  /\ \A m \in Modules : \A b \in Blocks : Rel(b) < Reach(m) /\ b # relBlk => blk[b].size # 0

(* The stages of a release.                                                *)
ReleaseInv ==
  /\ s2dPc = "idle" => relBlk = NoBlk /\ relData = NoData
  /\ s2dPc # "idle" => relBlk = S2DBlk /\ ~blk[relBlk].isFinal
  /\ s2dPc \in {"freeSize", "freePktBlk", "freed"} => blk[relBlk].dataBlk = NoData
  /\ s2dPc \in {"freePktBlk", "freed"} => blk[relBlk].size = 0

Clean(b) == blk[b].size = 0 /\ ~blk[b].isFinal /\ blk[b].dataBlk = NoData

Complete(b) ==
  /\ blk[b].size \in 1 .. BlkCap
  /\ blk[b].size = blk[b].metas
  /\ blk[b].dataBlk # NoData \/ IsStopSignal(b) \/ IsTimeoutSignal(b)

(* A block nobody has claimed is clean, one that is published is complete  *)
(* until S2D takes it.                                                     *)
BlkInv ==
  /\ \A b \in Blocks : Rel(b) >= Span => Clean(b)
  /\ \A b \in Blocks : blk[b].size # 0 /\ b # relBlk => Complete(b)

(* A producer has its block to itself, and finds in it what it wrote.      *)
Waiting == {"readTail", "checkLimit", "checkSize", "cas"}

Mine(p) ==
  LET b == blk[cur[p]] IN
    /\ pc[p] \in {"open", "signal"} => Clean(cur[p])
    /\ pc[p] \in {"work", "final"} =>
         /\ b.dataBlk = data[p] /\ data[p] # NoData
         /\ b.metas = used[p] /\ used[p] # 0 /\ b.kind = "packet"
         /\ b.isFinal <=> pc[p] = "final"
    /\ pc[p] = "sent" =>
         b.dataBlk = NoData /\ b.metas = 1 /\ b.kind = job[p] /\ b.isFinal

Alone(p) ==
  /\ Rel(cur[p]) < Span /\ cur[p] # relBlk /\ blk[cur[p]].size = 0
  /\ \A q \in Producers : cur[q] = cur[p] => q = p

Stage(p) ==
  /\ pc[p] # "work" => (cur[p] = NoBlk <=> pc[p] \in Waiting)
  /\ pc[p] = "open" => job[p] = "data"
  /\ pc[p] \in {"signal", "sent"} => job[p] \in Signals
  /\ pc[p] \in Waiting \cup {"open"} /\ job[p] = "data" => data[p] # NoData

ProdInv ==
  \A p \in Producers : (cur[p] # NoBlk => Alone(p) /\ Mine(p)) /\ Stage(p)

BlockInv == ReadInv /\ ReleaseInv /\ BlkInv /\ ProdInv

(* Where a data block is: one producer fills it, or S2D owes it to the     *)
(* pool, or a block marked final names it.  The block marked final is the  *)
(* last one of those that name it.                                         *)
Filling(p, d) == data[p] = d
Owed(d)       == relData = d /\ s2dPc # "freed"
Names(b, d)   == blk[b].dataBlk = d
Final(b, d)   == Names(b, d) /\ blk[b].isFinal

Opening(p) == cur[p] # NoBlk /\ pc[p] \in {"open", "work", "final"}

FreeIsFree(d) ==
  d \in freeData => /\ \A p \in Producers : ~Filling(p, d)
                    /\ ~Owed(d)
                    /\ \A b \in Blocks : ~Names(b, d)

NotLost(d) ==
  \/ d \in freeData \/ Owed(d)
  \/ \E p \in Producers : Filling(p, d)
  \/ \E b \in Blocks : Final(b, d)

FilledByOne(p, d) ==
  Filling(p, d) =>
    /\ ~Owed(d)
    /\ \A b \in Blocks : Final(b, d) => b = cur[p] /\ pc[p] = "final"
    /\ Opening(p) => \A b, c \in Blocks : c = cur[p] /\ Names(b, d) => Rel(b) <= Rel(c)

OwedByOne(d) == Owed(d) => \A b \in Blocks : Names(b, d) => b = relBlk

FinalIsLast(d) == \A b, c \in Blocks : Final(c, d) /\ Names(b, d) => Rel(b) <= Rel(c)

DataBlkOk(d) ==
  /\ FreeIsFree(d) /\ NotLost(d) /\ OwedByOne(d) /\ FinalIsLast(d)
  /\ \A p \in Producers : FilledByOne(p, d)

DataInv ==
  /\ \A p \in Producers : data[p] # NoData => data[p][1] = p
  /\ \A d \in DataBlks : DataBlkOk(d)
-----------------------------------------------------------------------------
(***************************************************************************)
(* Positions measured from the block S2D is at.                            *)
(***************************************************************************)
LEMMA RingSize == N \in Nat /\ N >= 3
  BY RingAssumption

LEMMA DistInjective ==
  ASSUME NEW a \in Blocks, NEW b \in Blocks, NEW c \in Blocks, Dist(a, b) = Dist(a, c)
  PROVE  b = c
  BY RingAssumption DEF Dist, Blocks

LEMMA PlusSum ==
  ASSUME NEW i \in Blocks, NEW n \in Nat, NEW k \in Nat, n + k <= N - 1
  PROVE  Plus(Plus(i, n), k) = Plus(i, n + k)
<1>1. n \in 0 .. N-1 /\ k \in 0 .. N-1 /\ n + k \in 0 .. N-1
  BY RingAssumption
<1>2. Plus(i, n) = (IF i + n < N THEN i + n ELSE i + n - N) /\ Plus(i, n) \in Blocks
  BY <1>1, PlusValue, PlusType
<1>3. Plus(i, n + k) = IF i + (n + k) < N THEN i + (n + k) ELSE i + (n + k) - N
  BY <1>1, PlusValue
<1>4. Plus(Plus(i, n), k) = IF Plus(i, n) + k < N THEN Plus(i, n) + k ELSE Plus(i, n) + k - N
  BY <1>1, <1>2, PlusValue
<1>5. QED BY <1>1, <1>2, <1>3, <1>4, RingAssumption DEF Blocks

(* The block before a, and the distances from it.                          *)
LEMMA DistBefore ==
  ASSUME NEW a \in Blocks, NEW b \in Blocks
  PROVE  /\ Plus(a, N - 1) \in Blocks
         /\ Dist(a, b) <= N - 2 => Dist(Plus(a, N - 1), b) = Dist(a, b) + 1
         /\ Plus(Plus(a, N - 1), 1) = a
<1>1. N - 1 \in 0 .. N-1 /\ 1 \in 0 .. N-1
  BY RingAssumption
<1>2. Plus(a, N - 1) = (IF a + (N - 1) < N THEN a + (N - 1) ELSE a + (N - 1) - N)
      /\ Plus(a, N - 1) \in Blocks
  BY <1>1, PlusValue, PlusType
<1>3. Plus(Plus(a, N - 1), 1)
        = IF Plus(a, N - 1) + 1 < N THEN Plus(a, N - 1) + 1 ELSE Plus(a, N - 1) + 1 - N
  BY <1>1, <1>2, PlusValue
<1>4. Dist(a, b) <= N - 2 => Dist(Plus(a, N - 1), b) = Dist(a, b) + 1
  BY <1>2, RingAssumption DEF Dist, Blocks
<1>5. QED BY <1>2, <1>3, <1>4, RingAssumption DEF Blocks

(* The walk from a by the distance to b ends at b.                         *)
LEMMA PlusDist ==
  ASSUME NEW a \in Blocks, NEW b \in Blocks
  PROVE  Plus(a, Dist(a, b)) = b
<1>1. Dist(a, b) \in 0 .. N-1
  BY DistType
<1>2. Plus(a, Dist(a, b)) = IF a + Dist(a, b) < N THEN a + Dist(a, b) ELSE a + Dist(a, b) - N
  BY <1>1, PlusValue
<1>3. QED BY <1>2, RingAssumption DEF Dist, Blocks

LEMMA RelType ==
  ASSUME TypeOK
  PROVE  /\ 0 \in Modules /\ S2DBlk \in Blocks
         /\ \A b \in Blocks : Rel(b) \in 0 .. N-1
         /\ Span \in 0 .. N-1 /\ Rel(S2DBlk) = 0
         /\ \A m \in Modules : Start(m) \in Blocks /\ Limit(m) \in Blocks
<1>1. 0 \in Modules /\ \A m \in Modules : Dep(m) \in Modules
  BY RingAssumption DEF Modules, Dep
<1>2. S2DBlk \in Blocks
  BY <1>1, DistBefore DEF S2DBlk, TypeOK
<1>3. QED BY <1>1, <1>2, DistType, DistSelf DEF Rel, Span, Start, Limit, TypeOK

LEMMA RelInjective ==
  ASSUME TypeOK, NEW b \in Blocks, NEW c \in Blocks, Rel(b) = Rel(c)
  PROVE  b = c
  BY RelType, DistInjective DEF Rel

LEMMA RelPlus ==
  ASSUME TypeOK, NEW b \in Blocks, NEW n \in Nat, Rel(b) + n <= N - 1
  PROVE  Rel(Plus(b, n)) = Rel(b) + n
  BY RelType, DistPlus DEF Rel

(* As the chain is in order, so are its positions from S2D's block on.     *)
Moved == IF relMoved THEN 1 ELSE 0

LEMMA RelChain ==
  ASSUME TypeOK, Chained
  PROVE  /\ Span = Occupied + Moved
         /\ \A m \in Modules : Rel(blkPtr[m]) = Ahead(m) + Moved
         /\ \A m \in Modules : Ahead(m) \in 0 .. N-2
         /\ Occupied \in 0 .. N-2
<1> USE RingSize
<1>1. 0 \in Modules
  BY RelType
<1>2. Occupied \in 0 .. N-2 /\ \A m \in Modules : Ahead(m) \in 0 .. N-2
  <2>1. Occupied \in 0 .. N-1 /\ \A m \in Modules : Ahead(m) \in 0 .. N-1
    BY <1>1, DistType DEF Occupied, Ahead, TypeOK
  <2>2. QED BY <2>1 DEF Chained
<1>3. ASSUME NEW b \in Blocks, Dist(blkPtr[0], b) <= N - 2, Dist(blkPtr[0], b) \in Int
      PROVE  Rel(b) = Dist(blkPtr[0], b) + Moved
  BY <1>1, <1>3, DistBefore DEF Rel, S2DBlk, Moved, TypeOK
<1>4. QED BY <1>1, <1>2, <1>3 DEF Occupied, Ahead, Span, TypeOK

(* How far a module has read, and what it holds.                           *)
LEMMA CountType ==
  ASSUME TypeOK, NEW m \in Modules
  PROVE  /\ Len(inHand[m]) \in Nat /\ Len(picked[m]) \in Nat
         /\ Count(m) \in Nat /\ Reach(m) \in Nat
<1> DEFINE h == Len(inHand[m])
           k == Len(picked[m])
<1>1. h \in Nat /\ k \in Nat
  BY LenProperties DEF TypeOK
<1>2. Rel(Start(m)) \in Nat
  BY RelType, RingSize
<1>3. Count(m) = h + k
  BY DEF Count
<1> HIDE DEF h, k
<1>4. Count(m) \in Nat
  BY <1>1, <1>3
<1>5. Reach(m) \in Nat
  BY <1>2, <1>4 DEF Reach
<1>6. QED BY <1>1, <1>4, <1>5 DEF h, k

LEMMA HeldIsInReach ==
  ASSUME TypeOK, ReadInv, NEW m \in Modules, NEW b \in Held(m)
  PROVE  /\ b \in Blocks /\ Rel(Start(m)) <= Rel(b) /\ Rel(b) < Reach(m)
         /\ Count(m) > 0
<1> USE RingSize
<1> DEFINE h == Len(inHand[m])
           k == Len(picked[m])
           r == Rel(Start(m))
<1>1. /\ h \in Nat /\ k \in Nat /\ Start(m) \in Blocks /\ r \in 0 .. N-1
      /\ Reach(m) = r + Count(m) /\ Count(m) = h + k
      /\ Rel(Limit(m)) \in 0 .. N-1 /\ Reach(m) <= Rel(Limit(m))
      /\ Consecutive(m)
  BY CountType, RelType DEF Reach, Count, ReadInv
<1>a. /\ \A i \in 1 .. h : inHand[m][i] = Plus(Start(m), i - 1)
      /\ \A i \in 1 .. k : picked[m][i] = Plus(Start(m), h + i - 1)
  BY <1>1 DEF Consecutive
<1> HIDE DEF h, k, r
<1>b. /\ \A i \in 1 .. h : i - 1 \in 0 .. Count(m) - 1
      /\ \A i \in 1 .. k : h + i - 1 \in 0 .. Count(m) - 1
  BY <1>1
<1>2. PICK n \in 0 .. Count(m) - 1 : b = Plus(Start(m), n)
  <2>1. CASE b \in Elems(inHand[m])
    <3>1. PICK i \in 1 .. Len(inHand[m]) : b = inHand[m][i]
      BY <2>1 DEF Elems
    <3>2. QED BY <1>a, <1>b, <3>1 DEF h
  <2>2. CASE b \in Elems(picked[m])
    <3>1. PICK i \in 1 .. Len(picked[m]) : b = picked[m][i]
      BY <2>2 DEF Elems
    <3>2. QED BY <1>a, <1>b, <3>1 DEF k
  <2>3. QED BY <2>1, <2>2 DEF Held
<1>c. Count(m) \in Nat /\ n \in Nat /\ n < Count(m) /\ r + n <= N - 1
  BY <1>1, <1>2
<1>3. Rel(b) = r + n
  BY <1>1, <1>2, <1>c, RelPlus DEF r
<1>4. b \in Blocks
  BY <1>1, <1>2, <1>c, PlusType
<1>5. r <= Rel(b) /\ Rel(b) < Reach(m) /\ Count(m) > 0
  BY <1>1, <1>3, <1>c
<1>6. QED BY <1>4, <1>5 DEF r

-----------------------------------------------------------------------------
(***************************************************************************)
(* What the modules hold.                                                  *)
(***************************************************************************)
(* Nobody moves, and no block but S2D's becomes empty.                     *)
LEMMA ReadSame ==
  ASSUME ReadInv, UNCHANGED <<tail, readVars, relMoved>>,
         \A b \in Blocks : b # relBlk' =>
           b # relBlk /\ (blk[b].size # 0 => blk'[b].size # 0)
  PROVE  ReadInv'
<1>1. /\ S2DBlk' = S2DBlk /\ \A b : Rel(b)' = Rel(b)
      /\ \A m \in Modules : /\ Start(m)' = Start(m) /\ Count(m)' = Count(m)
                            /\ Limit(m)' = Limit(m) /\ Reach(m)' = Reach(m)
  BY DEF S2DBlk, Rel, Start, Count, Limit, Reach, Dist, Plus, readVars
<1>2. \A m \in Modules : Consecutive(m)'
  BY <1>1 DEF ReadInv, Consecutive, readVars, Plus
<1>3. \A m \in Modules : Reach(m)' <= Rel(Limit(m))'
  <2>1. \A m \in Modules : Rel(Limit(m))' = Rel(Limit(m))
    BY <1>1 DEF Rel
  <2>2. QED BY <1>1, <2>1 DEF ReadInv
<1>4. QED BY <1>1, <1>2, <1>3 DEF ReadInv

(* The tail moves on: module 1, or a lone S2D, may go further.             *)
LEMMA ReadTailMoves ==
  ASSUME TypeOK, ReadInv, UNCHANGED <<readVars, relMoved, relBlk, blk>>,
         tail' = Plus(tail, 1), Span <= N - 2
  PROVE  ReadInv'
<1> USE RingSize
<1>1. /\ S2DBlk' = S2DBlk /\ \A b : Rel(b)' = Rel(b)
      /\ \A m \in Modules : /\ Start(m)' = Start(m) /\ Count(m)' = Count(m)
                            /\ Reach(m)' = Reach(m)
  BY DEF S2DBlk, Rel, Start, Count, Reach, Dist, Plus, readVars
<1>2. Rel(Plus(tail, 1)) = Span + 1 /\ Span \in 0 .. N-2
  <2>1. Span \in 0 .. N-1 /\ tail \in Blocks
    BY RelType DEF TypeOK
  <2>2. Span + 1 <= N - 1 /\ Span \in 0 .. N-2
    BY <2>1
  <2>3. QED BY <2>1, <2>2, RelPlus DEF Span
<1>3. ASSUME NEW m \in Modules PROVE Rel(Limit(m)') >= Rel(Limit(m)) /\ Rel(Limit(m)') \in Int
  <2>1. CASE m = 1 \/ m = Dep(m)
    BY <1>2, <2>1 DEF Limit, Span
  <2>2. CASE ~(m = 1 \/ m = Dep(m))
    <3>1. Limit(m)' = Limit(m)
      BY <2>2 DEF Limit, readVars
    <3>2. Rel(Limit(m)) \in 0 .. N-1
      BY RelType
    <3>3. QED BY <3>1, <3>2
  <2>3. QED BY <2>1, <2>2
<1>4. ASSUME NEW m \in Modules PROVE Reach(m)' <= Rel(Limit(m))'
  <2>1. Reach(m) \in Nat /\ Rel(Limit(m)) \in 0 .. N-1 /\ Reach(m) <= Rel(Limit(m))
    BY CountType, RelType DEF ReadInv
  <2>2. Rel(Limit(m))' = Rel(Limit(m)')
    BY <1>1 DEF Rel
  <2>3. QED BY <1>1, <1>3, <2>1, <2>2
<1>5. \A m \in Modules : Consecutive(m)'
  BY <1>1 DEF ReadInv, Consecutive, readVars, Plus
<1>6. QED BY <1>1, <1>4, <1>5 DEF ReadInv

(* A module takes the next block it has read ahead, or reads on.           *)
LEMMA ReadGet ==
  ASSUME TypeOK, ReadInv, NEW m \in Modules, GetNextFullMetaBlk(m)
  PROVE  ReadInv'
<1> USE RingSize
<1> DEFINE h == Len(inHand[m])
           k == Len(picked[m])
<1>0. /\ UNCHANGED <<tail, blk, blkPtr, relMoved, relBlk>>
      /\ inHand \in [Modules -> Seq(Blocks)] /\ picked \in [Modules -> Seq(Blocks)]
      /\ pickPos \in [Modules -> Blocks]
  BY DEF GetNextFullMetaBlk, s2dVars, TypeOK
<1>1. /\ S2DBlk' = S2DBlk /\ \A b : Rel(b)' = Rel(b)
      /\ \A n \in Modules : Start(n)' = Start(n) /\ Limit(n)' = Limit(n)
      /\ \A n \in Modules : Rel(Limit(n))' = Rel(Limit(n))
  BY <1>0 DEF S2DBlk, Rel, Start, Limit, Dist, Plus
<1>2. /\ h \in Nat /\ k \in Nat /\ Count(m) = h + k
      /\ Start(m) \in Blocks /\ Rel(Start(m)) \in 0 .. N-1 /\ Rel(Limit(m)) \in 0 .. N-1
      /\ Rel(Start(m)) + (h + k) <= Rel(Limit(m)) /\ Reach(m) = Rel(Start(m)) + (h + k)
      /\ Consecutive(m)
  BY CountType, RelType DEF ReadInv, Reach, Count
<1> HIDE DEF h, k
<1>3. CASE /\ picked[m] # <<>>
           /\ inHand' = [inHand EXCEPT ![m] = Append(@, Head(picked[m]))]
           /\ picked' = [picked EXCEPT ![m] = Tail(@)]
           /\ UNCHANGED pickPos
  <2>1. /\ inHand'[m] = Append(inHand[m], Head(picked[m])) /\ picked'[m] = Tail(picked[m])
        /\ inHand[m] \in Seq(Blocks) /\ picked[m] \in Seq(Blocks)
    BY <1>0, <1>3
  <2>2. /\ Head(picked[m]) = picked[m][1] /\ Head(picked[m]) \in Blocks /\ k >= 1
        /\ Len(Tail(picked[m])) = k - 1
        /\ \A i \in 1 .. k - 1 : Tail(picked[m])[i] = picked[m][i+1]
    BY <1>3, <2>1, HeadTailProperties, EmptySeq DEF k
  <2>3. /\ Len(inHand'[m]) = h + 1 /\ inHand'[m][h+1] = picked[m][1]
        /\ \A i \in 1 .. h : inHand'[m][i] = inHand[m][i]
    BY <2>1, <2>2, AppendProperties DEF h
  <2>4. Len(picked'[m]) = k - 1 /\ \A i \in 1 .. k - 1 : picked'[m][i] = picked[m][i+1]
    BY <2>1, <2>2
  <2>5. picked[m][1] = Plus(Start(m), h)
    <3>1. 1 \in 1 .. k /\ h + 1 - 1 = h
      BY <1>2, <2>2
    <3>2. QED BY <1>2, <3>1 DEF Consecutive, h, k
  <2>6. \A i \in 1 .. h + 1 : inHand'[m][i] = Plus(Start(m), i - 1)
    <3>1. \A i \in 1 .. h + 1 : i \in 1 .. h \/ (i = h + 1 /\ i - 1 = h)
      BY <1>2
    <3>2. \A i \in 1 .. h : inHand[m][i] = Plus(Start(m), i - 1)
      BY <1>2 DEF Consecutive, h
    <3>3. QED BY <2>3, <2>5, <3>1, <3>2
  <2>7. \A i \in 1 .. k - 1 : picked'[m][i] = Plus(Start(m), (h + 1) + i - 1)
    <3>1. \A i \in 1 .. k - 1 : i + 1 \in 1 .. k /\ h + (i + 1) - 1 = (h + 1) + i - 1
      BY <1>2
    <3>2. \A j \in 1 .. k : picked[m][j] = Plus(Start(m), h + j - 1)
      BY <1>2 DEF Consecutive, h, k
    <3>3. QED BY <2>4, <3>1, <3>2
  <2>8. Count(m)' = Count(m) /\ Reach(m)' = Reach(m)
    <3>1. Count(m)' = (h + 1) + (k - 1)
      BY <2>3, <2>4 DEF Count
    <3>2. Count(m)' = Count(m)
      BY <1>2, <3>1
    <3>3. QED BY <1>1, <3>2 DEF Reach
  <2>9. Consecutive(m)'
    BY <1>1, <1>3, <1>2, <2>3, <2>4, <2>6, <2>7, <2>8 DEF Consecutive, Plus
  <2>10. \A n \in Modules \ {m} :
           /\ inHand'[n] = inHand[n] /\ picked'[n] = picked[n] /\ pickPos'[n] = pickPos[n]
           /\ Count(n)' = Count(n) /\ Reach(n)' = Reach(n)
    BY <1>0, <1>1, <1>3 DEF Count, Reach
  <2>11. \A n \in Modules \ {m} : Consecutive(n)'
    <3>1. \A n \in Modules \ {m} : Consecutive(n)
      BY DEF ReadInv
    <3>2. ASSUME NEW n \in Modules \ {m} PROVE Consecutive(n)'
      <4>1. /\ inHand'[n] = inHand[n] /\ picked'[n] = picked[n] /\ pickPos'[n] = pickPos[n]
            /\ Count(n)' = Count(n) /\ Start(n)' = Start(n) /\ Consecutive(n)
        BY <1>1, <2>10, <3>1
      <4>2. QED BY <4>1 DEF Consecutive, Plus
    <3>3. QED BY <3>2
  <2>12. QED BY <1>0, <1>1, <2>8, <2>9, <2>10, <2>11 DEF ReadInv
<1>4. ASSUME picked[m] = <<>>, NEW n \in Pickable(m),
             inHand' = [inHand EXCEPT ![m] = Append(@, pickPos[m])],
             picked' = [picked EXCEPT ![m] = [i \in 1 .. n-1 |-> Plus(pickPos[m], i)]],
             pickPos' = [pickPos EXCEPT ![m] = Plus(@, n)]
      PROVE  ReadInv'
  <2>1. /\ k = 0 /\ pickPos[m] = Plus(Start(m), h) /\ pickPos[m] \in Blocks
        /\ n \in Nat /\ n >= 1 /\ n <= Dist(pickPos[m], Limit(m))
        /\ \A i \in 0 .. n-1 : blk[Plus(pickPos[m], i)].size # 0
    <3>1. k = 0
      BY <1>4 DEF k
    <3>2. pickPos[m] = Plus(Start(m), Count(m)) /\ Count(m) = h
      BY <1>2, <3>1 DEF Consecutive
    <3>3. QED BY <1>0, <1>4, <3>1, <3>2 DEF Pickable
  <2>2. Rel(pickPos[m]) = Rel(Start(m)) + h
    BY <1>2, <2>1, RelPlus
  <2>3. Dist(pickPos[m], Limit(m)) = Rel(Limit(m)) - Rel(pickPos[m])
    BY <1>2, <2>1, <2>2, DistSplit, RelType DEF Rel
  <2>4. Rel(Start(m)) + h + n <= Rel(Limit(m)) /\ h + n <= N - 1
    BY <1>2, <2>1, <2>2, <2>3
  <2>5. /\ Len(inHand'[m]) = h + 1 /\ inHand'[m][h+1] = pickPos[m]
        /\ \A i \in 1 .. h : inHand'[m][i] = inHand[m][i]
    BY <1>0, <1>4, AppendProperties DEF h
  <2>6. picked'[m] = [i \in 1 .. n-1 |-> Plus(pickPos[m], i)] /\ Len(picked'[m]) = n - 1
    BY <1>0, <1>4, <2>1
  <2>7. \A i \in 0 .. n : Plus(pickPos[m], i) = Plus(Start(m), h + i)
    BY <1>2, <2>1, <2>4, PlusSum
  <2>8. \A i \in 1 .. h + 1 : inHand'[m][i] = Plus(Start(m), i - 1)
    <3>1. \A i \in 1 .. h + 1 : i \in 1 .. h \/ (i = h + 1 /\ i - 1 = h)
      BY <1>2
    <3>2. \A i \in 1 .. h : inHand[m][i] = Plus(Start(m), i - 1)
      BY <1>2 DEF Consecutive, h
    <3>3. QED BY <2>1, <2>5, <3>1, <3>2
  <2>9. \A i \in 1 .. n - 1 : picked'[m][i] = Plus(Start(m), (h + 1) + i - 1)
    <3>1. \A i \in 1 .. n - 1 : i \in 0 .. n /\ h + i = (h + 1) + i - 1
      BY <1>2, <2>1
    <3>2. QED BY <2>6, <2>7, <3>1
  <2>10. pickPos'[m] = Plus(Start(m), h + n)
    BY <1>0, <1>4, <2>1, <2>7
  <2>11. Count(m)' = h + n /\ Reach(m)' = Rel(Start(m)) + (h + n)
    BY <1>1, <1>2, <2>1, <2>5, <2>6 DEF Count, Reach
  <2>12. Consecutive(m)'
    BY <1>1, <1>2, <2>5, <2>6, <2>8, <2>9, <2>10, <2>11 DEF Consecutive, Plus
  <2>13. ASSUME NEW b \in Blocks, Rel(b) < Reach(m)', b # relBlk PROVE blk[b].size # 0
    <3>1. Rel(b) \in 0 .. N-1
      BY RelType
    <3>2. CASE Rel(b) < Reach(m)
      BY <2>13, <3>2 DEF ReadInv
    <3>3. CASE Rel(b) >= Reach(m)
      <4>1. PICK i \in 0 .. n-1 : Rel(b) = Rel(pickPos[m]) + i
        <5>1. Rel(b) - Rel(pickPos[m]) \in 0 .. n-1
              /\ Rel(b) = Rel(pickPos[m]) + (Rel(b) - Rel(pickPos[m]))
          BY <1>2, <2>1, <2>2, <2>11, <2>13, <3>1, <3>3
        <5>2. QED BY <5>1
      <4>2. Rel(Plus(pickPos[m], i)) = Rel(b)
        BY <2>1, <3>1, <4>1, RelPlus
      <4>3. b = Plus(pickPos[m], i)
        BY <2>1, <4>1, <4>2, PlusType, RelInjective
      <4>4. QED BY <2>1, <4>3
    <3>4. Reach(m) \in Nat
      BY CountType
    <3>5. QED BY <3>1, <3>2, <3>3, <3>4
  <2>14. \A j \in Modules \ {m} :
           /\ inHand'[j] = inHand[j] /\ picked'[j] = picked[j] /\ pickPos'[j] = pickPos[j]
           /\ Count(j)' = Count(j) /\ Reach(j)' = Reach(j)
    BY <1>0, <1>1, <1>4 DEF Count, Reach
  <2>15. ASSUME NEW j \in Modules \ {m} PROVE Consecutive(j)'
    <3>1. Consecutive(j) /\ Start(j)' = Start(j)
      BY <1>1 DEF ReadInv
    <3>2. inHand'[j] = inHand[j] /\ picked'[j] = picked[j] /\ pickPos'[j] = pickPos[j]
          /\ Count(j)' = Count(j)
      BY <2>14
    <3>3. QED BY <3>1, <3>2 DEF Consecutive, Plus
  <2>16. Reach(m)' <= Rel(Limit(m))'
    <3>1. Rel(Limit(m))' = Rel(Limit(m))
      BY <1>1
    <3>2. QED BY <1>2, <2>1, <2>4, <2>11, <3>1
  <2>17. QED BY <1>0, <1>1, <2>12, <2>13, <2>14, <2>15, <2>16 DEF ReadInv
<1>5. QED BY <1>3, <1>4 DEF GetNextFullMetaBlk

(* A module has room to move past everything it holds.                     *)
LEMMA HandFits ==
  ASSUME TypeOK, ReadInv, NEW m \in Modules
  PROVE  Count(m) <= Dist(Start(m), Limit(m))
<1>1. /\ Start(m) \in Blocks /\ Limit(m) \in Blocks /\ S2DBlk \in Blocks
      /\ Rel(Start(m)) \in Nat /\ Rel(Limit(m)) \in Nat /\ Count(m) \in Nat
  BY RelType, CountType, RingSize
<1>2. Rel(Start(m)) + Count(m) <= Rel(Limit(m))
  BY DEF ReadInv, Reach
<1>3. Rel(Start(m)) <= Rel(Limit(m))
  BY <1>1, <1>2
<1>4. Dist(Start(m), Limit(m)) = Rel(Limit(m)) - Rel(Start(m))
  BY <1>1, <1>3, DistSplit DEF Rel
<1>5. QED BY <1>1, <1>2, <1>4

(* An indexing module lets go of its first blocks.                         *)
LEMMA ReadModuleMove ==
  ASSUME TypeOK, ReadInv, NEW m \in Modules \ {0}, NEW count \in Nat, ModuleMove(m, count)
  PROVE  ReadInv'
<1> USE RingSize
<1> DEFINE h == Len(inHand[m])
           k == Len(picked[m])
           a == Start(m)
<1>0. /\ 0 \in Modules /\ m \in Modules /\ count \in 1 .. h
      /\ UNCHANGED <<tail, blk, pickPos, picked, relMoved, relBlk>>
      /\ inHand' = [inHand EXCEPT ![m] = SubSeq(@, count + 1, Len(@))]
      /\ inHand \in [Modules -> Seq(Blocks)]
      /\ h \in Nat /\ k \in Nat /\ Count(m) = h + k
  BY RelType, CountType DEF ModuleMove, s2dVars, TypeOK, Count
<1>1. /\ a \in Blocks /\ a = blkPtr[m] /\ Rel(a) \in 0 .. N-1 /\ Rel(Limit(m)) \in 0 .. N-1
      /\ Rel(a) + (h + k) <= Rel(Limit(m)) /\ Reach(m) = Rel(a) + (h + k)
      /\ Consecutive(m)
  BY <1>0, RelType DEF ReadInv, Reach, Start
<1>2. blkPtr' = [blkPtr EXCEPT ![m] = Plus(a, count)]
  <2>1. h + k <= Dist(blkPtr[m], Limit(m)) /\ Dist(blkPtr[m], Limit(m)) \in 0 .. N-1
    BY <1>0, <1>1, HandFits, DistType, RelType
  <2> HIDE DEF h, k, a
  <2>2. count <= Dist(blkPtr[m], Limit(m))
    BY <1>0, <2>1
  <2>3. QED BY <1>1, <2>2 DEF ModuleMove, Move2NextMetaBlk, MayMove
<1>3. /\ S2DBlk' = S2DBlk /\ \A b : Rel(b)' = Rel(b)
      /\ \A j \in Modules \ {m} : Start(j)' = Start(j)
  BY <1>0, <1>2 DEF S2DBlk, Rel, Start, Dist, Plus, TypeOK
<1>4. Start(m)' = Plus(a, count)
  BY <1>0, <1>2 DEF Start, TypeOK
<1> HIDE DEF a
<1>5. Rel(Plus(a, count)) = Rel(a) + count
  <2> HIDE DEF h, k
  <2>1. Rel(a) + count <= N - 1
    BY <1>0, <1>1
  <2>2. QED BY <1>1, <2>1, RelPlus
<1>6. /\ Len(inHand'[m]) = h - count
      /\ \A i \in 1 .. h - count : inHand'[m][i] = inHand[m][count + i]
  <2>1. inHand'[m] = SubSeq(inHand[m], count + 1, h) /\ inHand[m] \in Seq(Blocks)
    BY <1>0
  <2>2. \A i \in count + 1 .. h : inHand[m][i] \in Blocks
    BY <1>0, <2>1, ElementOfSeq
  <2>3. /\ Len(SubSeq(inHand[m], count + 1, h))
             = IF count + 1 <= h THEN h - (count + 1) + 1 ELSE 0
        /\ \A i \in 1 .. h - (count + 1) + 1 :
             SubSeq(inHand[m], count + 1, h)[i] = inHand[m][(count + 1) + i - 1]
    BY <1>0, <2>2, SubSeqProperties
  <2> HIDE DEF h
  <2>4. /\ h - (count + 1) + 1 = h - count
        /\ (IF count + 1 <= h THEN h - (count + 1) + 1 ELSE 0) = h - count
        /\ \A i \in 1 .. h - count : (count + 1) + i - 1 = count + i
    BY <1>0
  <2>5. QED BY <2>1, <2>3, <2>4
<1>7. \A n \in Nat : count + n <= h + k => Plus(a, count + n) = Plus(Plus(a, count), n)
  <2> HIDE DEF h, k
  <2>1. h + k <= N - 1
    BY <1>0, <1>1
  <2>2. \A n \in Nat : count + n <= h + k => count + n <= N - 1
    BY <1>0, <2>1
  <2>3. QED BY <1>1, <2>2, PlusSum
<1>8. /\ \A i \in 1 .. h : inHand[m][i] = Plus(a, i - 1)
      /\ \A i \in 1 .. k : picked[m][i] = Plus(a, h + i - 1)
      /\ pickPos[m] = Plus(a, h + k)
  BY <1>0, <1>1 DEF Consecutive, a
<1>9. k = Len(picked'[m]) /\ picked'[m] = picked[m] /\ pickPos'[m] = pickPos[m]
  BY <1>0
<1> HIDE DEF h, k
<1>10. \A i \in 1 .. h - count : inHand'[m][i] = Plus(Plus(a, count), i - 1)
  <2>1. \A i \in 1 .. h - count :
          /\ count + i \in 1 .. h /\ i - 1 \in Nat
          /\ count + (i - 1) <= h + k /\ (count + i) - 1 = count + (i - 1)
    BY <1>0
  <2>2. QED BY <1>6, <1>7, <1>8, <2>1
<1>11. \A i \in 1 .. k : picked'[m][i] = Plus(Plus(a, count), (h - count) + i - 1)
  <2>1. \A i \in 1 .. k :
          /\ (h - count) + i - 1 \in Nat
          /\ count + ((h - count) + i - 1) = h + i - 1 /\ h + i - 1 <= h + k
    BY <1>0
  <2>2. \A i \in 1 .. k : Plus(a, h + i - 1) = Plus(Plus(a, count), (h - count) + i - 1)
    BY <1>7, <2>1
  <2>3. QED BY <1>8, <1>9, <2>2
<1>12. pickPos'[m] = Plus(Plus(a, count), (h - count) + k)
  <2>1. (h - count) + k \in Nat /\ count + ((h - count) + k) = h + k
    BY <1>0
  <2>2. Plus(a, h + k) = Plus(Plus(a, count), (h - count) + k)
    BY <1>7, <2>1, <1>0
  <2>3. QED BY <1>8, <1>9, <2>2
<1>13. Count(m)' = (h - count) + k /\ Reach(m)' = Reach(m)
  <2>1. Count(m)' = (h - count) + k
    BY <1>6, <1>9 DEF Count
  <2>2. Reach(m)' = (Rel(a) + count) + ((h - count) + k)
    BY <1>3, <1>4, <1>5, <2>1 DEF Reach, Rel
  <2>3. (Rel(a) + count) + ((h - count) + k) = Rel(a) + (h + k)
    BY <1>0, <1>1
  <2>4. QED BY <1>1, <2>1, <2>2, <2>3
<1>14. Consecutive(m)'
  BY <1>4, <1>6, <1>9, <1>10, <1>11, <1>12, <1>13 DEF Consecutive, Plus
<1>15. ASSUME NEW j \in Modules \ {m} PROVE Consecutive(j)' /\ Reach(j)' = Reach(j)
  <2>1. /\ inHand'[j] = inHand[j] /\ picked'[j] = picked[j] /\ pickPos'[j] = pickPos[j]
        /\ Start(j)' = Start(j) /\ Consecutive(j)
    BY <1>0, <1>3 DEF ReadInv
  <2>2. QED BY <1>3, <2>1 DEF Consecutive, Count, Reach, Rel, Plus
<1>16. ASSUME NEW j \in Modules PROVE Rel(Limit(j))' >= Rel(Limit(j)) /\ Rel(Limit(j))' \in Int
  <2>1. Rel(Limit(j)) \in 0 .. N-1 /\ Rel(Limit(j))' = Rel(Limit(j)')
    BY <1>3, RelType DEF Rel
  <2>2. CASE j = 1 \/ j = Dep(j) \/ Dep(j) # m
    <3>1. Limit(j)' = Limit(j)
      BY <1>0, <1>2, <2>2 DEF Limit, TypeOK
    <3>2. QED BY <2>1, <3>1
  <2>3. CASE ~(j = 1 \/ j = Dep(j)) /\ Dep(j) = m
    <3>1. Limit(j) = a /\ Limit(j)' = Plus(a, count)
      BY <1>0, <1>1, <1>2, <2>3 DEF Limit, TypeOK
    <3>2. QED BY <1>0, <1>1, <1>5, <2>1, <3>1
  <2>4. QED BY <2>2, <2>3
<1>17. ASSUME NEW j \in Modules PROVE Reach(j)' <= Rel(Limit(j))'
  <2>1. Reach(j)' = Reach(j) /\ Reach(j) \in Nat /\ Reach(j) <= Rel(Limit(j))
        /\ Rel(Limit(j)) \in 0 .. N-1
    BY <1>13, <1>15, CountType, RelType DEF ReadInv
  <2>2. QED BY <1>16, <2>1
<1>18. ASSUME NEW j \in Modules, NEW b \in Blocks, Rel(b)' < Reach(j)', b # relBlk'
       PROVE  blk'[b].size # 0
  BY <1>0, <1>3, <1>13, <1>15, <1>18 DEF ReadInv
<1>19. QED BY <1>14, <1>15, <1>17, <1>18 DEF ReadInv

(* S2D's pointer moves past the block it is at, first or last: the block   *)
(* it is at stays the same.                                                *)
LEMMA ReadS2DMove ==
  ASSUME TypeOK, ReadInv, inHand[0] # <<>>, ~relMoved, S2DMove
  PROVE  /\ ReadInv' /\ S2DBlk' = S2DBlk
         /\ blkPtr' = [blkPtr EXCEPT ![0] = Plus(@, 1)]
<1>0. /\ 0 \in Modules /\ S2DBlk = blkPtr[0] /\ blkPtr[0] \in Blocks /\ relMoved' = TRUE
      /\ UNCHANGED <<tail, blk, pickPos, picked, inHand, relBlk>>
      /\ blkPtr \in [Modules -> Blocks]
  BY RelType DEF S2DMove, S2DBlk, TypeOK
<1>1. MayMove(0, 1)
  <2> DEFINE h == Len(inHand[0])
             k == Len(picked[0])
  <2>1. h >= 1 /\ h \in Nat
    BY <1>0, EmptySeq DEF TypeOK
  <2>2. Count(0) = h + k /\ k \in Nat
    BY <1>0, CountType DEF Count
  <2> HIDE DEF h, k
  <2>3. Count(0) >= 1 /\ Count(0) \in Nat
    BY <2>1, <2>2
  <2>4. Count(0) <= Dist(blkPtr[0], Limit(0)) /\ Dist(blkPtr[0], Limit(0)) \in 0 .. N-1
    BY <1>0, HandFits, DistType, RelType DEF Start
  <2>5. QED BY <2>3, <2>4, RingSize DEF MayMove
<1>2. blkPtr' = [blkPtr EXCEPT ![0] = Plus(@, 1)]
  BY <1>1 DEF S2DMove, Move2NextMetaBlk
<1>3. Plus(Plus(blkPtr[0], 1), N - 1) = blkPtr[0]
  <2>1. /\ Plus(blkPtr[0], 1) = (IF blkPtr[0] + 1 < N THEN blkPtr[0] + 1 ELSE blkPtr[0] + 1 - N)
        /\ Plus(blkPtr[0], 1) \in Blocks
    BY <1>0, RingSize, PlusValue, PlusType
  <2>2. Plus(Plus(blkPtr[0], 1), N - 1)
          = IF Plus(blkPtr[0], 1) + (N - 1) < N THEN Plus(blkPtr[0], 1) + (N - 1)
                                                ELSE Plus(blkPtr[0], 1) + (N - 1) - N
    BY <2>1, RingSize, PlusValue
  <2>3. QED BY <1>0, <2>1, <2>2, RingSize DEF Blocks
<1>4. S2DBlk' = S2DBlk /\ \A b : Rel(b)' = Rel(b)
  BY <1>0, <1>2, <1>3 DEF S2DBlk, Rel, Dist, Plus
<1>5. \A m \in Modules : /\ Start(m)' = Start(m) /\ Count(m)' = Count(m)
                         /\ Reach(m)' = Reach(m)
  BY <1>0, <1>2, <1>4 DEF Start, Count, Reach, Rel
<1>6. \A m \in Modules : Limit(m)' = Limit(m)
  <2>1. \A m \in Modules : Dep(m) = 0 => m = 1 \/ m = Dep(m)
    BY RingAssumption DEF Dep, Modules
  <2>2. QED BY <1>0, <1>2, <2>1 DEF Limit
<1>7. \A m \in Modules : Consecutive(m)'
  BY <1>0, <1>5 DEF ReadInv, Consecutive, Plus
<1>8. \A m \in Modules : Rel(Limit(m))' = Rel(Limit(m))
  BY <1>4, <1>6 DEF Rel
<1>9. ReadInv'
  BY <1>0, <1>4, <1>5, <1>7, <1>8 DEF ReadInv
<1>10. QED BY <1>2, <1>4, <1>9

(* S2D is done with its block: every position counts one less, and the     *)
(* block comes last.                                                       *)
LEMMA Advance ==
  ASSUME TypeOK, Chained, relMoved, UNCHANGED <<tail, blkPtr>>, relMoved' = FALSE
  PROVE  /\ S2DBlk' = blkPtr[0] /\ blkPtr[0] = Plus(S2DBlk, 1)
         /\ Rel(S2DBlk) = 0
         /\ \A b \in Blocks : Rel(b)' = IF Rel(b) = 0 THEN N - 1 ELSE Rel(b) - 1
         /\ Span' = Span - 1 /\ Span >= 1
         /\ \A m \in Modules : Rel(blkPtr[m]) >= 1 /\ Rel(Limit(m)) >= 1
<1> USE RingSize
<1>1. /\ 0 \in Modules /\ blkPtr[0] \in Blocks /\ tail \in Blocks /\ S2DBlk \in Blocks
      /\ S2DBlk = Plus(blkPtr[0], N - 1) /\ Rel(S2DBlk) = 0
      /\ \A m \in Modules : blkPtr[m] \in Blocks /\ Dep(m) \in Modules
  <2>1. \A m \in Modules : Dep(m) \in Modules
    BY RingAssumption DEF Modules, Dep
  <2>2. 0 \in Modules /\ S2DBlk \in Blocks /\ Rel(S2DBlk) = 0
    BY RelType
  <2>3. tail \in Blocks /\ \A m \in Modules : blkPtr[m] \in Blocks
    BY DEF TypeOK
  <2>4. S2DBlk = Plus(blkPtr[0], N - 1)
    BY DEF S2DBlk
  <2>5. QED BY <2>1, <2>2, <2>3, <2>4
<1>2. S2DBlk' = blkPtr[0]
  BY DEF S2DBlk
<1>3. blkPtr[0] = Plus(S2DBlk, 1)
  BY <1>1, DistBefore
<1>4. ASSUME NEW b \in Blocks PROVE Rel(b)' = IF Rel(b) = 0 THEN N - 1 ELSE Rel(b) - 1
  <2>1. Rel(b)' = Dist(Plus(S2DBlk, 1), b) /\ Rel(b) = Dist(S2DBlk, b)
    BY <1>2, <1>3 DEF Rel, Dist
  <2>2. Rel(b) \in 0 .. N-1
    BY RelType
  <2>3. CASE Rel(b) # 0
    BY <1>1, <2>1, <2>2, <2>3, DistNext
  <2>4. CASE Rel(b) = 0
    <3>1. b = S2DBlk
      BY <1>1, <2>4, RelInjective
    <3>2. Plus(S2DBlk, 1) = IF S2DBlk + 1 < N THEN S2DBlk + 1 ELSE S2DBlk + 1 - N
      BY <1>1, PlusValue
    <3>3. QED BY <1>1, <2>1, <2>4, <3>1, <3>2 DEF Dist, Blocks
  <2>5. QED BY <2>3, <2>4
<1>5. \A m \in Modules : Rel(blkPtr[m]) >= 1
  <2>1. \A m \in Modules : Rel(blkPtr[m]) = Ahead(m) + 1 /\ Ahead(m) \in 0 .. N-2
    BY RelChain DEF Moved
  <2>2. QED BY <2>1
<1>6. Span >= 1
  <2>1. Span = Occupied + 1 /\ Occupied \in 0 .. N-2
    BY RelChain DEF Moved
  <2>2. QED BY <2>1
<1>7. Span' = Span - 1
  <2>1. Span' = Rel(tail)'
    BY DEF Span, Rel
  <2>2. Span \in 0 .. N-1
    BY RelType
  <2>3. QED BY <1>1, <1>4, <1>6, <2>1, <2>2 DEF Span
<1>8. \A m \in Modules : Rel(Limit(m)) >= 1
  BY <1>1, <1>5, <1>6 DEF Limit, Span
<1>9. QED BY <1>1, <1>2, <1>3, <1>4, <1>5, <1>6, <1>7, <1>8

LEMMA ReadS2DNext ==
  ASSUME TypeOK, ReleasingHeld, Chained, ReadInv, ReleaseInv, S2DNext
  PROVE  ReadInv'
<1> USE RingSize
<1> DEFINE h == Len(inHand[0])
           k == Len(picked[0])
           c == S2DBlk
<1>0. /\ 0 \in Modules /\ c \in Blocks /\ relMoved /\ relMoved' = FALSE /\ inHand[0] # <<>>
      /\ UNCHANGED <<tail, blk, blkPtr, pickPos, picked>>
      /\ relBlk = c /\ relBlk' = NoBlk
      /\ inHand' = [inHand EXCEPT ![0] = Tail(@)] /\ inHand \in [Modules -> Seq(Blocks)]
  BY RelType DEF S2DNext, TypeOK, ReleaseInv, ReleasingHeld, prodVars
<1>1. /\ S2DBlk' = blkPtr[0] /\ blkPtr[0] = Plus(c, 1) /\ Rel(c) = 0
      /\ \A b \in Blocks : Rel(b)' = IF Rel(b) = 0 THEN N - 1 ELSE Rel(b) - 1
      /\ \A m \in Modules : Rel(blkPtr[m]) >= 1 /\ Rel(Limit(m)) >= 1
  BY <1>0, Advance
<1>2. /\ h \in Nat /\ k \in Nat /\ h >= 1 /\ Len(inHand'[0]) = h - 1 /\ Len(picked'[0]) = k
      /\ \A i \in 1 .. h - 1 : inHand'[0][i] = inHand[0][i+1]
      /\ picked'[0] = picked[0] /\ pickPos'[0] = pickPos[0]
  BY <1>0, HeadTailProperties, EmptySeq, CountType DEF TypeOK
<1>3. /\ \A i \in 1 .. h : inHand[0][i] = Plus(c, i - 1)
      /\ \A i \in 1 .. k : picked[0][i] = Plus(c, h + i - 1)
      /\ pickPos[0] = Plus(c, h + k)
      /\ Count(0) = h + k /\ Reach(0) = h + k
  <2>1. Consecutive(0) /\ Start(0) = c /\ Count(0) = h + k
    BY <1>0 DEF ReadInv, Start, Count
  <2>2. Reach(0) = Rel(c) + (h + k)
    BY <2>1 DEF Reach
  <2>3. /\ \A i \in 1 .. h : inHand[0][i] = Plus(c, i - 1)
        /\ \A i \in 1 .. k : picked[0][i] = Plus(c, h + i - 1)
        /\ pickPos[0] = Plus(c, h + k)
    BY <2>1 DEF Consecutive
  <2> HIDE DEF h, k, c
  <2>4. Reach(0) = h + k
    BY <1>1, <1>2, <2>2
  <2>5. QED BY <2>1, <2>3, <2>4
<1>4. \A m \in Modules \ {0} : Start(m)' = Start(m) /\ Count(m)' = Count(m) /\ Start(m) = blkPtr[m]
  BY <1>0 DEF Start, Count
<1>5. \A m \in Modules : Limit(m)' = Limit(m)
  BY <1>0 DEF Limit
<1>6. Start(0)' = Plus(c, 1)
  BY <1>0, <1>1 DEF Start
<1> HIDE DEF h, k, c
<1>7. Count(0)' = (h - 1) + k
  BY <1>2 DEF Count
<1>8. \A n \in Nat : 1 + n <= h + k => Plus(c, 1 + n) = Plus(Plus(c, 1), n)
  <2>1. h + k <= N - 1
    <3>1. Reach(0) <= Rel(Limit(0)) /\ Rel(Limit(0)) \in 0 .. N-1
      BY <1>0, RelType DEF ReadInv
    <3>2. QED BY <1>2, <1>3, <3>1
  <2>2. \A n \in Nat : 1 + n <= h + k => 1 + n <= N - 1
    BY <1>2, <2>1
  <2>3. QED BY <1>0, <2>2, PlusSum
<1>9. \A i \in 1 .. h - 1 : inHand'[0][i] = Plus(Plus(c, 1), i - 1)
  <2>1. \A i \in 1 .. h - 1 :
          i + 1 \in 1 .. h /\ i - 1 \in Nat /\ 1 + (i - 1) <= h + k /\ (i + 1) - 1 = 1 + (i - 1)
    BY <1>2
  <2>2. QED BY <1>2, <1>3, <1>8, <2>1
<1>10. \A i \in 1 .. k : picked'[0][i] = Plus(Plus(c, 1), (h - 1) + i - 1)
  <2>1. \A i \in 1 .. k :
          /\ (h - 1) + i - 1 \in Nat
          /\ 1 + ((h - 1) + i - 1) <= h + k /\ h + i - 1 = 1 + ((h - 1) + i - 1)
    BY <1>2
  <2>2. \A i \in 1 .. k : Plus(c, h + i - 1) = Plus(Plus(c, 1), (h - 1) + i - 1)
    BY <1>8, <2>1
  <2>3. QED BY <1>2, <1>3, <2>2
<1>11. pickPos'[0] = Plus(Plus(c, 1), (h - 1) + k)
  <2>1. (h - 1) + k \in Nat /\ 1 + ((h - 1) + k) <= h + k /\ h + k = 1 + ((h - 1) + k)
    BY <1>2
  <2>2. Plus(c, h + k) = Plus(Plus(c, 1), (h - 1) + k)
    BY <1>8, <2>1
  <2>3. QED BY <1>2, <1>3, <2>2
<1>12. Consecutive(0)'
  BY <1>2, <1>6, <1>7, <1>9, <1>10, <1>11 DEF Consecutive, Plus
<1>13. ASSUME NEW m \in Modules \ {0} PROVE Consecutive(m)'
  <2>1. inHand'[m] = inHand[m] /\ picked'[m] = picked[m] /\ pickPos'[m] = pickPos[m]
        /\ Consecutive(m)
    BY <1>0 DEF ReadInv
  <2>2. QED BY <1>4, <2>1 DEF Consecutive, Plus
<1>14. ASSUME NEW m \in Modules PROVE Reach(m)' = Reach(m) - 1
  <2>1. CASE m = 0
    <3>1. Reach(0)' = Rel(Start(0))' + Count(0)'
      BY DEF Reach
    <3>2. Rel(Start(0))' = 0
      <4>1. Start(0)' = S2DBlk' /\ S2DBlk' \in Blocks
        BY <1>0, <1>1, RelType DEF Start, TypeOK
      <4>2. QED BY <4>1, DistSelf DEF Rel
    <3>3. QED BY <1>2, <1>3, <1>7, <2>1, <3>1, <3>2
  <2>2. CASE m # 0
    <3>1. Reach(m)' = Rel(Start(m))' + Count(m)' /\ Reach(m) = Rel(Start(m)) + Count(m)
      BY DEF Reach
    <3>2. Rel(Start(m)) \in 0 .. N-1 /\ Rel(Start(m)) >= 1 /\ Start(m) \in Blocks
      BY <1>1, <1>4, <2>2, RelType
    <3>3. Rel(Start(m))' = Rel(Start(m)) - 1
      <4>2. Rel(Start(m))' = Rel(blkPtr[m])'
        BY <1>4, <2>2, <1>0 DEF Rel, Start
      <4>3. Rel(blkPtr[m])' = IF Rel(blkPtr[m]) = 0 THEN N - 1 ELSE Rel(blkPtr[m]) - 1
        <5>1. PICK b \in Blocks : b = blkPtr[m]
          BY <1>4, <2>2, <3>2
        <5>2. Rel(blkPtr[m])' = Rel(b)'
          BY <1>0, <5>1 DEF Rel
        <5>3. QED BY <1>1, <5>1, <5>2
      <4>4. QED BY <1>4, <2>2, <3>2, <4>2, <4>3
    <3>4. QED BY <1>4, <2>2, <3>1, <3>2, <3>3, CountType
  <2>3. QED BY <2>1, <2>2
<1>15. ASSUME NEW m \in Modules
       PROVE  Reach(m)' <= Rel(Limit(m))' /\ Reach(m)' < N - 1 /\ Reach(m)' \in Int
  <2>1. PICK b \in Blocks : b = Limit(m)
    BY RelType
  <2>2. Rel(Limit(m))' = Rel(b)'
    BY <1>5, <2>1 DEF Rel
  <2>3. /\ Rel(b) \in 0 .. N-1 /\ Rel(b) >= 1 /\ Rel(b)' = Rel(b) - 1
        /\ Reach(m) <= Rel(b) /\ Reach(m) \in Nat
    BY <1>1, <2>1, RelType, CountType DEF ReadInv
  <2>4. QED BY <1>14, <2>2, <2>3
<1>16. ASSUME NEW m \in Modules, NEW b \in Blocks, Rel(b)' < Reach(m)', b # relBlk'
       PROVE  blk'[b].size # 0
  <2>1. Rel(b) \in 0 .. N-1 /\ Reach(m) \in Nat
    BY RelType, CountType
  <2>2. Rel(b) # 0
    BY <1>1, <1>15, <1>16
  <2>3. Rel(b) < Reach(m)
    BY <1>1, <1>14, <1>16, <2>1, <2>2
  <2>4. b # relBlk
    BY <1>0, <1>1, <2>2
  <2>5. QED BY <1>0, <2>3, <2>4 DEF ReadInv
<1>17. QED BY <1>12, <1>13, <1>15, <1>16 DEF ReadInv

-----------------------------------------------------------------------------
(***************************************************************************)
(* What the blocks say, and whose they are.                                *)
(***************************************************************************)
LEMMA BlockInit == Init => BlockInv
<1> SUFFICES ASSUME Init PROVE BlockInv
  OBVIOUS
<1> USE RingSize
<1>1. 0 \in Blocks /\ 0 \in Modules /\ \A m \in Modules : Dep(m) \in Modules
  BY RingAssumption DEF Blocks, Modules, Dep
<1>2. S2DBlk = 0 /\ Span = 0 /\ \A b \in Blocks : Rel(b) \in 0 .. N-1
  BY <1>1, DistType, DistSelf DEF Init, S2DBlk, Span, Rel
<1>3. \A m \in Modules : /\ Start(m) = 0 /\ Count(m) = 0 /\ Reach(m) = 0 /\ Limit(m) = 0
                         /\ inHand[m] = <<>> /\ picked[m] = <<>> /\ pickPos[m] = 0
  BY <1>1, <1>2, DistSelf DEF Init, Start, Count, Reach, Limit, Rel
<1>4. Plus(0, 0) = 0
  BY <1>1, PlusValue
<1>5. ReadInv
  <2>1. ASSUME NEW m \in Modules PROVE Consecutive(m)
    BY <1>3, <1>4 DEF Consecutive
  <2>2. ASSUME NEW m \in Modules PROVE Reach(m) <= Rel(Limit(m))
    BY <1>1, <1>2, <1>3
  <2>3. ASSUME NEW m \in Modules, NEW b \in Blocks, Rel(b) < Reach(m) PROVE FALSE
    BY <1>2, <1>3, <2>3
  <2>4. QED BY <2>1, <2>2, <2>3 DEF ReadInv
<1>6. ReleaseInv
  BY DEF ReleaseInv, Init
<1>7. BlkInv
  BY DEF BlkInv, Init, Clean, EmptyBlk
<1>8. ProdInv
  BY DEF ProdInv, Stage, Waiting, Init
<1>9. QED BY <1>5, <1>6, <1>7, <1>8 DEF BlockInv

(* A step of one producer that claims nothing writes its own block only,   *)
(* and publishes it, if it does, complete.                                 *)
LEMMA BlockLocal ==
  ASSUME TypeOK, BlockInv, NEW p \in Producers, UNCHANGED <<tail, readVars, s2dVars>>,
         \A b \in Blocks : b # cur[p] => blk'[b] = blk[b],
         \A q \in Producers \ {p} :
           /\ pc'[q] = pc[q] /\ job'[q] = job[q] /\ cur'[q] = cur[q]
           /\ used'[q] = used[q] /\ data'[q] = data[q],
         cur'[p] = cur[p] \/ cur'[p] = NoBlk,
         \A b \in Blocks : b = cur[p] =>
           blk'[b].size = 0 \/ (Complete(b)' /\ cur'[p] = NoBlk),
         cur'[p] # NoBlk => Mine(p)', Stage(p)'
  PROVE  BlockInv'
<1>1. /\ S2DBlk' = S2DBlk /\ \A b : Rel(b)' = Rel(b)
      /\ Span' = Span /\ relBlk' = relBlk /\ s2dPc' = s2dPc
  BY DEF S2DBlk, Rel, Span, Dist, Plus, readVars, s2dVars
<1>2. cur[p] \in Blocks \cup {NoBlk} /\ (cur[p] # NoBlk => Alone(p))
  BY DEF TypeOK, BlockInv, ProdInv
<1>3. ReadInv'
  <2>1. \A b \in Blocks : b # relBlk' =>
          b # relBlk /\ (blk[b].size # 0 => blk'[b].size # 0)
    BY <1>1, <1>2, RingAssumption DEF Alone
  <2>2. QED BY <2>1, ReadSame DEF BlockInv, s2dVars
<1>4. ReleaseInv'
  <2>1. s2dPc # "idle" => relBlk \in Blocks /\ relBlk # cur[p]
    BY <1>2, RelType, RingAssumption DEF BlockInv, ReleaseInv, Alone
  <2>2. QED BY <1>1, <2>1 DEF BlockInv, ReleaseInv, s2dVars
<1>5. BlkInv'
  <2>1. ASSUME NEW b \in Blocks, Rel(b)' >= Span' PROVE Clean(b)'
    <3>1. Rel(b) >= Span /\ Clean(b)
      BY <1>1, <2>1 DEF BlockInv, BlkInv
    <3>2. Rel(b) \in 0 .. N-1 /\ Span \in 0 .. N-1
      BY RelType
    <3>3. b # cur[p]
      BY <1>2, <3>1, <3>2, RingSize, RingAssumption DEF Alone
    <3>4. QED BY <3>1, <3>3 DEF Clean
  <2>2. ASSUME NEW b \in Blocks, blk'[b].size # 0, b # relBlk' PROVE Complete(b)'
    <3>1. CASE b = cur[p]
      BY <2>2, <3>1
    <3>2. CASE b # cur[p]
      BY <1>1, <2>2, <3>2 DEF BlockInv, BlkInv, Complete, IsStopSignal, IsTimeoutSignal
    <3>3. QED BY <3>1, <3>2
  <2>3. QED BY <2>1, <2>2 DEF BlkInv
<1>6. ProdInv'
  <2>1. ASSUME NEW q \in Producers, q # p PROVE Stage(q)' /\ (cur'[q] # NoBlk => Mine(q)')
    <3>1. Stage(q) /\ (cur[q] # NoBlk => Mine(q) /\ cur[q] # cur[p])
      BY <2>1 DEF BlockInv, ProdInv, Alone
    <3>2. /\ pc'[q] = pc[q] /\ job'[q] = job[q] /\ cur'[q] = cur[q]
          /\ used'[q] = used[q] /\ data'[q] = data[q]
      BY <2>1
    <3>3. cur[q] \in Blocks \cup {NoBlk}
      BY DEF TypeOK
    <3>4. Stage(q)'
      BY <3>1, <3>2 DEF Stage, Waiting
    <3>5. ASSUME cur'[q] # NoBlk PROVE Mine(q)'
      <4>1. blk'[cur[q]] = blk[cur[q]] /\ Mine(q)
        BY <3>1, <3>2, <3>3, <3>5
      <4>2. QED BY <3>2, <4>1 DEF Mine, Clean
    <3>6. QED BY <3>4, <3>5
  <2>2. ASSUME NEW q \in Producers, cur'[q] # NoBlk PROVE Alone(q)'
    <3>1. cur'[q] = cur[q] /\ Alone(q) /\ cur[q] \in Blocks
      BY <2>2 DEF BlockInv, ProdInv, TypeOK
    <3>2. blk'[cur[q]].size = 0
      <4>1. CASE q = p
        BY <2>2, <3>1, <4>1
      <4>2. CASE q # p
        BY <2>2, <3>1, <4>2, <1>2 DEF Alone
      <4>3. QED BY <4>1, <4>2
    <3>3. ASSUME NEW r \in Producers, cur'[r] = cur'[q] PROVE r = q
      BY <2>2, <3>1, <3>3 DEF Alone
    <3>4. Rel(cur[q])' = Rel(cur'[q]) /\ Rel(cur[q]) < Span
      BY <1>1, <3>1 DEF Alone, Rel
    <3>5. QED BY <1>1, <3>1, <3>2, <3>3, <3>4 DEF Alone, Rel
  <2>3. QED BY <2>1, <2>2 DEF ProdInv
<1>7. QED BY <1>3, <1>4, <1>5, <1>6 DEF BlockInv

(* DoneMetaBlk publishes the current block, if there is one.               *)
LEMMA BlockDone ==
  ASSUME TypeOK, BlockInv, NEW p \in Producers, pc[p] \in {"work", "final"}, DoneMetaBlk(p)
  PROVE  /\ cur'[p] = NoBlk
         /\ \A q \in Producers \ {p} : cur'[q] = cur[q]
         /\ \A b \in Blocks : b # cur[p] => blk'[b] = blk[b]
         /\ \A b \in Blocks : b = cur[p] => Complete(b)'
<1>1. CASE cur[p] = NoBlk
  BY <1>1, RingAssumption DEF DoneMetaBlk
<1>2. CASE cur[p] # NoBlk
  <2>1. /\ Mine(p) /\ cur[p] \in Blocks /\ used[p] \in 0 .. BlkCap
        /\ blk \in [Blocks -> BlkRecord] /\ cur \in [Producers -> Blocks \cup {NoBlk}]
    BY <1>2 DEF BlockInv, ProdInv, TypeOK
  <2>2. /\ used[p] # 0 /\ blk[cur[p]].metas = used[p] /\ blk[cur[p]].dataBlk # NoData
    BY <2>1 DEF Mine
  <2>3. blk' = [blk EXCEPT ![cur[p]].size = used[p]] /\ cur' = [cur EXCEPT ![p] = NoBlk]
    BY <1>2, <2>2 DEF DoneMetaBlk
  <2>4. ASSUME NEW b \in Blocks, b = cur[p] PROVE Complete(b)'
    <3>1. blk'[b] = [blk[b] EXCEPT !.size = used[p]] /\ blk[b] \in BlkRecord
      BY <2>1, <2>3, <2>4
    <3>2. blk'[b].size = used[p] /\ blk'[b].metas = used[p] /\ blk'[b].dataBlk # NoData
      BY <2>2, <2>4, <3>1 DEF BlkRecord
    <3>3. used[p] \in 1 .. BlkCap
      BY <2>1, <2>2, RingAssumption
    <3>4. QED BY <3>2, <3>3 DEF Complete
  <2>5. QED BY <2>1, <2>3, <2>4
<1>3. QED BY <1>1, <1>2

LEMMA BlockProduce ==
  ASSUME TypeInv, BlockInv, NEW p \in Producers, Produce(p)
  PROVE  BlockInv'
<1> USE DEF TypeInv
<1>0. /\ pc \in [Producers -> PcLabels] /\ used \in [Producers -> 0 .. BlkCap]
      /\ job \in [Producers -> {"data"} \cup Signals]
      /\ data \in [Producers -> DataBlks \cup {NoData}]
      /\ cur \in [Producers -> Blocks \cup {NoBlk}] /\ blk \in [Blocks -> BlkRecord]
      /\ Stage(p) /\ (cur[p] # NoBlk => Alone(p) /\ Mine(p))
  BY DEF TypeOK, BlockInv, ProdInv
<1>1. CASE WaitNextEmptyPktBlk(p)
  <2>1. cur[p] = NoBlk /\ UNCHANGED <<blk, cur, pc, job, used>> /\ pc[p] = "work"
        /\ \A q \in Producers \ {p} : data'[q] = data[q]
    BY <1>0, <1>1 DEF WaitNextEmptyPktBlk, Mine
  <2>2. Stage(p)'
    BY <2>1 DEF Stage, Waiting
  <2>3. UNCHANGED <<tail, readVars, s2dVars>>
    BY <1>1 DEF WaitNextEmptyPktBlk
  <2>4. \A b \in Blocks : b # cur[p]
    BY <2>1, RingAssumption
  <2>5. QED BY <2>1, <2>2, <2>3, <2>4, BlockLocal
<1>2. CASE NextMeta(p)
  <2>1. /\ pc[p] = "work" /\ cur[p] \in Blocks /\ cur[p] # NoBlk /\ data[p] # NoData
        /\ UNCHANGED <<tail, readVars, s2dVars, pc, job, cur, data>>
        /\ used' = [used EXCEPT ![p] = @ + 1]
        /\ blk' = [blk EXCEPT ![cur[p]].metas = used[p] + 1]
    BY <1>0, <1>2 DEF NextMeta, HasRoom
  <2>2. /\ used'[p] = used[p] + 1 /\ used[p] \in Nat
        /\ blk'[cur[p]] = [blk[cur[p]] EXCEPT !.metas = used[p] + 1]
        /\ blk[cur[p]] \in BlkRecord
    BY <1>0, <2>1, RingAssumption
  <2>3. /\ blk'[cur[p]].metas = used'[p] /\ used'[p] # 0
        /\ blk'[cur[p]].size = blk[cur[p]].size /\ blk'[cur[p]].kind = blk[cur[p]].kind
        /\ blk'[cur[p]].dataBlk = blk[cur[p]].dataBlk
        /\ blk'[cur[p]].isFinal = blk[cur[p]].isFinal
    BY <2>2 DEF BlkRecord
  <2>4. Mine(p)'
    BY <1>0, <2>1, <2>3 DEF Mine
  <2>5. Stage(p)'
    BY <2>1 DEF Stage, Waiting
  <2>6. blk'[cur[p]].size = 0
    BY <1>0, <2>1, <2>3 DEF Alone
  <2>7. \A b \in Blocks : b # cur[p] => blk'[b] = blk[b]
    BY <1>0, <2>1
  <2>8. \A q \in Producers \ {p} : used'[q] = used[q]
    BY <1>0, <2>1
  <2>9. QED BY <2>1, <2>4, <2>5, <2>6, <2>7, <2>8, BlockLocal
<1>3. CASE TurnOver(p)
  <2>1. /\ pc[p] = "work" /\ pc' = [pc EXCEPT ![p] = "readTail"] /\ data[p] # NoData
        /\ DoneMetaBlk(p) /\ job' = [job EXCEPT ![p] = "data"]
        /\ UNCHANGED <<tail, used, data, readVars, s2dVars>>
    BY <1>3 DEF TurnOver, Goto
  <2>2. /\ cur'[p] = NoBlk /\ \A q \in Producers \ {p} : cur'[q] = cur[q]
        /\ \A b \in Blocks : b # cur[p] => blk'[b] = blk[b]
        /\ \A b \in Blocks : b = cur[p] => Complete(b)'
    BY <2>1, BlockDone
  <2>3. pc'[p] = "readTail" /\ job'[p] = "data"
        /\ \A q \in Producers \ {p} : pc'[q] = pc[q] /\ job'[q] = job[q]
    BY <1>0, <2>1
  <2>4. Stage(p)'
    BY <2>1, <2>2, <2>3 DEF Stage, Waiting
  <2>5. QED BY <2>1, <2>2, <2>3, <2>4, BlockLocal
<1>4. ASSUME NEW sig \in Signals, SendSignal(p, sig) PROVE BlockInv'
  <2>1. /\ cur[p] = NoBlk /\ pc' = [pc EXCEPT ![p] = "readTail"]
        /\ job' = [job EXCEPT ![p] = sig]
        /\ UNCHANGED <<tail, blk, cur, used, data, readVars, s2dVars>>
    BY <1>4 DEF SendSignal, Goto
  <2>2. pc'[p] = "readTail" /\ job'[p] = sig
        /\ \A q \in Producers \ {p} : pc'[q] = pc[q] /\ job'[q] = job[q]
    BY <1>0, <2>1
  <2>3. Stage(p)'
    BY <2>1, <2>2, RingAssumption DEF Stage, Waiting
  <2>4. \A b \in Blocks : b # cur[p]
    BY <2>1, RingAssumption
  <2>5. QED BY <2>1, <2>2, <2>3, <2>4, BlockLocal
<1>5. CASE MarkFinal(p)
  <2>1. /\ pc[p] = "work" /\ cur[p] \in Blocks /\ cur[p] # NoBlk
        /\ UNCHANGED <<tail, readVars, s2dVars, job, cur, used, data>>
        /\ pc' = [pc EXCEPT ![p] = "final"]
        /\ blk' = [blk EXCEPT ![cur[p]].isFinal = TRUE]
    BY <1>0, <1>5 DEF MarkFinal, Goto
  <2>2. /\ pc'[p] = "final" /\ \A q \in Producers \ {p} : pc'[q] = pc[q]
        /\ blk'[cur[p]] = [blk[cur[p]] EXCEPT !.isFinal = TRUE]
        /\ blk[cur[p]] \in BlkRecord
        /\ \A b \in Blocks : b # cur[p] => blk'[b] = blk[b]
    BY <1>0, <2>1
  <2>3. /\ blk'[cur[p]].metas = blk[cur[p]].metas
        /\ blk'[cur[p]].size = blk[cur[p]].size /\ blk'[cur[p]].kind = blk[cur[p]].kind
        /\ blk'[cur[p]].dataBlk = blk[cur[p]].dataBlk
        /\ blk'[cur[p]].isFinal
    BY <2>2 DEF BlkRecord
  <2>4. Mine(p)'
    BY <1>0, <2>1, <2>2, <2>3 DEF Mine
  <2>5. Stage(p)'
    BY <1>0, <2>1, <2>2 DEF Stage, Waiting
  <2>6. blk'[cur[p]].size = 0
    BY <1>0, <2>1, <2>3 DEF Alone
  <2>7. QED BY <2>1, <2>2, <2>4, <2>5, <2>6, BlockLocal
<1>6. QED BY <1>1, <1>2, <1>3, <1>4, <1>5 DEF Produce

LEMMA BlockFinish ==
  ASSUME TypeInv, BlockInv, NEW p \in Producers, Finish(p)
  PROVE  BlockInv'
<1> USE DEF TypeInv
<1>0. /\ pc \in [Producers -> PcLabels] /\ used \in [Producers -> 0 .. BlkCap]
      /\ job \in [Producers -> {"data"} \cup Signals]
      /\ data \in [Producers -> DataBlks \cup {NoData}]
      /\ cur \in [Producers -> Blocks \cup {NoBlk}] /\ blk \in [Blocks -> BlkRecord]
      /\ Stage(p) /\ (cur[p] # NoBlk => Alone(p) /\ Mine(p))
      /\ (pc[p] \in {"open", "final", "signal", "sent"} => cur[p] # NoBlk /\ cur[p] \in Blocks)
  BY DEF TypeOK, BlockInv, ProdInv, Stage, Waiting
<1>1. CASE OpenMetaBlk(p)
  <2>1. /\ pc[p] = "open" /\ pc' = [pc EXCEPT ![p] = "work"]
        /\ used' = [used EXCEPT ![p] = 1]
        /\ blk' = [blk EXCEPT ![cur[p]] =
               [@ EXCEPT !.dataBlk = data[p], !.metas = 1, !.kind = "packet"]]
        /\ UNCHANGED <<tail, readVars, s2dVars, job, cur, data>>
    BY <1>1 DEF OpenMetaBlk, Goto
  <2>2. /\ pc'[p] = "work" /\ used'[p] = 1 /\ cur[p] \in Blocks /\ cur[p] # NoBlk
        /\ blk'[cur[p]] = [blk[cur[p]] EXCEPT !.dataBlk = data[p], !.metas = 1, !.kind = "packet"]
        /\ blk[cur[p]] \in BlkRecord
        /\ \A b \in Blocks : b # cur[p] => blk'[b] = blk[b]
        /\ \A q \in Producers \ {p} : pc'[q] = pc[q] /\ used'[q] = used[q]
    BY <1>0, <2>1
  <2>3. /\ blk'[cur[p]].metas = 1 /\ blk'[cur[p]].kind = "packet"
        /\ blk'[cur[p]].dataBlk = data[p]
        /\ blk'[cur[p]].size = blk[cur[p]].size
        /\ blk'[cur[p]].isFinal = blk[cur[p]].isFinal
    BY <2>2 DEF BlkRecord
  <2>4. data[p] # NoData
    BY <1>0, <2>1 DEF Stage
  <2>5. blk[cur[p]].size = 0 /\ ~blk[cur[p]].isFinal
    BY <1>0, <2>1, <2>2 DEF Mine, Clean
  <2>6. Mine(p)'
    BY <2>1, <2>2, <2>3, <2>4, <2>5 DEF Mine
  <2>7. Stage(p)'
    BY <2>2 DEF Stage, Waiting
  <2>8. QED BY <2>1, <2>2, <2>3, <2>5, <2>6, <2>7, BlockLocal
<1>2. CASE FinalMetaBlk(p)
  <2>1. /\ pc[p] = "final" /\ pc' = [pc EXCEPT ![p] = "work"]
        /\ DoneMetaBlk(p) /\ data' = [data EXCEPT ![p] = NoData]
        /\ UNCHANGED <<tail, used, job, readVars, s2dVars>>
    BY <1>2 DEF FinalMetaBlk, Goto
  <2>2. /\ cur'[p] = NoBlk /\ \A q \in Producers \ {p} : cur'[q] = cur[q]
        /\ \A b \in Blocks : b # cur[p] => blk'[b] = blk[b]
        /\ \A b \in Blocks : b = cur[p] => Complete(b)'
    BY <2>1, BlockDone
  <2>3. pc'[p] = "work"
        /\ \A q \in Producers \ {p} : pc'[q] = pc[q] /\ data'[q] = data[q]
    BY <1>0, <2>1
  <2>4. Stage(p)'
    BY <2>3 DEF Stage, Waiting
  <2>5. QED BY <2>1, <2>2, <2>3, <2>4, BlockLocal
<1>3. CASE FillSignal(p)
  <2>1. /\ pc[p] = "signal" /\ pc' = [pc EXCEPT ![p] = "sent"]
        /\ blk' = [blk EXCEPT ![cur[p]] =
               [@ EXCEPT !.metas = 1, !.kind = job[p], !.isFinal = TRUE]]
        /\ UNCHANGED <<tail, readVars, s2dVars, job, cur, used, data>>
    BY <1>3 DEF FillSignal, Goto
  <2>2. /\ pc'[p] = "sent" /\ cur[p] \in Blocks /\ cur[p] # NoBlk
        /\ blk'[cur[p]] = [blk[cur[p]] EXCEPT !.metas = 1, !.kind = job[p], !.isFinal = TRUE]
        /\ blk[cur[p]] \in BlkRecord
        /\ \A b \in Blocks : b # cur[p] => blk'[b] = blk[b]
        /\ \A q \in Producers \ {p} : pc'[q] = pc[q]
    BY <1>0, <2>1
  <2>3. /\ blk'[cur[p]].metas = 1 /\ blk'[cur[p]].kind = job[p]
        /\ blk'[cur[p]].dataBlk = blk[cur[p]].dataBlk
        /\ blk'[cur[p]].size = blk[cur[p]].size
        /\ blk'[cur[p]].isFinal
    BY <2>2 DEF BlkRecord
  <2>4. blk[cur[p]].size = 0 /\ blk[cur[p]].dataBlk = NoData
    BY <1>0, <2>1, <2>2 DEF Mine, Clean
  <2>5. Mine(p)'
    BY <2>1, <2>2, <2>3, <2>4 DEF Mine
  <2>6. Stage(p)'
    BY <1>0, <2>1, <2>2 DEF Stage, Waiting
  <2>7. QED BY <2>1, <2>2, <2>3, <2>4, <2>5, <2>6, BlockLocal
<1>4. CASE PublishSignal(p)
  <2>1. /\ pc[p] = "sent" /\ pc' = [pc EXCEPT ![p] = "work"]
        /\ blk' = [blk EXCEPT ![cur[p]].size = 1]
        /\ cur' = [cur EXCEPT ![p] = NoBlk]
        /\ UNCHANGED <<tail, readVars, s2dVars, job, used, data>>
    BY <1>4 DEF PublishSignal, Goto
  <2>2. /\ pc'[p] = "work" /\ cur[p] \in Blocks /\ cur[p] # NoBlk /\ cur'[p] = NoBlk
        /\ blk'[cur[p]] = [blk[cur[p]] EXCEPT !.size = 1]
        /\ blk[cur[p]] \in BlkRecord
        /\ \A b \in Blocks : b # cur[p] => blk'[b] = blk[b]
        /\ \A q \in Producers \ {p} : pc'[q] = pc[q] /\ cur'[q] = cur[q]
    BY <1>0, <2>1
  <2>3. /\ blk'[cur[p]].metas = blk[cur[p]].metas /\ blk'[cur[p]].kind = blk[cur[p]].kind
        /\ blk'[cur[p]].dataBlk = blk[cur[p]].dataBlk
        /\ blk'[cur[p]].size = 1
        /\ blk'[cur[p]].isFinal = blk[cur[p]].isFinal
    BY <2>2 DEF BlkRecord
  <2>4. /\ blk[cur[p]].metas = 1 /\ blk[cur[p]].dataBlk = NoData /\ blk[cur[p]].isFinal
        /\ blk[cur[p]].kind \in {"timeout", "stop"}
    BY <1>0, <2>1, <2>2, RingAssumption DEF Mine, Stage
  <2>5. 1 \in 1 .. BlkCap
    BY RingAssumption
  <2>6. ASSUME NEW b \in Blocks, b = cur[p] PROVE Complete(b)'
    BY <2>3, <2>4, <2>5, <2>6 DEF Complete, IsStopSignal, IsTimeoutSignal
  <2>7. Stage(p)'
    BY <2>2 DEF Stage, Waiting
  <2>8. QED BY <2>1, <2>2, <2>6, <2>7, BlockLocal
<1>5. QED BY <1>1, <1>2, <1>3, <1>4 DEF Finish

(* The block S2D has in hand is the one it is at, behind the tail, and no  *)
(* producer's.                                                             *)
LEMMA S2DHolds ==
  ASSUME TypeOK, Chained, BlockInv, inHand[0] # <<>>
  PROVE  /\ Head(inHand[0]) = S2DBlk /\ S2DBlk \in Blocks /\ Rel(S2DBlk) = 0 /\ Span >= 1
         /\ relBlk # S2DBlk => blk[S2DBlk].size # 0
         /\ \A p \in Producers : cur[p] # S2DBlk
<1> USE RingSize
<1>0. 0 \in Modules /\ S2DBlk \in Blocks /\ Rel(S2DBlk) = 0 /\ Start(0) = S2DBlk
      /\ Span \in 0 .. N-1
  BY RelType DEF Start
<1>1. Head(inHand[0]) = S2DBlk
  <2>1. inHand[0] \in Seq(Blocks) /\ Head(inHand[0]) = inHand[0][1] /\ 1 \in 1 .. Len(inHand[0])
    BY <1>0, HeadTailProperties, EmptySeq DEF TypeOK
  <2>2. inHand[0][1] = Plus(S2DBlk, 1 - 1)
    BY <1>0, <2>1 DEF BlockInv, ReadInv, Consecutive
  <2>3. Plus(S2DBlk, 0) = S2DBlk
    BY <1>0, PlusValue DEF Blocks
  <2>4. QED BY <2>1, <2>2, <2>3
<1>2. Count(0) > 0 /\ Rel(S2DBlk) < Reach(0)
  <2>1. Head(inHand[0]) \in Held(0)
    BY <1>0, EmptySeq, HeadTailProperties DEF Held, Elems, TypeOK
  <2>2. QED BY <1>0, <1>1, <2>1, HeldIsInReach DEF BlockInv
<1>3. Rel(Limit(0)) >= 1 /\ Rel(Limit(0)) \in 0 .. N-1
  <2>1. Reach(0) \in Nat /\ Reach(0) <= Rel(Limit(0)) /\ Rel(Limit(0)) \in 0 .. N-1
    BY <1>0, CountType, RelType DEF BlockInv, ReadInv
  <2>2. QED BY <1>0, <1>2, <2>1
<1>4. Rel(Limit(0)) <= Span
  <2>1. Dep(0) \in Modules
    BY RingAssumption DEF Dep, Modules
  <2>2. /\ Rel(blkPtr[Dep(0)]) = Ahead(Dep(0)) + Moved /\ Span = Occupied + Moved
        /\ Ahead(Dep(0)) \in 0 .. N-2 /\ Occupied \in 0 .. N-2
        /\ Ahead(Dep(0)) <= Occupied
    BY <2>1, RelChain DEF Chained
  <2>3. Rel(blkPtr[Dep(0)]) <= Span
    BY <2>2 DEF Moved
  <2>4. QED BY <1>0, <2>3 DEF Limit, Span
<1>5. Span >= 1
  BY <1>0, <1>3, <1>4
<1>6. relBlk # S2DBlk => blk[S2DBlk].size # 0
  BY <1>0, <1>2 DEF BlockInv, ReadInv
<1>7. ASSUME NEW p \in Producers, cur[p] = S2DBlk PROVE FALSE
  <2>1. cur[p] # relBlk /\ blk[cur[p]].size = 0
    BY <1>0, <1>7, RingAssumption DEF BlockInv, ProdInv, Alone
  <2>2. QED BY <1>6, <1>7, <2>1
<1>8. QED BY <1>0, <1>1, <1>5, <1>6, <1>7

(* The compare-and-swap of a thread that was not lapped succeeds only when *)
(* there is room for one more block.                                       *)
LEMMA ClaimHasRoom ==
  ASSUME MaxLag < N, TypeInv, ChainInv, NEW p \in Producers, CasTail(p)
  PROVE  Occupied <= N - 3
<1>1. pc[p] = "cas" /\ tail = seenTail[p]
  BY DEF CasTail, Goto
<1>2. tail = Plus(seenTail[p], lag[p]) /\ lag[p] \in 0 .. MaxLag /\ seenTail[p] \in Blocks
  BY <1>1 DEF ChainInv, TailSeen, Claiming, TypeInv, TypeOK
<1>3. lag[p] \in 0 .. N-1
  BY <1>2, RingAssumption
<1>4. lag[p] = 0
  BY <1>1, <1>2, <1>3, NotLapped
<1>5. QED BY <1>1, <1>4 DEF ChainInv, RoomSeen

(* The block a compare-and-swap claims is the clean one at the tail.       *)
LEMMA BlockCasTail ==
  ASSUME MaxLag < N, TypeInv, ChainInv, BlockInv, NEW p \in Producers, CasTail(p)
  PROVE  BlockInv'
<1> USE RingSize DEF TypeInv
<1>0. /\ pc[p] = "cas" /\ tail = seenTail[p] /\ tail \in Blocks
      /\ pc' = [pc EXCEPT ![p] = IF job[p] = "data" THEN "open" ELSE "signal"]
      /\ tail' = Plus(tail, 1) /\ cur' = [cur EXCEPT ![p] = tail]
      /\ UNCHANGED <<blk, freeData, job, used, data, readVars, s2dVars>>
      /\ pc \in [Producers -> PcLabels] /\ cur \in [Producers -> Blocks \cup {NoBlk}]
      /\ job \in [Producers -> {"data"} \cup Signals]
  BY DEF CasTail, Goto, TypeOK
<1>1. Span <= N - 2
  <2>2. Occupied <= N - 3
    BY ClaimHasRoom
  <2>3. Span = Occupied + Moved /\ Occupied \in 0 .. N-2
    BY RelChain DEF ChainInv
  <2>4. QED BY <2>2, <2>3 DEF Moved
<1>2. /\ S2DBlk' = S2DBlk /\ \A b : Rel(b)' = Rel(b)
      /\ relBlk' = relBlk /\ s2dPc' = s2dPc
  BY <1>0 DEF S2DBlk, Rel, Dist, Plus, readVars, s2dVars
<1>3. Span' = Span + 1 /\ Span \in 0 .. N-1 /\ Rel(tail) = Span
  <2>1. Span \in 0 .. N-1 /\ Rel(tail) = Span
    BY RelType DEF Span
  <2>2. Rel(Plus(tail, 1)) = Span + 1
    BY <1>0, <1>1, <2>1, RelPlus
  <2>3. Span' = Rel(Plus(tail, 1))
    BY <1>0, <1>2 DEF Span
  <2>4. QED BY <2>1, <2>2, <2>3
<1>4. Clean(tail)
  BY <1>0, <1>3 DEF BlockInv, BlkInv
<1>5. tail # relBlk
  <2>1. CASE s2dPc = "idle"
    BY <1>0, <2>1, RingAssumption DEF BlockInv, ReleaseInv
  <2>2. CASE s2dPc # "idle"
    <3>1. relBlk = S2DBlk /\ Rel(S2DBlk) = 0 /\ Span >= 1
      BY <2>2, S2DHolds DEF ChainInv, BlockInv, ReleaseInv, ReleasingHeld
    <3>2. QED BY <1>3, <3>1
  <2>3. QED BY <2>1, <2>2
<1>6. ReadInv'
  <2>1. UNCHANGED <<readVars, relMoved, relBlk, blk>>
    BY <1>0 DEF s2dVars
  <2>2. QED BY <1>0, <1>1, <2>1, ReadTailMoves DEF BlockInv
<1>7. ReleaseInv'
  BY <1>0, <1>2 DEF BlockInv, ReleaseInv, s2dVars
<1>8. BlkInv'
  <2>1. ASSUME NEW b \in Blocks, Rel(b)' >= Span' PROVE Clean(b)'
    <3>1. Rel(b) \in 0 .. N-1 /\ Rel(b) >= Span
      BY <1>2, <1>3, <2>1, RelType
    <3>2. QED BY <1>0, <3>1 DEF BlockInv, BlkInv, Clean
  <2>2. ASSUME NEW b \in Blocks, blk'[b].size # 0, b # relBlk' PROVE Complete(b)'
    BY <1>0, <1>2, <2>2 DEF BlockInv, BlkInv, Complete, IsStopSignal, IsTimeoutSignal
  <2>3. QED BY <2>1, <2>2 DEF BlkInv
<1>9. ProdInv'
  <2>1. /\ cur'[p] = tail /\ tail # NoBlk
        /\ pc'[p] = IF job[p] = "data" THEN "open" ELSE "signal"
    BY <1>0, RingAssumption
  <2>2. ASSUME NEW q \in Producers, cur[q] # NoBlk PROVE cur[q] # tail
    <3>1. Rel(cur[q]) < Span
      BY <2>2 DEF BlockInv, ProdInv, Alone
    <3>2. QED BY <1>3, <3>1
  <2>3. Stage(p)' /\ Mine(p)'
    <3>1. Stage(p) /\ job[p] \in {"data"} \cup Signals
      BY <1>0 DEF BlockInv, ProdInv
    <3>2. job[p] = "data" => data[p] # NoData
      BY <1>0, <3>1 DEF Stage, Waiting
    <3>3. Stage(p)'
      BY <1>0, <2>1, <3>1, <3>2 DEF Stage, Waiting
    <3>4. Mine(p)'
      BY <1>0, <1>4, <2>1 DEF Mine, Clean
    <3>5. QED BY <3>3, <3>4
  <2>4. Alone(p)'
    <3>1. Rel(cur'[p]) < Span + 1
      BY <1>3, <2>1
    <3>2. Rel(cur[p])' = Rel(cur'[p])
      BY <1>2 DEF Rel
    <3>3. ASSUME NEW q \in Producers, cur'[q] = cur'[p] PROVE q = p
      BY <1>0, <2>1, <2>2, <3>3
    <3>4. blk'[cur'[p]].size = 0 /\ cur'[p] # relBlk'
      BY <1>0, <1>2, <1>4, <1>5, <2>1 DEF Clean
    <3>5. QED BY <1>3, <3>1, <3>2, <3>3, <3>4 DEF Alone
  <2>5. ASSUME NEW q \in Producers, q # p PROVE (cur'[q] # NoBlk => Alone(q)' /\ Mine(q)') /\ Stage(q)'
    <3>1. /\ cur'[q] = cur[q] /\ pc'[q] = pc[q] /\ job'[q] = job[q]
          /\ used'[q] = used[q] /\ data'[q] = data[q] /\ blk' = blk
      BY <1>0, <2>5
    <3>2. Stage(q) /\ (cur[q] # NoBlk => Alone(q) /\ Mine(q))
      BY DEF BlockInv, ProdInv
    <3>3. Stage(q)'
      BY <3>1, <3>2 DEF Stage, Waiting
    <3>4. ASSUME cur[q] # NoBlk PROVE Mine(q)' /\ Alone(q)'
      <4>1. Mine(q)'
        BY <3>1, <3>2, <3>4 DEF Mine, Clean
      <4>2. Rel(cur[q])' = Rel(cur[q]) /\ Rel(cur[q]) \in 0 .. N-1 /\ Rel(cur[q]) < Span
        <5>1. cur[q] \in Blocks
          BY <1>0, <3>4
        <5>2. QED BY <1>2, <3>1, <3>2, <3>4, <5>1, RelType DEF Alone, Rel
      <4>3. Rel(cur[q])' < Span'
        BY <1>3, <4>2
      <4>4. ASSUME NEW r \in Producers, cur'[r] = cur'[q] PROVE r = q
        BY <1>0, <2>1, <2>2, <3>1, <3>2, <3>4, <4>4 DEF Alone
      <4>5. QED BY <1>2, <3>1, <3>2, <3>4, <4>1, <4>3, <4>4 DEF Alone
    <3>5. QED BY <3>1, <3>3, <3>4
  <2>6. QED BY <2>3, <2>4, <2>5 DEF ProdInv
<1>10. QED BY <1>6, <1>7, <1>8, <1>9 DEF BlockInv

LEMMA BlockClaim ==
  ASSUME MaxLag < N, TypeInv, ChainInv, BlockInv, NEW p \in Producers, Claim(p)
  PROVE  BlockInv'
<1>1. CASE CasTail(p)
  BY <1>1, BlockCasTail
<1>2. CASE ReadTail(p) \/ CheckLimit(p) \/ CheckSize(p) \/ CasFail(p)
  <2>1. /\ UNCHANGED <<tail, blk, freeData, job, cur, used, data, readVars, s2dVars>>
        /\ pc[p] \in Waiting
        /\ pc'[p] \in Waiting
        /\ \A q \in Producers \ {p} : pc'[q] = pc[q]
    BY <1>2 DEF ReadTail, CheckLimit, CheckSize, CasFail, Goto, Waiting, TypeInv, TypeOK
  <2>2. Stage(p) /\ TypeOK /\ cur[p] \in Blocks \cup {NoBlk}
    BY DEF BlockInv, ProdInv, TypeInv, TypeOK
  <2>3. cur[p] = NoBlk
    BY <2>1, <2>2 DEF Stage, Waiting
  <2>4. \A b \in Blocks : b # cur[p]
    BY <2>3, RingAssumption
  <2>5. Stage(p)'
    BY <2>1, <2>2 DEF Stage, Waiting
  <2>6. QED BY <2>1, <2>2, <2>3, <2>4, <2>5, BlockLocal
<1>3. QED BY <1>1, <1>2 DEF Claim

(* What only concerns positions of modules other than S2D.                 *)
LEMMA BlockOutside ==
  ASSUME BlockInv, UNCHANGED <<tail, blk, prodVars, s2dPc, relBlk, relData>>, S2DBlk' = S2DBlk
  PROVE  (ReleaseInv /\ BlkInv /\ ProdInv)'
<1>1. (\A b : Rel(b)' = Rel(b)) /\ Span' = Span
  BY DEF Rel, Span, Dist
<1>2. ReleaseInv'
  BY DEF BlockInv, ReleaseInv
<1>3. BlkInv'
  BY <1>1 DEF BlockInv, BlkInv, Clean, Complete, IsStopSignal, IsTimeoutSignal
<1>4. ASSUME NEW p \in Producers
      PROVE  (cur'[p] # NoBlk => Alone(p)' /\ Mine(p)') /\ Stage(p)'
  <2>1. /\ pc' = pc /\ job' = job /\ cur' = cur /\ used' = used /\ data' = data
        /\ Stage(p) /\ (cur[p] # NoBlk => Alone(p) /\ Mine(p))
    BY DEF prodVars, BlockInv, ProdInv
  <2>2. Stage(p)'
    BY <2>1 DEF Stage, Waiting
  <2>3. cur[p] # NoBlk => Mine(p)'
    BY <2>1 DEF Mine, Clean
  <2>4. Rel(cur[p])' = Rel(cur[p])
    BY <1>1, <2>1 DEF Rel
  <2>5. cur[p] # NoBlk => Alone(p)'
    BY <1>1, <2>1, <2>4 DEF Alone
  <2>6. QED BY <2>1, <2>2, <2>3, <2>5
<1>5. QED BY <1>2, <1>3, <1>4 DEF ProdInv

(* S2D takes its block apart, field by field.                              *)
LEMMA BlockRelease ==
  ASSUME TypeOK, Chained, BlockInv, inHand[0] # <<>>,
         UNCHANGED <<tail, readVars, prodVars, relMoved>>,
         relBlk \in {NoBlk, S2DBlk}, relBlk' = S2DBlk, ReleaseInv',
         \A b \in Blocks : b # S2DBlk => blk'[b] = blk[b],
         blk'[S2DBlk].size = blk[S2DBlk].size \/ relBlk = S2DBlk
  PROVE  BlockInv'
<1> USE RingSize
<1>0. /\ S2DBlk \in Blocks /\ Rel(S2DBlk) = 0 /\ Span >= 1 /\ Span \in 0 .. N-1
      /\ \A p \in Producers : cur[p] # S2DBlk
  BY S2DHolds, RelType
<1>1. S2DBlk' = S2DBlk /\ (\A b : Rel(b)' = Rel(b)) /\ Span' = Span
  BY DEF S2DBlk, Rel, Span, Dist, Plus, readVars
<1>2. ReadInv'
  <2>1. \A b \in Blocks : b # relBlk' =>
          b # relBlk /\ (blk[b].size # 0 => blk'[b].size # 0)
    BY RingAssumption
  <2>2. QED BY <2>1, ReadSame DEF BlockInv
<1>3. BlkInv'
  <2>1. ASSUME NEW b \in Blocks, Rel(b)' >= Span' PROVE Clean(b)'
    <3>1. Rel(b) >= Span /\ b # S2DBlk
      BY <1>0, <1>1, <2>1
    <3>2. QED BY <3>1 DEF BlockInv, BlkInv, Clean
  <2>2. ASSUME NEW b \in Blocks, blk'[b].size # 0, b # relBlk' PROVE Complete(b)'
    <3>1. blk'[b] = blk[b] /\ b # relBlk
      BY <2>2, RingAssumption
    <3>2. QED BY <2>2, <3>1 DEF BlockInv, BlkInv, Complete, IsStopSignal, IsTimeoutSignal
  <2>3. QED BY <2>1, <2>2 DEF BlkInv
<1>4. ASSUME NEW p \in Producers
      PROVE  (cur'[p] # NoBlk => Alone(p)' /\ Mine(p)') /\ Stage(p)'
  <2>1. /\ pc' = pc /\ job' = job /\ cur' = cur /\ used' = used /\ data' = data
        /\ Stage(p) /\ (cur[p] # NoBlk => Alone(p) /\ Mine(p))
        /\ cur[p] \in Blocks \cup {NoBlk}
    BY DEF prodVars, BlockInv, ProdInv, TypeOK
  <2>2. Stage(p)'
    BY <2>1 DEF Stage, Waiting
  <2>3. cur[p] # NoBlk => blk'[cur[p]] = blk[cur[p]]
    BY <1>0, <2>1
  <2>4. cur[p] # NoBlk => Mine(p)'
    BY <2>1, <2>3 DEF Mine, Clean
  <2>5. Rel(cur[p])' = Rel(cur[p])
    BY <1>1, <2>1 DEF Rel
  <2>6. cur[p] # NoBlk => Alone(p)'
    BY <1>0, <1>1, <2>1, <2>3, <2>5 DEF Alone
  <2>7. QED BY <2>1, <2>2, <2>4, <2>6
<1>5. QED BY <1>2, <1>3, <1>4 DEF BlockInv, ProdInv

LEMMA BlockS2DNext ==
  ASSUME TypeInv, Chained, BlockInv, S2DNext
  PROVE  BlockInv'
<1> USE RingSize DEF TypeInv
<1>0. /\ relMoved /\ relMoved' = FALSE /\ relBlk' = NoBlk /\ relData' = NoData
      /\ s2dPc = "freed" /\ s2dPc' = "idle" /\ relBlk = S2DBlk
      /\ UNCHANGED <<tail, blk, prodVars, blkPtr>>
      /\ blk[relBlk].dataBlk = NoData /\ blk[relBlk].size = 0 /\ ~blk[relBlk].isFinal
  BY DEF S2DNext, BlockInv, ReleaseInv
<1>1. /\ Rel(S2DBlk) = 0 /\ Span' = Span - 1 /\ Span >= 1 /\ Span \in 0 .. N-1
      /\ \A b \in Blocks : Rel(b)' = (IF Rel(b) = 0 THEN N - 1 ELSE Rel(b) - 1)
                           /\ Rel(b) \in 0 .. N-1
      /\ S2DBlk \in Blocks
  BY <1>0, Advance, RelType
<1>2. ReadInv'
  BY ReadS2DNext DEF BlockInv
<1>3. ReleaseInv'
  BY <1>0 DEF ReleaseInv
<1>4. BlkInv'
  <2>1. ASSUME NEW b \in Blocks, Rel(b)' >= Span' PROVE Clean(b)'
    <3>1. CASE Rel(b) = 0
      <4>1. b = S2DBlk
        BY <1>1, <3>1, RelInjective
      <4>2. QED BY <1>0, <4>1 DEF Clean
    <3>2. CASE Rel(b) # 0
      <4>1. Rel(b) >= Span
        BY <1>1, <2>1, <3>2
      <4>2. QED BY <1>0, <4>1 DEF BlockInv, BlkInv, Clean
    <3>3. QED BY <3>1, <3>2
  <2>2. ASSUME NEW b \in Blocks, blk'[b].size # 0 PROVE Complete(b)'
    BY <1>0, <2>2 DEF BlockInv, BlkInv, Complete, IsStopSignal, IsTimeoutSignal
  <2>3. QED BY <2>1, <2>2 DEF BlkInv
<1>5. ASSUME NEW p \in Producers
      PROVE  (cur'[p] # NoBlk => Alone(p)' /\ Mine(p)') /\ Stage(p)'
  <2>1. /\ pc' = pc /\ job' = job /\ cur' = cur /\ used' = used /\ data' = data /\ blk' = blk
        /\ Stage(p) /\ (cur[p] # NoBlk => Alone(p) /\ Mine(p))
        /\ cur[p] \in Blocks \cup {NoBlk}
    BY <1>0 DEF prodVars, BlockInv, ProdInv, TypeOK
  <2>2. Stage(p)'
    BY <2>1 DEF Stage, Waiting
  <2>3. cur[p] # NoBlk => Mine(p)'
    BY <2>1 DEF Mine, Clean
  <2>4. ASSUME cur[p] # NoBlk PROVE Alone(p)'
    <3>1. PICK c \in Blocks : c = cur[p]
      BY <2>1, <2>4
    <3>2. Rel(c) # 0 /\ Rel(c) < Span
      BY <1>0, <1>1, <2>1, <2>4, <3>1, RelInjective DEF Alone
    <3>3. Rel(c)' < Span'
      BY <1>1, <3>2
    <3>4. Rel(cur[p])' = Rel(c)'
      BY <2>1, <3>1 DEF Rel
    <3>5. cur[p] # NoBlk /\ relBlk' = NoBlk
      BY <1>0, <2>4
    <3>6. QED BY <2>1, <2>4, <3>3, <3>4, <3>5 DEF Alone
  <2>5. QED BY <2>1, <2>2, <2>3, <2>4
<1>6. QED BY <1>2, <1>3, <1>4, <1>5 DEF BlockInv, ProdInv

LEMMA BlockS2D ==
  ASSUME TypeInv, Chained, BlockInv, S2D
  PROVE  BlockInv'
<1> USE DEF TypeInv
<1>0. blk \in [Blocks -> BlkRecord] /\ ReleaseInv /\ ReadInv
  BY DEF TypeOK, BlockInv
<1>1. CASE S2DMoveFirst \/ S2DMoveLast
  <2>1. inHand[0] # <<>> /\ ~relMoved /\ S2DMove
    BY <1>1 DEF S2DMoveFirst, S2DMoveLast, ReleasingHeld
  <2>2. ReadInv' /\ S2DBlk' = S2DBlk
    BY <1>0, <2>1, ReadS2DMove
  <2>3. UNCHANGED <<tail, blk, prodVars, s2dPc, relBlk, relData>>
    BY <2>1 DEF S2DMove
  <2>4. QED BY <2>2, <2>3, BlockOutside DEF BlockInv
<1>2. CASE FreeIsFinal
  <2>1. /\ inHand[0] # <<>> /\ s2dPc = "idle" /\ s2dPc' = "freeDataBlk"
        /\ UNCHANGED <<tail, readVars, prodVars, relMoved>>
        /\ relBlk' = Head(inHand[0])
        /\ blk' = [blk EXCEPT ![Head(inHand[0])].isFinal = FALSE]
    BY <1>2 DEF FreeIsFinal
  <2>2. Head(inHand[0]) = S2DBlk /\ S2DBlk \in Blocks
    BY <2>1, S2DHolds
  <2>3. /\ blk'[S2DBlk] = [blk[S2DBlk] EXCEPT !.isFinal = FALSE] /\ blk[S2DBlk] \in BlkRecord
        /\ \A b \in Blocks : b # S2DBlk => blk'[b] = blk[b]
    BY <1>0, <2>1, <2>2
  <2>4. blk'[S2DBlk].isFinal = FALSE /\ blk'[S2DBlk].size = blk[S2DBlk].size
    BY <2>3 DEF BlkRecord
  <2>5. S2DBlk' = S2DBlk
    BY <2>1 DEF S2DBlk, readVars, Plus
  <2>6. ReleaseInv'
    BY <2>1, <2>2, <2>4, <2>5 DEF ReleaseInv
  <2>7. relBlk = NoBlk
    BY <1>0, <2>1 DEF ReleaseInv
  <2>8. QED BY <2>1, <2>2, <2>3, <2>4, <2>6, <2>7, BlockRelease
<1>3. CASE FreeDataBlk \/ FreeSize \/ FreeFullPktBlk
  <2>1. /\ s2dPc # "idle" /\ inHand[0] # <<>> /\ relBlk = S2DBlk /\ ~blk[relBlk].isFinal
        /\ UNCHANGED <<tail, readVars, prodVars, relMoved, relBlk>>
    BY <1>0, <1>3 DEF FreeDataBlk, FreeSize, FreeFullPktBlk, ReleasingHeld, ReleaseInv
  <2>2. S2DBlk \in Blocks
    BY <2>1, S2DHolds
  <2>3. S2DBlk' = S2DBlk
    BY <2>1 DEF S2DBlk, readVars, Plus
  <2>4. \A b \in Blocks : b # S2DBlk => blk'[b] = blk[b]
    BY <1>0, <1>3, <2>1 DEF FreeDataBlk, FreeSize, FreeFullPktBlk
  <2>5. ReleaseInv'
    <3>1. CASE FreeDataBlk
      <4>1. /\ s2dPc' = "freeSize" /\ blk[S2DBlk] \in BlkRecord
            /\ blk'[S2DBlk] = [blk[S2DBlk] EXCEPT !.dataBlk = NoData]
        BY <1>0, <2>1, <2>2, <3>1 DEF FreeDataBlk
      <4>2. blk'[S2DBlk].dataBlk = NoData /\ blk'[S2DBlk].isFinal = blk[S2DBlk].isFinal
        BY <4>1 DEF BlkRecord
      <4>3. QED BY <2>1, <2>3, <4>1, <4>2 DEF ReleaseInv
    <3>2. CASE FreeSize
      <4>1. /\ s2dPc = "freeSize" /\ s2dPc' = "freePktBlk" /\ blk[S2DBlk] \in BlkRecord
            /\ blk'[S2DBlk] = [blk[S2DBlk] EXCEPT !.size = 0]
        BY <1>0, <2>1, <2>2, <3>2 DEF FreeSize
      <4>2. /\ blk'[S2DBlk].dataBlk = blk[S2DBlk].dataBlk /\ blk'[S2DBlk].size = 0
            /\ blk'[S2DBlk].isFinal = blk[S2DBlk].isFinal
        BY <4>1 DEF BlkRecord
      <4>3. QED BY <1>0, <2>1, <2>3, <4>1, <4>2 DEF ReleaseInv
    <3>3. CASE FreeFullPktBlk
      BY <1>0, <2>1, <2>3, <3>3 DEF FreeFullPktBlk, ReleaseInv
    <3>4. QED BY <1>3, <3>1, <3>2, <3>3
  <2>6. QED BY <2>1, <2>4, <2>5, BlockRelease
<1>4. CASE S2DNext
  BY <1>4, BlockS2DNext
<1>5. QED BY <1>1, <1>2, <1>3, <1>4 DEF S2D

LEMMA BlockNext == MaxLag < N /\ TypeInv /\ ChainInv /\ BlockInv /\ [Next]_vars => BlockInv'
<1> SUFFICES ASSUME MaxLag < N, TypeInv, ChainInv, BlockInv, [Next]_vars PROVE BlockInv'
  OBVIOUS
<1>0. TypeOK /\ ReadInv /\ Chained
  BY DEF TypeInv, BlockInv, ChainInv
<1>1. ASSUME NEW p \in Producers, Claim(p) \/ Finish(p) \/ Produce(p) PROVE BlockInv'
  BY <1>1, BlockClaim, BlockFinish, BlockProduce
<1>2. ASSUME NEW m \in Modules, GetNextFullMetaBlk(m) PROVE BlockInv'
  <2>1. UNCHANGED <<tail, blk, prodVars, s2dPc, relBlk, relData>> /\ S2DBlk' = S2DBlk
    BY <1>2 DEF GetNextFullMetaBlk, s2dVars, S2DBlk, Plus
  <2>2. QED BY <1>0, <1>2, <2>1, ReadGet, BlockOutside DEF BlockInv
<1>3. ASSUME NEW m \in Modules, Index(m) PROVE BlockInv'
  <2>1. PICK count \in 1 .. MaxInHand : ModuleMove(m, count)
    BY <1>3 DEF Index
  <2>2. m \in Modules \ {0} /\ count \in Nat
    BY <2>1, RingAssumption DEF ModuleMove
  <2>3. blkPtr'[0] = blkPtr[0]
    BY <1>0, <2>1, <2>2, RelType DEF ModuleMove, Move2NextMetaBlk, TypeOK
  <2>4. UNCHANGED <<tail, blk, prodVars, s2dPc, relBlk, relData>> /\ S2DBlk' = S2DBlk
    BY <2>1, <2>3 DEF ModuleMove, s2dVars, S2DBlk, Plus
  <2>5. QED BY <1>0, <2>1, <2>2, <2>4, ReadModuleMove, BlockOutside DEF BlockInv
<1>4. CASE S2D
  BY <1>0, <1>4, BlockS2D
<1>5. CASE UNCHANGED vars
  <2>1. UNCHANGED <<tail, blk, readVars, prodVars, s2dVars>>
    BY <1>5 DEF vars
  <2>2. S2DBlk' = S2DBlk /\ UNCHANGED <<relMoved, relBlk, s2dPc, relData>>
    BY <2>1 DEF S2DBlk, readVars, s2dVars, Plus
  <2>3. ReadInv'
    BY <1>0, <2>1, <2>2, ReadSame
  <2>4. QED BY <2>1, <2>2, <2>3, BlockOutside DEF BlockInv
<1>6. QED BY <1>1, <1>2, <1>3, <1>4, <1>5 DEF Next

-----------------------------------------------------------------------------
(***************************************************************************)
(* What a reader relies on.                                                *)
(***************************************************************************)
RingInv == TypeInv /\ ChainInv /\ BlockInv

LEMMA RingInvHolds == ASSUME MaxLag < N PROVE Spec => []RingInv
<1>1. Init => RingInv
  BY TypeInit, ChainInit, BlockInit DEF RingInv
<1>2. RingInv /\ [Next]_vars => RingInv'
  BY TypeNext, ChainNext, BlockNext DEF RingInv
<1>3. QED BY <1>1, <1>2, PTL DEF Spec

(* No thread lapped: a module that gets a block from GetNextMetaBlks finds *)
(* all of it there, however the capture threads, the other modules and     *)
(* S2D are interleaved.                                                    *)
THEOREM HeldBlksAreComplete == ASSUME MaxLag < N PROVE Spec => []HeldBlkIsComplete
<1>1. ASSUME RingInv PROVE HeldBlkIsComplete
  <2>0. TypeOK /\ ReadInv /\ BlkInv
    BY <1>1 DEF RingInv, TypeInv, BlockInv
  <2>1. ASSUME NEW m \in Modules, NEW b \in Held(m), b # relBlk PROVE Complete(b)
    <3>1. b \in Blocks /\ Rel(b) < Reach(m)
      BY <2>0, HeldIsInReach
    <3>2. blk[b].size # 0
      BY <2>0, <2>1, <3>1 DEF ReadInv
    <3>3. QED BY <2>0, <2>1, <3>1, <3>2 DEF BlkInv
  <2>2. QED BY <2>1 DEF HeldBlkIsComplete, Complete
<1>2. QED BY <1>1, RingInvHolds, PTL

(* Move2NextMetaBlk never refuses a module that passes as many blocks as   *)
(* it was given.                                                           *)
THEOREM MovesAreNeverRefused == ASSUME MaxLag < N PROVE Spec => []MoveNeverRefused
<1>1. ASSUME RingInv PROVE MoveNeverRefused
  <2> USE RingSize
  <2>0. TypeOK /\ ReadInv /\ 0 \in Modules
    BY <1>1, RelType DEF RingInv, TypeInv, BlockInv
  <2>1. ASSUME NEW m \in Modules, NEW n \in Nat, n <= Count(m), Start(m) = blkPtr[m]
        PROVE  MayMove(m, n)
    <3>1. Count(m) <= Dist(blkPtr[m], Limit(m)) /\ Dist(blkPtr[m], Limit(m)) \in 0 .. N-1
          /\ Count(m) \in Nat
      BY <2>0, <2>1, HandFits, DistType, RelType, CountType
    <3>2. n <= Dist(blkPtr[m], Limit(m))
      BY <2>1, <3>1
    <3>3. QED BY <3>2 DEF MayMove
  <2>2. ASSUME NEW m \in Modules PROVE Len(inHand[m]) \in Nat /\ Len(inHand[m]) <= Count(m)
    <3> DEFINE h == Len(inHand[m])
               k == Len(picked[m])
    <3>1. h \in Nat /\ k \in Nat /\ Count(m) = h + k
      BY <2>0, CountType DEF Count
    <3> HIDE DEF h, k
    <3>2. h <= Count(m)
      BY <3>1
    <3>3. QED BY <3>1, <3>2 DEF h
  <2>3. ASSUME NEW m \in Modules \ {0} PROVE MayMove(m, Len(inHand[m]))
    <3>1. m \in Modules /\ Start(m) = blkPtr[m]
      BY DEF Start
    <3>2. QED BY <2>1, <2>2, <3>1
  <2>4. ASSUME inHand[0] # <<>>, ~relMoved PROVE MayMove(0, 1)
    <3>1. Start(0) = blkPtr[0]
      BY <2>4 DEF Start, S2DBlk
    <3>2. Head(inHand[0]) \in Held(0)
      BY <2>0, <2>4, EmptySeq, HeadTailProperties DEF Held, Elems, TypeOK
    <3>3. Count(0) > 0 /\ Count(0) \in Nat
      BY <2>0, <3>2, HeldIsInReach, CountType
    <3>4. 1 \in Nat /\ 1 <= Count(0)
      BY <3>3
    <3>5. QED BY <2>0, <2>1, <3>1, <3>4
  <2>5. QED BY <2>3, <2>4 DEF MoveNeverRefused
<1>2. QED BY <1>1, RingInvHolds, PTL

(* The block a producer claims was given back entirely: the asserts of     *)
(* GetMeta4PktBlk, SendStopSignal and SendTimeoutSignal.                   *)
THEOREM ClaimedBlksAreClean == ASSUME MaxLag < N PROVE Spec => []ClaimedBlkIsClean
<1>1. ASSUME RingInv PROVE ClaimedBlkIsClean
  <2>1. ASSUME NEW p \in Producers, pc[p] \in {"open", "signal"} PROVE Clean(cur[p])
    BY <1>1, <2>1 DEF RingInv, BlockInv, ProdInv, Stage, Waiting, Mine
  <2>2. QED BY <2>1 DEF ClaimedBlkIsClean, Clean
<1>2. QED BY <1>1, RingInvHolds, PTL

(* Nobody but the producer touches its current block until it publishes    *)
(* it.                                                                     *)
THEOREM OpenBlksAreMine == ASSUME MaxLag < N PROVE Spec => []OpenBlkIsMine
<1>1. ASSUME RingInv PROVE OpenBlkIsMine
  BY <1>1 DEF RingInv, BlockInv, ProdInv, Mine, Alone, OpenBlkIsMine
<1>2. QED BY <1>1, RingInvHolds, PTL

(* The last assert of GetMeta4PktBlk holds as long as no thread is lapped: *)
(* the run that breaks it lets one be lapped.                              *)
THEOREM CurBlksAreOfDataBlk == ASSUME MaxLag < N PROVE Spec => []CurBlkIsOfDataBlk
<1>1. ASSUME RingInv PROVE CurBlkIsOfDataBlk
  BY <1>1 DEF RingInv, BlockInv, ProdInv, Mine, HasRoom, CurBlkIsOfDataBlk
<1>2. QED BY <1>1, RingInvHolds, PTL

(* IsRingEmpty answers yes only when S2D has, or has begun to release,     *)
(* every block that was published.                                         *)
THEOREM EmptyRingIsDrained == ASSUME MaxLag < N PROVE Spec => []EmptyMeansDrained
<1>1. ASSUME RingInv PROVE EmptyMeansDrained
  <2> USE RingSize
  <2>0. /\ TypeOK /\ Chained /\ BlockInv /\ 0 \in Modules /\ ReleasingHeld
    BY <1>1, RelType DEF RingInv, TypeInv, ChainInv
  <2>1. ASSUME IsRingEmpty, NEW b \in Blocks, blk[b].size # 0, b # relBlk
        PROVE  b \in Held(0)
    <3>1. Span = Moved
      <4>1. Occupied = 0
        BY <2>0, <2>1, DistSelf DEF IsRingEmpty, Occupied, TypeOK
      <4>2. QED BY <2>0, <4>1, RelChain DEF Moved
    <3>2. Rel(b) < Span /\ Rel(b) \in 0 .. N-1
      <4>1. Rel(b) \in 0 .. N-1 /\ Span \in 0 .. N-1
        BY <2>0, RelType
      <4>2. ~(Rel(b) >= Span)
        BY <2>0, <2>1 DEF BlockInv, BlkInv, Clean
      <4>3. QED BY <4>1, <4>2
    <3>3. relMoved /\ Rel(b) = 0
      BY <3>1, <3>2 DEF Moved
    <3>4. inHand[0] # <<>> /\ Head(inHand[0]) = S2DBlk /\ Rel(S2DBlk) = 0 /\ S2DBlk \in Blocks
      BY <2>0, <3>3, S2DHolds DEF ReleasingHeld
    <3>5. b = Head(inHand[0])
      BY <2>0, <3>3, <3>4, RelInjective
    <3>6. QED BY <2>0, <3>4, <3>5, EmptySeq, HeadTailProperties DEF Held, Elems, TypeOK
  <2>2. QED BY <2>1 DEF EmptyMeansDrained
<1>2. QED BY <1>1, RingInvHolds, PTL

(* Blocks are written by the producer they belong to and by S2D, which     *)
(* writes the block it is at.                                              *)
LEMMA Writers ==
  ASSUME TypeInv, Chained, BlockInv, [Next]_vars, NEW b \in Blocks, blk'[b] # blk[b]
  PROVE  (\E p \in Producers : b = cur[p]) \/ (b = S2DBlk /\ inHand[0] # <<>>)
<1>0. /\ blk \in [Blocks -> BlkRecord] /\ cur \in [Producers -> Blocks \cup {NoBlk}]
  BY DEF TypeInv, TypeOK
<1>1. ASSUME NEW p \in Producers, Claim(p) \/ Finish(p) \/ Produce(p) PROVE b = cur[p]
  BY <1>0, <1>1
     DEF Claim, ReadTail, CheckLimit, CheckSize, CasFail, CasTail, Finish, OpenMetaBlk,
         FinalMetaBlk, DoneMetaBlk, FillSignal, PublishSignal, Produce,
         WaitNextEmptyPktBlk, NextMeta, TurnOver, SendSignal, MarkFinal
<1>2. ASSUME NEW m \in Modules, GetNextFullMetaBlk(m) \/ Index(m) PROVE FALSE
  BY <1>2 DEF GetNextFullMetaBlk, Index, ModuleMove
<1>3. CASE S2D
  <2>1. CASE S2DMoveFirst \/ S2DMoveLast \/ FreeFullPktBlk \/ S2DNext
    BY <2>1 DEF S2DMoveFirst, S2DMoveLast, FreeFullPktBlk, S2DNext, S2DMove
  <2>2. CASE FreeIsFinal
    <3>1. inHand[0] # <<>> /\ blk' = [blk EXCEPT ![Head(inHand[0])].isFinal = FALSE]
      BY <2>2 DEF FreeIsFinal
    <3>2. Head(inHand[0]) = S2DBlk
      BY <3>1, S2DHolds DEF TypeInv
    <3>3. QED BY <1>0, <3>1, <3>2
  <2>3. CASE FreeDataBlk \/ FreeSize
    <3>1. s2dPc # "idle" /\ \A c \in Blocks : c # relBlk => blk'[c] = blk[c]
      BY <1>0, <2>3 DEF FreeDataBlk, FreeSize
    <3>2. relBlk = S2DBlk /\ inHand[0] # <<>>
      BY <3>1 DEF TypeInv, ReleasingHeld, BlockInv, ReleaseInv
    <3>3. QED BY <3>1, <3>2
  <2>4. QED BY <1>3, <2>1, <2>2, <2>3 DEF S2D
<1>4. CASE UNCHANGED vars
  BY <1>4 DEF vars
<1>5. QED BY <1>1, <1>2, <1>3, <1>4 DEF Next

(* S2D has a block in hand only when every other module is past it, so     *)
(* that what those hold is not being released.                             *)
LEMMA ModulesArePast ==
  ASSUME TypeOK, Chained, ReadInv, inHand[0] # <<>>, NEW m \in Modules \ {0}
  PROVE  Rel(blkPtr[m]) >= 1
<1> USE RingSize
<1>1. 0 \in Modules /\ Rel(S2DBlk) = 0 /\ S2DBlk \in Blocks /\ Start(0) = S2DBlk
  BY RelType DEF Start
<1>2. Limit(0) = blkPtr[K-1] /\ K - 1 \in Modules /\ 1 <= m /\ m <= K - 1
  BY RingAssumption DEF Limit, Dep, Modules
<1>3. Count(0) > 0 /\ Count(0) \in Nat
  <2>1. Head(inHand[0]) \in Held(0)
    BY <1>1, EmptySeq, HeadTailProperties DEF Held, Elems, TypeOK
  <2>2. QED BY <1>1, <2>1, HeldIsInReach, CountType
<1>4. Rel(blkPtr[K-1]) >= 1
  <2>1. Reach(0) = 0 + Count(0) /\ Reach(0) <= Rel(blkPtr[K-1])
    BY <1>1, <1>2 DEF Reach, ReadInv
  <2>2. Rel(blkPtr[K-1]) \in 0 .. N-1
    BY <1>2, RelType DEF TypeOK
  <2>3. QED BY <1>3, <2>1, <2>2
<1>5. Ahead(K-1) <= Ahead(m)
  BY <1>2 DEF Chained
<1>6. /\ Rel(blkPtr[m]) = Ahead(m) + Moved /\ Rel(blkPtr[K-1]) = Ahead(K-1) + Moved
      /\ Ahead(m) \in 0 .. N-2 /\ Ahead(K-1) \in 0 .. N-2
  BY <1>2, RelChain
<1>7. QED BY <1>4, <1>5, <1>6 DEF Moved

LEMMA HeldIsPublished ==
  ASSUME TypeInv, Chained, BlockInv, NEW m \in Modules \ {0}, NEW b \in Held(m)
  PROVE  /\ b \in Blocks /\ b # relBlk /\ blk[b].size # 0
         /\ inHand[0] # <<>> => b # S2DBlk
<1> USE RingSize
<1>0. TypeOK /\ ReadInv /\ m \in Modules
  BY DEF TypeInv, BlockInv
<1>1. b \in Blocks /\ Rel(Start(m)) <= Rel(b) /\ Rel(b) < Reach(m) /\ Start(m) = blkPtr[m]
  BY <1>0, HeldIsInReach DEF Start
<1>2. ASSUME inHand[0] # <<>> PROVE b # S2DBlk
  <2>1. Rel(blkPtr[m]) >= 1 /\ Rel(S2DBlk) = 0
    BY <1>0, <1>2, ModulesArePast, RelType
  <2>2. Rel(b) \in 0 .. N-1 /\ Rel(blkPtr[m]) \in 0 .. N-1
    BY <1>0, <1>1, RelType
  <2>3. Rel(b) >= 1
    BY <1>1, <2>1, <2>2
  <2>4. QED BY <2>1, <2>3
<1>3. b # relBlk
  BY <1>1, <1>2, RingAssumption DEF TypeInv, ReleasingHeld, BlockInv, ReleaseInv
<1>4. blk[b].size # 0
  BY <1>0, <1>1, <1>3 DEF ReadInv
<1>5. QED BY <1>1, <1>2, <1>3, <1>4

(* What an indexing module reads in a block it holds does not change under *)
(* it: producers are done with the block and S2D is behind the module.     *)
THEOREM HeldBlksAreStable == ASSUME MaxLag < N PROVE Spec => HeldBlkIsStable
<1>1. ASSUME RingInv, [Next]_vars, NEW m \in Modules \ {0}, NEW b \in Held(m)
      PROVE  blk'[b] = blk[b]
  <2>1. TypeInv /\ Chained /\ BlockInv
    BY <1>1 DEF RingInv, ChainInv
  <2>2. b \in Blocks /\ blk[b].size # 0 /\ (inHand[0] # <<>> => b # S2DBlk)
    BY <2>1, HeldIsPublished
  <2>3. \A p \in Producers : b # cur[p]
    BY <2>1, <2>2, RingAssumption DEF BlockInv, ProdInv, Alone
  <2>4. QED BY <1>1, <2>1, <2>2, <2>3, Writers
<1>2. RingInv /\ [Next]_vars
      => [\A m \in Modules \ {0} : \A b \in Held(m) : b \in Held(m)' => blk'[b] = blk[b]]_vars
  BY <1>1
<1>3. QED BY <1>2, RingInvHolds, PTL DEF Spec, HeldBlkIsStable

-----------------------------------------------------------------------------
(***************************************************************************)
(* Where the data blocks are.                                              *)
(***************************************************************************)
LEMMA DataInit == Init => DataInv
<1> SUFFICES ASSUME Init PROVE DataInv
  OBVIOUS
<1>1. \A d \in DataBlks : d # NoData /\ d \in freeData
  BY RingAssumption DEF Init
<1>2. ASSUME NEW d \in DataBlks PROVE DataBlkOk(d)
  <2>1. /\ \A b \in Blocks : ~Names(b, d)
        /\ \A p \in Producers : ~Filling(p, d)
        /\ ~Owed(d)
    BY <1>1 DEF Init, Names, Filling, Owed, EmptyBlk
  <2>2. QED BY <1>1, <2>1 DEF DataBlkOk, FreeIsFree, NotLost, FilledByOne, OwedByOne, FinalIsLast, Final
<1>3. QED BY <1>2 DEF DataInv, Init

(* A step that moves no data block and begins no work on one.              *)
LEMMA DataSame ==
  ASSUME DataInv, UNCHANGED <<freeData, data, relData, relBlk>>, S2DBlk' = S2DBlk,
         s2dPc' # "freed" <=> s2dPc # "freed",
         \A b \in Blocks :
           /\ blk'[b].dataBlk = blk[b].dataBlk
           /\ blk[b].dataBlk # NoData => (blk'[b].isFinal <=> blk[b].isFinal),
         \A p \in Producers :
           /\ Opening(p)' => Opening(p) /\ cur'[p] = cur[p]
           /\ pc[p] = "final" => pc'[p] = "final" /\ cur'[p] = cur[p]
  PROVE  DataInv'
<1>1. \A b : Rel(b)' = Rel(b)
  BY DEF Rel, Dist
<1>2. ASSUME NEW d \in DataBlks PROVE DataBlkOk(d)'
  <2>1. /\ \A p \in Producers : Filling(p, d)' <=> Filling(p, d)
        /\ Owed(d)' <=> Owed(d)
        /\ \A b \in Blocks : (Names(b, d)' <=> Names(b, d)) /\ (Final(b, d)' <=> Final(b, d))
    BY RingAssumption DEF Filling, Owed, Names, Final
  <2>2. DataBlkOk(d)
    BY DEF DataInv
  <2>3. FreeIsFree(d)' /\ NotLost(d)' /\ OwedByOne(d)'
    BY <2>1, <2>2 DEF DataBlkOk, FreeIsFree, NotLost, OwedByOne
  <2>4. FinalIsLast(d)'
    BY <1>1, <2>1, <2>2 DEF DataBlkOk, FinalIsLast
  <2>5. \A p \in Producers : FilledByOne(p, d)'
    BY <1>1, <2>1, <2>2 DEF DataBlkOk, FilledByOne
  <2>6. QED BY <2>3, <2>4, <2>5 DEF DataBlkOk
<1>3. QED BY <1>2 DEF DataInv

LEMMA DataProduce ==
  ASSUME TypeInv, BlockInv, DataInv, NEW p \in Producers, Produce(p)
  PROVE  DataInv'
<1>0. /\ pc \in [Producers -> PcLabels] /\ job \in [Producers -> {"data"} \cup Signals]
      /\ data \in [Producers -> DataBlks \cup {NoData}] /\ freeData \subseteq DataBlks
      /\ cur \in [Producers -> Blocks \cup {NoBlk}] /\ blk \in [Blocks -> BlkRecord]
      /\ Stage(p) /\ (cur[p] # NoBlk => Alone(p) /\ Mine(p))
      /\ \A d \in DataBlks : d # NoData /\ DataBlkOk(d)
  BY RingAssumption DEF TypeInv, TypeOK, BlockInv, ProdInv, DataInv
<1>r. ASSUME UNCHANGED <<readVars, s2dVars>>
      PROVE  /\ S2DBlk' = S2DBlk /\ (\A b : Rel(b)' = Rel(b))
             /\ UNCHANGED <<relData, relBlk, s2dPc>>
  BY <1>r DEF S2DBlk, Rel, Dist, Plus, readVars, s2dVars
<1>1. CASE WaitNextEmptyPktBlk(p)
  <2>1. PICK e \in freeData : /\ e[1] = p /\ freeData' = freeData \ {e}
                              /\ data' = [data EXCEPT ![p] = e]
    BY <1>1 DEF WaitNextEmptyPktBlk
  <2>2. /\ pc[p] = "work" /\ data[p] = NoData /\ UNCHANGED <<blk, pc, cur, readVars, s2dVars>>
    BY <1>1 DEF WaitNextEmptyPktBlk
  <2>3. (\A b : Rel(b)' = Rel(b)) /\ UNCHANGED <<relData, relBlk, s2dPc>>
    BY <1>r, <2>2
  <2>4. data'[p] = e /\ \A q \in Producers \ {p} : data'[q] = data[q]
    BY <1>0, <2>1
  <2>5. \A q \in Producers : data'[q] # NoData => data'[q][1] = q
    BY <2>1, <2>4 DEF DataInv
  <2>6. ASSUME NEW d \in DataBlks PROVE DataBlkOk(d)'
    <3>1. /\ Owed(d)' <=> Owed(d)
          /\ \A b \in Blocks : (Names(b, d)' <=> Names(b, d)) /\ (Final(b, d)' <=> Final(b, d))
          /\ \A q \in Producers : Opening(q)' <=> Opening(q)
          /\ \A q \in Producers : q # p => (Filling(q, d)' <=> Filling(q, d))
          /\ Filling(p, d)' <=> d = e
          /\ ~Filling(p, d)
      BY <1>0, <2>2, <2>3, <2>4 DEF Owed, Names, Final, Opening, Filling
    <3>2. DataBlkOk(d) /\ (d = e => FreeIsFree(e) /\ e \in freeData)
      BY <1>0, <2>1 DEF DataBlkOk
    <3>3. FreeIsFree(d)' /\ NotLost(d)' /\ OwedByOne(d)' /\ FinalIsLast(d)'
      BY <2>1, <2>3, <3>1, <3>2 DEF DataBlkOk, FreeIsFree, NotLost, OwedByOne, FinalIsLast
    <3>4. ASSUME NEW q \in Producers PROVE FilledByOne(q, d)'
      <4>1. CASE q = p
        BY <3>1, <3>2, <4>1 DEF FilledByOne, FreeIsFree, Final
      <4>2. CASE q # p
        BY <2>2, <2>3, <3>1, <3>2, <4>2 DEF FilledByOne, DataBlkOk
      <4>3. QED BY <4>1, <4>2
    <3>5. QED BY <3>3, <3>4 DEF DataBlkOk
  <2>7. QED BY <2>5, <2>6 DEF DataInv
<1>2. CASE NextMeta(p)
  <2>1. /\ UNCHANGED <<freeData, pc, cur, data, readVars, s2dVars>>
        /\ blk' = [blk EXCEPT ![cur[p]].metas = used[p] + 1]
    BY <1>2 DEF NextMeta
  <2>2. \A b \in Blocks : blk'[b].dataBlk = blk[b].dataBlk /\ blk'[b].isFinal = blk[b].isFinal
    BY <1>0, <2>1 DEF BlkRecord
  <2>3. \A q \in Producers : Opening(q)' <=> Opening(q)
    BY <2>1 DEF Opening
  <2>4. QED BY <1>r, <2>1, <2>2, <2>3, DataSame
<1>3. CASE TurnOver(p)
  <2>1. /\ pc[p] = "work" /\ pc' = [pc EXCEPT ![p] = "readTail"] /\ DoneMetaBlk(p)
        /\ UNCHANGED <<freeData, data, readVars, s2dVars>>
    BY <1>3 DEF TurnOver, Goto
  <2>2. \A b \in Blocks : blk'[b].dataBlk = blk[b].dataBlk /\ blk'[b].isFinal = blk[b].isFinal
    BY <1>0, <2>1 DEF DoneMetaBlk, BlkRecord
  <2>3. \A q \in Producers : q # p => cur'[q] = cur[q] /\ pc'[q] = pc[q]
    BY <1>0, <2>1 DEF DoneMetaBlk
  <2>4. pc'[p] = "readTail"
    BY <1>0, <2>1
  <2>5. \A q \in Producers : (Opening(q)' => Opening(q) /\ q # p)
    BY <2>3, <2>4 DEF Opening
  <2>6. QED BY <1>r, <2>1, <2>2, <2>3, <2>5, DataSame
<1>4. ASSUME NEW sig \in Signals, SendSignal(p, sig) PROVE DataInv'
  <2>1. /\ pc[p] = "work" /\ cur[p] = NoBlk /\ pc' = [pc EXCEPT ![p] = "readTail"]
        /\ UNCHANGED <<blk, cur, freeData, data, readVars, s2dVars>>
    BY <1>4 DEF SendSignal, Goto
  <2>2. \A q \in Producers : /\ Opening(q)' => Opening(q)
                             /\ pc[q] = "final" => pc'[q] = "final"
    BY <1>0, <2>1 DEF Opening
  <2>3. QED BY <1>r, <2>1, <2>2, DataSame
<1>5. CASE MarkFinal(p)
  <2>1. /\ pc[p] = "work" /\ cur[p] # NoBlk /\ cur[p] \in Blocks
        /\ pc' = [pc EXCEPT ![p] = "final"]
        /\ blk' = [blk EXCEPT ![cur[p]].isFinal = TRUE]
        /\ UNCHANGED <<freeData, cur, data, readVars, s2dVars>>
    BY <1>0, <1>5 DEF MarkFinal, Goto
  <2>2. (\A b : Rel(b)' = Rel(b)) /\ UNCHANGED <<relData, relBlk, s2dPc>>
    BY <1>r, <2>1
  <2>3. blk[cur[p]].dataBlk = data[p] /\ data[p] # NoData /\ data[p] \in DataBlks
    BY <1>0, <2>1 DEF Mine
  <2>4. /\ \A b \in Blocks : blk'[b].dataBlk = blk[b].dataBlk
        /\ \A b \in Blocks : b # cur[p] => blk'[b] = blk[b]
        /\ blk'[cur[p]].isFinal
    BY <1>0, <2>1 DEF BlkRecord
  <2>5. pc'[p] = "final" /\ \A q \in Producers : q # p => pc'[q] = pc[q]
    BY <1>0, <2>1
  <2>6. \A q \in Producers : Opening(q)' <=> Opening(q)
    BY <2>1, <2>5 DEF Opening
  <2>7. ASSUME NEW d \in DataBlks PROVE DataBlkOk(d)'
    <3>1. /\ Owed(d)' <=> Owed(d)
          /\ \A q \in Producers : Filling(q, d)' <=> Filling(q, d)
          /\ \A b \in Blocks : /\ Names(b, d)' <=> Names(b, d)
                               /\ Final(b, d) => Final(b, d)'
                               /\ Final(b, d)' => Final(b, d) \/ (b = cur[p] /\ d = data[p])
      BY <2>1, <2>2, <2>3, <2>4 DEF Owed, Names, Final, Filling
    <3>2. DataBlkOk(d)
      BY <1>0
    <3>3. FreeIsFree(d)' /\ NotLost(d)' /\ OwedByOne(d)'
      BY <2>1, <2>2, <3>1, <3>2 DEF DataBlkOk, FreeIsFree, NotLost, OwedByOne
    <3>4. d = data[p] => Opening(p) /\ Filling(p, d) /\ FilledByOne(p, d)
      BY <2>1, <3>2 DEF Opening, Filling, DataBlkOk
    <3>5. ASSUME NEW b \in Blocks, NEW c \in Blocks, Final(c, d)', Names(b, d)'
          PROVE  Rel(b)' <= Rel(c)'
      <4>1. CASE Final(c, d)
        BY <2>2, <3>1, <3>2, <3>5, <4>1 DEF DataBlkOk, FinalIsLast
      <4>2. CASE c = cur[p] /\ d = data[p]
        BY <2>2, <3>1, <3>4, <3>5, <4>2 DEF FilledByOne
      <4>3. QED BY <3>1, <3>5, <4>1, <4>2
    <3>6. ASSUME NEW q \in Producers, Filling(q, d)' PROVE FilledByOne(q, d)'
      <4>1. d = data[q] /\ d = data'[q] /\ FilledByOne(q, d) /\ Filling(q, d)
        BY <2>1, <3>2, <3>6 DEF Filling, DataBlkOk
      <4>2. d = data[p] => q = p
        BY <1>0, <2>3, <4>1 DEF DataInv
      <4>3. ASSUME NEW b \in Blocks, Final(b, d)' PROVE b = cur'[q] /\ pc'[q] = "final"
        BY <2>1, <2>5, <3>1, <4>1, <4>2, <4>3 DEF FilledByOne
      <4>4. QED BY <2>1, <2>2, <2>6, <3>1, <4>1, <4>3 DEF FilledByOne
    <3>7. \A q \in Producers : FilledByOne(q, d)'
      BY <3>6 DEF FilledByOne
    <3>8. QED BY <3>3, <3>5, <3>7 DEF DataBlkOk, FinalIsLast
  <2>8. QED BY <2>1, <2>7 DEF DataInv
<1>6. QED BY <1>1, <1>2, <1>3, <1>4, <1>5 DEF Produce

LEMMA DataFinish ==
  ASSUME TypeInv, BlockInv, DataInv, NEW p \in Producers, Finish(p)
  PROVE  DataInv'
<1>0. /\ pc \in [Producers -> PcLabels] /\ job \in [Producers -> {"data"} \cup Signals]
      /\ data \in [Producers -> DataBlks \cup {NoData}]
      /\ cur \in [Producers -> Blocks \cup {NoBlk}] /\ blk \in [Blocks -> BlkRecord]
      /\ Stage(p) /\ (cur[p] # NoBlk => Alone(p) /\ Mine(p))
      /\ (pc[p] \in {"open", "final", "signal", "sent"} => cur[p] # NoBlk /\ cur[p] \in Blocks)
      /\ \A d \in DataBlks : d # NoData /\ DataBlkOk(d)
  BY RingAssumption DEF TypeInv, TypeOK, BlockInv, ProdInv, DataInv, Stage, Waiting
<1>r. ASSUME UNCHANGED <<readVars, s2dVars>>
      PROVE  /\ S2DBlk' = S2DBlk /\ (\A b : Rel(b)' = Rel(b))
             /\ UNCHANGED <<relData, relBlk, s2dPc>>
  BY <1>r DEF S2DBlk, Rel, Dist, Plus, readVars, s2dVars
<1>1. CASE OpenMetaBlk(p)
  <2>1. /\ pc[p] = "open" /\ pc' = [pc EXCEPT ![p] = "work"]
        /\ blk' = [blk EXCEPT ![cur[p]] =
               [@ EXCEPT !.dataBlk = data[p], !.metas = 1, !.kind = "packet"]]
        /\ UNCHANGED <<freeData, cur, data, readVars, s2dVars>>
        /\ cur[p] \in Blocks /\ cur[p] # NoBlk
    BY <1>0, <1>1 DEF OpenMetaBlk, Goto
  <2>2. (\A b : Rel(b)' = Rel(b)) /\ UNCHANGED <<relData, relBlk, s2dPc>>
    BY <1>r, <2>1
  <2>3. /\ blk[cur[p]].dataBlk = NoData /\ ~blk[cur[p]].isFinal
        /\ data[p] # NoData /\ data[p] \in DataBlks
    BY <1>0, <2>1 DEF Mine, Clean, Stage, Waiting
  <2>4. /\ blk'[cur[p]].dataBlk = data[p] /\ blk'[cur[p]].isFinal = blk[cur[p]].isFinal
        /\ \A b \in Blocks : b # cur[p] => blk'[b] = blk[b]
    BY <1>0, <2>1 DEF BlkRecord
  <2>5. pc'[p] = "work" /\ \A q \in Producers : q # p => pc'[q] = pc[q]
    BY <1>0, <2>1
  <2>6. \A q \in Producers : Opening(q)' <=> Opening(q)
    BY <2>1, <2>5 DEF Opening
  <2>7. ASSUME NEW d \in DataBlks PROVE DataBlkOk(d)'
    <3>1. /\ Owed(d)' <=> Owed(d)
          /\ \A q \in Producers : Filling(q, d)' <=> Filling(q, d)
          /\ \A b \in Blocks : /\ Final(b, d)' <=> Final(b, d)
                               /\ Names(b, d) => Names(b, d)'
                               /\ Names(b, d)' => Names(b, d) \/ (b = cur[p] /\ d = data[p])
      BY <1>0, <2>1, <2>2, <2>3, <2>4 DEF Owed, Names, Final, Filling
    <3>2. DataBlkOk(d)
      BY <1>0
    <3>3. d = data[p] => Opening(p) /\ Filling(p, d) /\ FilledByOne(p, d)
      BY <2>1, <3>2 DEF Opening, Filling, DataBlkOk
    <3>4. FreeIsFree(d)' /\ NotLost(d)' /\ OwedByOne(d)'
      <4>1. FreeIsFree(d) /\ NotLost(d) /\ OwedByOne(d)
        BY <3>2 DEF DataBlkOk
      <4>2. FreeIsFree(d)'
        BY <2>1, <3>1, <3>3, <4>1 DEF FreeIsFree
      <4>3. NotLost(d)'
        BY <2>1, <3>1, <4>1 DEF NotLost
      <4>4. OwedByOne(d)'
        BY <2>2, <3>1, <3>3, <4>1 DEF OwedByOne, FilledByOne
      <4>5. QED BY <4>2, <4>3, <4>4
    <3>5. ASSUME NEW b \in Blocks, NEW c \in Blocks, Final(c, d)', Names(b, d)'
          PROVE  Rel(b)' <= Rel(c)'
      <4>1. CASE Names(b, d)
        BY <2>2, <3>1, <3>2, <3>5, <4>1 DEF DataBlkOk, FinalIsLast
      <4>2. CASE b = cur[p] /\ d = data[p]
        BY <2>1, <3>1, <3>3, <3>5, <4>2 DEF FilledByOne
      <4>3. QED BY <3>1, <3>5, <4>1, <4>2
    <3>6. ASSUME NEW q \in Producers, Filling(q, d)' PROVE FilledByOne(q, d)'
      <4>1. d = data[q] /\ FilledByOne(q, d) /\ Filling(q, d)
        BY <2>1, <3>2, <3>6 DEF Filling, DataBlkOk
      <4>2. d = data[p] => q = p
        BY <1>0, <2>3, <4>1 DEF DataInv
      <4>3. ASSUME NEW b \in Blocks, Final(b, d)' PROVE b = cur'[q] /\ pc'[q] = "final"
        <5>1. Final(b, d) /\ b = cur[q] /\ pc[q] = "final"
          BY <3>1, <4>1, <4>3 DEF FilledByOne
        <5>2. QED BY <2>1, <2>5, <5>1
      <4>4. ASSUME Opening(q)', NEW b \in Blocks, NEW c \in Blocks, c = cur'[q], Names(b, d)'
            PROVE  Rel(b)' <= Rel(c)'
        <5>1. CASE Names(b, d)
          BY <2>1, <2>2, <2>6, <4>1, <4>4, <5>1 DEF FilledByOne
        <5>2. CASE b = cur[p] /\ d = data[p]
          <6>1. b = c
            BY <2>1, <4>2, <4>4, <5>2
          <6>2. Rel(b) \in 0 .. N-1
            BY RelType DEF TypeInv
          <6>3. QED BY <2>2, <6>1, <6>2, RingSize
        <5>3. QED BY <3>1, <4>4, <5>1, <5>2
      <4>5. ~Owed(d)'
        BY <3>1, <4>1 DEF FilledByOne
      <4>6. QED BY <4>3, <4>4, <4>5 DEF FilledByOne
    <3>7. \A q \in Producers : FilledByOne(q, d)'
      BY <3>6 DEF FilledByOne
    <3>8. QED BY <3>4, <3>5, <3>7 DEF DataBlkOk, FinalIsLast
  <2>8. QED BY <2>1, <2>7 DEF DataInv
<1>2. CASE FinalMetaBlk(p)
  <2>1. /\ pc[p] = "final" /\ pc' = [pc EXCEPT ![p] = "work"] /\ DoneMetaBlk(p)
        /\ data' = [data EXCEPT ![p] = NoData]
        /\ UNCHANGED <<freeData, readVars, s2dVars>>
        /\ cur[p] \in Blocks /\ cur[p] # NoBlk
    BY <1>0, <1>2 DEF FinalMetaBlk, Goto
  <2>2. (\A b : Rel(b)' = Rel(b)) /\ UNCHANGED <<relData, relBlk, s2dPc>>
    BY <1>r, <2>1
  <2>3. /\ blk[cur[p]].dataBlk = data[p] /\ blk[cur[p]].isFinal
        /\ data[p] # NoData /\ data[p] \in DataBlks
    BY <1>0, <2>1 DEF Mine
  <2>4. \A b \in Blocks : blk'[b].dataBlk = blk[b].dataBlk /\ blk'[b].isFinal = blk[b].isFinal
    BY <1>0, <2>1 DEF DoneMetaBlk, BlkRecord
  <2>5. \A q \in Producers : q # p => cur'[q] = cur[q] /\ pc'[q] = pc[q] /\ data'[q] = data[q]
    BY <1>0, <2>1 DEF DoneMetaBlk
  <2>6. data'[p] = NoData
    BY <1>0, <2>1
  <2>7. ASSUME NEW d \in DataBlks PROVE DataBlkOk(d)'
    <3>1. /\ Owed(d)' <=> Owed(d)
          /\ \A b \in Blocks : (Names(b, d)' <=> Names(b, d)) /\ (Final(b, d)' <=> Final(b, d))
          /\ \A q \in Producers : q # p => (Opening(q)' <=> Opening(q))
          /\ \A q \in Producers : Filling(q, d)' <=> Filling(q, d) /\ q # p
          /\ Filling(p, d) => Final(cur[p], d)
      BY <1>0, <2>2, <2>3, <2>4, <2>5, <2>6 DEF Owed, Names, Final, Opening, Filling
    <3>2. DataBlkOk(d)
      BY <1>0
    <3>3. FreeIsFree(d)' /\ OwedByOne(d)' /\ FinalIsLast(d)'
      BY <2>1, <2>2, <3>1, <3>2 DEF DataBlkOk, FreeIsFree, OwedByOne, FinalIsLast
    <3>4. NotLost(d)'
      BY <2>1, <3>1, <3>2 DEF DataBlkOk, NotLost
    <3>5. ASSUME NEW q \in Producers PROVE FilledByOne(q, d)'
      <4>1. FilledByOne(q, d)
        BY <3>2 DEF DataBlkOk
      <4>2. CASE q = p
        BY <3>1, <4>2 DEF FilledByOne
      <4>3. CASE q # p
        BY <2>2, <2>5, <3>1, <4>1, <4>3 DEF FilledByOne
      <4>4. QED BY <4>2, <4>3
    <3>6. QED BY <3>3, <3>4, <3>5 DEF DataBlkOk
  <2>8. \A q \in Producers : data'[q] # NoData => data'[q][1] = q
    BY <2>5, <2>6 DEF DataInv
  <2>9. QED BY <2>7, <2>8 DEF DataInv
<1>3. CASE FillSignal(p)
  <2>1. /\ pc[p] = "signal" /\ pc' = [pc EXCEPT ![p] = "sent"]
        /\ blk' = [blk EXCEPT ![cur[p]] =
               [@ EXCEPT !.metas = 1, !.kind = job[p], !.isFinal = TRUE]]
        /\ UNCHANGED <<freeData, cur, data, readVars, s2dVars>>
        /\ cur[p] \in Blocks /\ blk[cur[p]].dataBlk = NoData
    BY <1>0, <1>3 DEF FillSignal, Goto, Mine, Clean
  <2>2. \A b \in Blocks : /\ blk'[b].dataBlk = blk[b].dataBlk
                          /\ blk[b].dataBlk # NoData => blk'[b].isFinal = blk[b].isFinal
    BY <1>0, <2>1 DEF BlkRecord
  <2>3. \A q \in Producers : /\ Opening(q)' => Opening(q)
                             /\ pc[q] = "final" => pc'[q] = "final"
    BY <1>0, <2>1 DEF Opening
  <2>4. QED BY <1>r, <2>1, <2>2, <2>3, DataSame
<1>4. CASE PublishSignal(p)
  <2>1. /\ pc[p] = "sent" /\ pc' = [pc EXCEPT ![p] = "work"]
        /\ blk' = [blk EXCEPT ![cur[p]].size = 1]
        /\ cur' = [cur EXCEPT ![p] = NoBlk]
        /\ UNCHANGED <<freeData, data, readVars, s2dVars>>
    BY <1>4 DEF PublishSignal, Goto
  <2>2. \A b \in Blocks : blk'[b].dataBlk = blk[b].dataBlk /\ blk'[b].isFinal = blk[b].isFinal
    BY <1>0, <2>1 DEF BlkRecord
  <2>3. \A q \in Producers : q # p => cur'[q] = cur[q] /\ pc'[q] = pc[q]
    BY <1>0, <2>1
  <2>4. cur'[p] = NoBlk
    BY <1>0, <2>1
  <2>5. \A q \in Producers : (Opening(q)' => Opening(q) /\ q # p)
    BY <2>3, <2>4 DEF Opening
  <2>6. QED BY <1>r, <2>1, <2>2, <2>3, <2>5, DataSame
<1>5. QED BY <1>1, <1>2, <1>3, <1>4 DEF Finish

LEMMA DataClaim ==
  ASSUME TypeInv, BlockInv, DataInv, NEW p \in Producers, Claim(p)
  PROVE  DataInv'
<1>0. /\ pc \in [Producers -> PcLabels] /\ cur \in [Producers -> Blocks \cup {NoBlk}]
      /\ pc[p] \in Waiting /\ TypeOK /\ tail \in Blocks
      /\ UNCHANGED <<blk, freeData, data, readVars, s2dVars>>
      /\ S2DBlk' = S2DBlk /\ (\A b : Rel(b)' = Rel(b)) /\ UNCHANGED <<relData, relBlk, s2dPc>>
      /\ \A q \in Producers : q # p => pc'[q] = pc[q] /\ cur'[q] = cur[q]
  BY DEF TypeInv, TypeOK, Claim, ReadTail, CheckLimit, CheckSize, CasFail, CasTail, Goto,
         Waiting, readVars, s2dVars, S2DBlk, Rel, Dist, Plus
<1>1. CASE CasTail(p)
  <2>1. cur'[p] = tail /\ pc'[p] \in {"open", "signal"}
    BY <1>0, <1>1 DEF CasTail, Goto
  <2>2. ASSUME NEW d \in DataBlks PROVE DataBlkOk(d)'
    <3>1. /\ \A q \in Producers : Filling(q, d)' <=> Filling(q, d)
          /\ Owed(d)' <=> Owed(d)
          /\ \A b \in Blocks : (Names(b, d)' <=> Names(b, d)) /\ (Final(b, d)' <=> Final(b, d))
          /\ \A q \in Producers : q # p => (Opening(q)' <=> Opening(q))
      BY <1>0 DEF Filling, Owed, Names, Final, Opening
    <3>2. DataBlkOk(d) /\ d # NoData
      BY RingAssumption DEF DataInv
    <3>3. FreeIsFree(d)' /\ NotLost(d)' /\ OwedByOne(d)' /\ FinalIsLast(d)'
      BY <1>0, <3>1, <3>2 DEF DataBlkOk, FreeIsFree, NotLost, OwedByOne, FinalIsLast
    <3>4. ASSUME NEW q \in Producers, Filling(q, d)' PROVE FilledByOne(q, d)'
      <4>1. FilledByOne(q, d) /\ Filling(q, d)
        BY <3>1, <3>2, <3>4 DEF DataBlkOk
      <4>2. CASE q # p
        BY <1>0, <3>1, <4>1, <4>2 DEF FilledByOne
      <4>3. CASE q = p
        <5>1. ~Owed(d)' /\ \A b \in Blocks : ~Final(b, d)'
          BY <1>0, <3>1, <4>1, <4>3 DEF FilledByOne, Waiting
        <5>2. ASSUME NEW b \in Blocks, Names(b, d)' PROVE Rel(b)' <= Rel(tail)
          <6>1. ~Clean(b)
            BY <3>1, <3>2, <5>2 DEF Names, Clean
          <6>2. Rel(b) \in 0 .. N-1 /\ Span \in 0 .. N-1 /\ ~(Rel(b) >= Span)
            BY <1>0, <6>1, RelType DEF BlockInv, BlkInv
          <6>3. QED BY <1>0, <6>2, RingSize DEF Span
        <5>3. \A c \in Blocks : c = cur'[q] => Rel(c)' = Rel(tail)
          BY <1>0, <2>1, <4>3
        <5>4. QED BY <5>1, <5>2, <5>3 DEF FilledByOne
      <4>4. QED BY <4>2, <4>3
    <3>5. \A q \in Producers : FilledByOne(q, d)'
      BY <3>4 DEF FilledByOne
    <3>6. QED BY <3>3, <3>5 DEF DataBlkOk
  <2>3. QED BY <1>0, <2>2 DEF DataInv
<1>2. CASE ReadTail(p) \/ CheckLimit(p) \/ CheckSize(p) \/ CasFail(p)
  <2>1. pc'[p] \in Waiting /\ cur' = cur
    BY <1>0, <1>2 DEF ReadTail, CheckLimit, CheckSize, CasFail, Goto, Waiting
  <2>2. \A q \in Producers : /\ Opening(q)' => Opening(q)
                             /\ pc[q] = "final" => pc'[q] = "final"
    BY <1>0, <2>1 DEF Opening, Waiting
  <2>3. QED BY <1>0, <2>1, <2>2, DataSame
<1>3. QED BY <1>1, <1>2 DEF Claim

(* S2D reads which data block to free, and takes the mark away.            *)
LEMMA DataFreeIsFinal ==
  ASSUME TypeInv, Chained, BlockInv, DataInv, FreeIsFinal
  PROVE  DataInv'
<1> DEFINE b0 == S2DBlk
<1>1. /\ inHand[0] # <<>> /\ s2dPc = "idle" /\ s2dPc' = "freeDataBlk" /\ relData = NoData
      /\ UNCHANGED <<freeData, readVars, prodVars, relMoved>>
      /\ blk \in [Blocks -> BlkRecord] /\ TypeOK
  BY DEF FreeIsFinal, BlockInv, ReleaseInv, TypeInv, TypeOK
<1>2. Head(inHand[0]) = b0 /\ b0 \in Blocks /\ Rel(b0) = 0 /\ \A p \in Producers : cur[p] # b0
  BY <1>1, S2DHolds
<1>3. /\ relBlk' = b0
      /\ relData' = IF blk[b0].isFinal THEN blk[b0].dataBlk ELSE NoData
      /\ blk' = [blk EXCEPT ![b0].isFinal = FALSE]
  BY <1>2 DEF FreeIsFinal
<1>4. \A b : Rel(b)' = Rel(b)
  BY <1>1 DEF S2DBlk, Rel, Dist, Plus, readVars
<1>5. /\ \A b \in Blocks : blk'[b].dataBlk = blk[b].dataBlk
      /\ \A b \in Blocks : b # b0 => blk'[b] = blk[b]
      /\ ~blk'[b0].isFinal
  BY <1>1, <1>2, <1>3 DEF BlkRecord
<1>6. cur' = cur /\ pc' = pc /\ data' = data
  BY <1>1 DEF prodVars
<1> HIDE DEF b0
<1>7. ASSUME NEW d \in DataBlks PROVE DataBlkOk(d)'
  <2>1. /\ d # NoData /\ ~Owed(d) /\ (Owed(d)' <=> Final(b0, d))
        /\ \A b \in Blocks : (Names(b, d)' <=> Names(b, d))
        /\ \A b \in Blocks : (Final(b, d)' <=> Final(b, d) /\ b # b0)
        /\ \A p \in Producers : (Opening(p)' <=> Opening(p)) /\ (Filling(p, d)' <=> Filling(p, d))
    BY <1>1, <1>2, <1>3, <1>5, <1>6, RingAssumption DEF Owed, Names, Final, Opening, Filling
  <2>2. DataBlkOk(d)
    BY DEF DataInv
  <2>3. FreeIsFree(d)'
    BY <1>1, <1>2, <2>1, <2>2 DEF DataBlkOk, FreeIsFree, Final
  <2>4. NotLost(d)'
    <3>1. NotLost(d)
      BY <2>2 DEF DataBlkOk
    <3>2. CASE d \in freeData \/ \E p \in Producers : Filling(p, d)
      BY <1>1, <2>1, <3>2 DEF NotLost
    <3>3. CASE \E b \in Blocks : Final(b, d)
      <4>1. PICK b \in Blocks : Final(b, d)
        BY <3>3
      <4>2. CASE b = b0
        BY <2>1, <4>1, <4>2 DEF NotLost
      <4>3. CASE b # b0
        BY <2>1, <4>1, <4>3 DEF NotLost
      <4>4. QED BY <4>2, <4>3
    <3>4. QED BY <2>1, <3>1, <3>2, <3>3 DEF NotLost
  <2>5. OwedByOne(d)'
    <3>1. ASSUME Final(b0, d), NEW b \in Blocks, Names(b, d) PROVE b = b0
      <4>1. Rel(b) <= 0 /\ Rel(b) \in 0 .. N-1
        BY <1>1, <1>2, <2>2, <3>1, RelType DEF DataBlkOk, FinalIsLast
      <4>2. Rel(b) = 0
        BY <4>1, RingSize
      <4>3. QED BY <1>1, <1>2, <4>2, RelInjective
    <3>2. QED BY <1>3, <2>1, <3>1 DEF OwedByOne
  <2>6. FinalIsLast(d)'
    BY <1>4, <2>1, <2>2 DEF DataBlkOk, FinalIsLast
  <2>7. ASSUME NEW p \in Producers, Filling(p, d)' PROVE FilledByOne(p, d)'
    <3>1. Filling(p, d) /\ FilledByOne(p, d)
      BY <2>1, <2>2, <2>7 DEF DataBlkOk
    <3>2. ~Final(b0, d)
      BY <1>2, <3>1 DEF FilledByOne
    <3>3. QED BY <1>4, <1>6, <2>1, <3>1, <3>2 DEF FilledByOne
  <2>8. \A p \in Producers : FilledByOne(p, d)'
    BY <2>7 DEF FilledByOne
  <2>9. QED BY <2>3, <2>4, <2>5, <2>6, <2>8 DEF DataBlkOk
<1>8. QED BY <1>6, <1>7 DEF DataInv

(* The block no longer names the data block, then the pool has it back.    *)
LEMMA DataFree ==
  ASSUME TypeInv, Chained, BlockInv, DataInv, FreeDataBlk \/ FreeFullPktBlk
  PROVE  DataInv'
<1>1. /\ s2dPc # "idle" /\ relBlk = S2DBlk /\ inHand[0] # <<>> /\ ~blk[relBlk].isFinal
      /\ UNCHANGED <<readVars, prodVars, relMoved, relBlk, relData>>
      /\ blk \in [Blocks -> BlkRecord] /\ TypeOK
  BY DEF FreeDataBlk, FreeFullPktBlk, BlockInv, ReleaseInv, TypeInv, TypeOK, ReleasingHeld
<1>2. relBlk \in Blocks
  BY <1>1, S2DHolds
<1>3. \A b : Rel(b)' = Rel(b)
  BY <1>1 DEF S2DBlk, Rel, Dist, Plus, readVars
<1>4. cur' = cur /\ pc' = pc /\ data' = data
  BY <1>1 DEF prodVars
<1>5. ASSUME NEW d \in DataBlks PROVE DataBlkOk(d)'
  <2>1. /\ d # NoData /\ DataBlkOk(d) /\ ~Final(relBlk, d)
        /\ \A p \in Producers : (Opening(p)' <=> Opening(p)) /\ (Filling(p, d)' <=> Filling(p, d))
    BY <1>1, <1>4, RingAssumption DEF DataInv, Opening, Filling, Final
  <2>2. CASE FreeDataBlk
    <3>1. /\ s2dPc = "freeDataBlk" /\ s2dPc' = "freeSize" /\ freeData' = freeData
          /\ blk' = [blk EXCEPT ![relBlk].dataBlk = NoData]
      BY <2>2 DEF FreeDataBlk
    <3>2. blk'[relBlk].dataBlk = NoData /\ \A b \in Blocks : b # relBlk => blk'[b] = blk[b]
      BY <1>1, <1>2, <3>1 DEF BlkRecord
    <3>3. /\ Owed(d)' <=> Owed(d)
          /\ \A b \in Blocks : (Names(b, d)' => Names(b, d)) /\ (Final(b, d)' <=> Final(b, d))
      BY <1>1, <2>1, <3>1, <3>2 DEF Owed, Names, Final
    <3>4. FreeIsFree(d)' /\ NotLost(d)' /\ OwedByOne(d)' /\ FinalIsLast(d)'
      BY <1>1, <1>3, <2>1, <3>1, <3>3 DEF DataBlkOk, FreeIsFree, NotLost, OwedByOne, FinalIsLast
    <3>5. \A p \in Producers : FilledByOne(p, d)'
      BY <1>3, <1>4, <2>1, <3>3 DEF DataBlkOk, FilledByOne
    <3>6. QED BY <3>4, <3>5 DEF DataBlkOk
  <2>3. CASE FreeFullPktBlk
    <3>1. /\ s2dPc = "freePktBlk" /\ s2dPc' = "freed" /\ blk' = blk
          /\ freeData' = freeData \cup ({relData} \ {NoData})
          /\ blk[relBlk].dataBlk = NoData
      BY <2>3 DEF FreeFullPktBlk, BlockInv, ReleaseInv
    <3>2. /\ ~Owed(d)' /\ (Owed(d) <=> relData = d) /\ ~Names(relBlk, d)
          /\ \A b \in Blocks : (Names(b, d)' <=> Names(b, d)) /\ (Final(b, d)' <=> Final(b, d))
          /\ d \in freeData' <=> d \in freeData \/ Owed(d)
      BY <1>1, <2>1, <3>1 DEF Owed, Names, Final
    <3>3. \A p \in Producers : FilledByOne(p, d)'
      BY <1>3, <1>4, <2>1, <3>2 DEF DataBlkOk, FilledByOne
    <3>4. FreeIsFree(d)'
      <4>1. Owed(d) => /\ \A p \in Producers : ~Filling(p, d)
                       /\ \A b \in Blocks : ~Names(b, d)
        BY <2>1, <3>2 DEF DataBlkOk, FilledByOne, OwedByOne
      <4>2. QED BY <2>1, <3>2, <4>1 DEF DataBlkOk, FreeIsFree
    <3>5. NotLost(d)' /\ OwedByOne(d)' /\ FinalIsLast(d)'
      BY <1>3, <2>1, <3>2 DEF DataBlkOk, NotLost, OwedByOne, FinalIsLast
    <3>6. QED BY <3>3, <3>4, <3>5 DEF DataBlkOk
  <2>4. QED BY <2>2, <2>3
<1>6. QED BY <1>4, <1>5 DEF DataInv

(* S2D leaves its block, which names no data block.                        *)
LEMMA DataS2DNext ==
  ASSUME TypeInv, Chained, BlockInv, DataInv, S2DNext
  PROVE  DataInv'
<1> USE RingSize
<1>1. /\ relMoved /\ relMoved' = FALSE /\ relData' = NoData
      /\ s2dPc = "freed" /\ s2dPc' = "idle" /\ relBlk = S2DBlk
      /\ UNCHANGED <<tail, blk, freeData, prodVars, blkPtr>>
      /\ blk[S2DBlk].dataBlk = NoData /\ TypeOK
      /\ cur \in [Producers -> Blocks \cup {NoBlk}]
  BY DEF S2DNext, BlockInv, ReleaseInv, TypeInv, TypeOK
<1>2. cur' = cur /\ pc' = pc /\ data' = data
  BY <1>1 DEF prodVars
<1>3. \A b \in Blocks : /\ Rel(b)' = IF Rel(b) = 0 THEN N - 1 ELSE Rel(b) - 1
                        /\ Rel(b) \in 0 .. N-1
                        /\ Rel(b) = 0 => b = S2DBlk
  BY <1>1, Advance, RelType, RelInjective
<1>4. \A b, c \in Blocks : b # S2DBlk /\ c # S2DBlk /\ Rel(b) <= Rel(c) => Rel(b)' <= Rel(c)'
  BY <1>3
<1>5. \A p \in Producers : cur[p] # NoBlk => cur[p] # S2DBlk
  BY <1>1 DEF BlockInv, ProdInv, Alone
<1>6. ASSUME NEW d \in DataBlks PROVE DataBlkOk(d)'
  <2>1. /\ d # NoData /\ DataBlkOk(d) /\ ~Owed(d) /\ ~Owed(d)'
        /\ \A p \in Producers : (Opening(p)' <=> Opening(p)) /\ (Filling(p, d)' <=> Filling(p, d))
        /\ \A b \in Blocks : (Names(b, d)' <=> Names(b, d)) /\ (Final(b, d)' <=> Final(b, d))
        /\ \A b \in Blocks : Names(b, d) => b # S2DBlk
    BY <1>1, <1>2, RingAssumption DEF DataInv, Opening, Filling, Names, Final, Owed
  <2>2. FreeIsFree(d)' /\ NotLost(d)' /\ OwedByOne(d)'
    BY <1>1, <2>1 DEF DataBlkOk, FreeIsFree, NotLost, OwedByOne
  <2>3. FinalIsLast(d)'
    BY <1>4, <2>1 DEF DataBlkOk, FinalIsLast, Final
  <2>4. ASSUME NEW p \in Producers PROVE FilledByOne(p, d)'
    <3>1. FilledByOne(p, d) /\ (Opening(p) => cur[p] # S2DBlk)
      BY <1>5, <2>1 DEF DataBlkOk, Opening
    <3>2. QED BY <1>2, <1>4, <2>1, <3>1 DEF FilledByOne
  <2>5. QED BY <2>2, <2>3, <2>4 DEF DataBlkOk
<1>7. QED BY <1>2, <1>6 DEF DataInv

LEMMA DataNext == TypeInv /\ Chained /\ BlockInv /\ DataInv /\ [Next]_vars => DataInv'
<1> SUFFICES ASSUME TypeInv, Chained, BlockInv, DataInv, [Next]_vars PROVE DataInv'
  OBVIOUS
<1>0. TypeOK /\ blk \in [Blocks -> BlkRecord] /\ ReadInv
  BY DEF TypeInv, TypeOK, BlockInv
<1>s. ASSUME UNCHANGED <<prodVars, freeData, relData, relBlk>>, S2DBlk' = S2DBlk,
             s2dPc' # "freed" <=> s2dPc # "freed",
             \A b \in Blocks : blk'[b].dataBlk = blk[b].dataBlk /\ blk'[b].isFinal = blk[b].isFinal
      PROVE  DataInv'
  <2>1. UNCHANGED <<data, cur, pc>>
    BY <1>s DEF prodVars
  <2>2. \A p \in Producers : Opening(p)' <=> Opening(p)
    BY <2>1 DEF Opening
  <2>3. QED BY <1>s, <2>1, <2>2, DataSame
<1>1. ASSUME NEW p \in Producers, Claim(p) \/ Finish(p) \/ Produce(p) PROVE DataInv'
  BY <1>1, DataClaim, DataFinish, DataProduce
<1>2. ASSUME NEW m \in Modules, GetNextFullMetaBlk(m) PROVE DataInv'
  <2>1. UNCHANGED <<blk, prodVars, freeData, s2dPc, relData, relBlk>> /\ S2DBlk' = S2DBlk
    BY <1>2 DEF GetNextFullMetaBlk, s2dVars, S2DBlk, Plus
  <2>2. QED BY <1>s, <2>1
<1>3. ASSUME NEW m \in Modules, Index(m) PROVE DataInv'
  <2>1. PICK count \in 1 .. MaxInHand : ModuleMove(m, count)
    BY <1>3 DEF Index
  <2>2. blkPtr'[0] = blkPtr[0]
    BY <1>0, <2>1, RelType DEF ModuleMove, Move2NextMetaBlk, TypeOK
  <2>3. UNCHANGED <<blk, prodVars, freeData, s2dPc, relData, relBlk>> /\ S2DBlk' = S2DBlk
    BY <2>1, <2>2 DEF ModuleMove, s2dVars, S2DBlk, Plus
  <2>4. QED BY <1>s, <2>3
<1>4. CASE S2D
  <2>1. CASE S2DMoveFirst \/ S2DMoveLast
    <3>1. inHand[0] # <<>> /\ ~relMoved /\ S2DMove
      BY <2>1 DEF S2DMoveFirst, S2DMoveLast, TypeInv, ReleasingHeld
    <3>2. S2DBlk' = S2DBlk
      BY <1>0, <3>1, ReadS2DMove
    <3>3. UNCHANGED <<blk, prodVars, freeData, s2dPc, relData, relBlk>>
      BY <3>1 DEF S2DMove
    <3>4. QED BY <1>s, <3>2, <3>3
  <2>2. CASE FreeSize
    <3>1. /\ UNCHANGED <<prodVars, freeData, relData, relBlk, readVars, relMoved>>
          /\ s2dPc = "freeSize" /\ s2dPc' = "freePktBlk"
          /\ blk' = [blk EXCEPT ![relBlk].size = 0]
      BY <2>2 DEF FreeSize
    <3>2. S2DBlk' = S2DBlk
      BY <3>1 DEF S2DBlk, readVars, Plus
    <3>3. \A b \in Blocks : blk'[b].dataBlk = blk[b].dataBlk /\ blk'[b].isFinal = blk[b].isFinal
      BY <1>0, <3>1 DEF BlkRecord
    <3>4. QED BY <1>s, <3>1, <3>2, <3>3
  <2>3. QED BY <1>4, <2>1, <2>2, DataFreeIsFinal, DataFree, DataS2DNext DEF S2D
<1>5. CASE UNCHANGED vars
  <2>1. UNCHANGED <<blk, prodVars, freeData, s2dPc, relData, relBlk>> /\ S2DBlk' = S2DBlk
    BY <1>5 DEF vars, readVars, s2dVars, S2DBlk, Plus
  <2>2. QED BY <1>s, <2>1
<1>6. QED BY <1>1, <1>2, <1>3, <1>4, <1>5 DEF Next

(* No data block is lost and none is freed twice: each is in the pool, in  *)
(* the hands of one producer, owed by S2D or named by one block marked     *)
(* final; FreeFullPktBlk frees it after the last block that names it.      *)
THEOREM DataBlksAreAccounted == ASSUME MaxLag < N PROVE Spec => []DataBlkAccounted
<1>1. Init => RingInv /\ DataInv
  BY TypeInit, ChainInit, BlockInit, DataInit DEF RingInv
<1>2. RingInv /\ DataInv /\ [Next]_vars => (RingInv /\ DataInv)'
  BY TypeNext, ChainNext, BlockNext, DataNext DEF RingInv, ChainInv
<1>3. ASSUME RingInv, DataInv PROVE DataBlkAccounted
  <2>1. ASSUME NEW d \in DataBlks
        PROVE  LET filling == {p \in Producers : data[p] = d}
                   owed    == IF relData = d /\ s2dPc # "freed" THEN {relBlk} ELSE {}
                   final   == {b \in Blocks : blk[b].dataBlk = d /\ blk[b].isFinal}
                   named   == {b \in Blocks : blk[b].dataBlk = d}
               IN  \/ d \in freeData /\ filling = {} /\ owed = {} /\ named = {}
                   \/ d \notin freeData /\ filling # {} /\ owed = {}
                   \/ d \notin freeData /\ filling = {} /\ owed # {} /\ final = {}
                   \/ d \notin freeData /\ filling = {} /\ owed = {}
                        /\ \E b \in final : final = {b}
    <3> DEFINE filling == {p \in Producers : data[p] = d}
               owed    == IF relData = d /\ s2dPc # "freed" THEN {relBlk} ELSE {}
               final   == {b \in Blocks : blk[b].dataBlk = d /\ blk[b].isFinal}
               named   == {b \in Blocks : blk[b].dataBlk = d}
    <3>0. /\ FreeIsFree(d) /\ NotLost(d) /\ OwedByOne(d) /\ FinalIsLast(d)
          /\ \A p \in Producers : FilledByOne(p, d)
      BY <1>3 DEF DataInv, DataBlkOk
    <3>1. /\ filling = {} <=> \A p \in Producers : ~Filling(p, d)
          /\ owed = {} <=> ~Owed(d)
          /\ \A b : b \in final <=> b \in Blocks /\ Final(b, d)
          /\ \A b : b \in named <=> b \in Blocks /\ Names(b, d)
      BY DEF Filling, Owed, Final, Names
    <3>2. CASE d \in freeData
      BY <3>0, <3>1, <3>2 DEF FreeIsFree
    <3>3. CASE d \notin freeData /\ \E p \in Producers : Filling(p, d)
      BY <3>0, <3>1, <3>3 DEF FilledByOne
    <3>4. CASE d \notin freeData /\ (\A p \in Producers : ~Filling(p, d)) /\ Owed(d)
      <4>1. ~blk[relBlk].isFinal
        BY <1>3, <3>4, RingAssumption DEF RingInv, BlockInv, ReleaseInv, Owed
      <4>2. \A b \in Blocks : ~Final(b, d)
        BY <3>0, <3>4, <4>1 DEF OwedByOne, Final
      <4>3. QED BY <3>1, <3>4, <4>2
    <3>5. CASE d \notin freeData /\ (\A p \in Producers : ~Filling(p, d)) /\ ~Owed(d)
      <4>1. PICK b \in Blocks : Final(b, d)
        BY <3>0, <3>5 DEF NotLost
      <4>2. ASSUME NEW c \in Blocks, Final(c, d) PROVE c = b
        <5>1. Rel(b) <= Rel(c) /\ Rel(c) <= Rel(b)
          BY <3>0, <4>1, <4>2 DEF FinalIsLast, Final
        <5>2. Rel(b) \in 0 .. N-1 /\ Rel(c) \in 0 .. N-1 /\ TypeOK
          BY <1>3, RelType DEF RingInv, TypeInv
        <5>3. Rel(b) = Rel(c)
          BY <5>1, <5>2, RingSize
        <5>4. QED BY <5>2, <5>3, RelInjective
      <4>3. b \in final /\ final = {b}
        BY <3>1, <4>1, <4>2
      <4>4. QED BY <3>1, <3>5, <4>3
    <3>6. QED BY <3>2, <3>3, <3>4, <3>5
  <2>2. QED BY <2>1 DEF DataBlkAccounted
<1>4. QED BY <1>1, <1>2, <1>3, PTL DEF Spec

=============================================================================
