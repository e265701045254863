-------------------------- MODULE PacketRingProofs --------------------------
(***************************************************************************)
(* Proofs about the packet ring, for any number of slots, modules and      *)
(* producers.  The types and the columns need no assumption.  The slots do *)
(* need one: no module calls InitRing once the ring is at work.  Until the *)
(* first overrun, when a producer takes the last slot on a test that is    *)
(* out of date, the claimed slots are the producers' own and the ring is a *)
(* queue; with one producer, one capture thread per ring, there is no      *)
(* overrun.  The run packet_ring_overrun shows one with two.               *)
(***************************************************************************)
EXTENDS PacketRing, SequenceTheorems, TLAPS

(***************************************************************************)
(* The columns.  A module that registers has the lock, and its columns are *)
(* the last bytes handed out; one that has registered, and always asks for *)
(* the same, is told the same again.                                       *)
(***************************************************************************)
Registering(m) ==
  /\ modOffset[m] <= offset /\ offset <= GoodEnd(m)
  /\ request[m] \in asked[m] /\ columns[m] = {}
  /\ \A n \in Modules \ {m} : Steady(n) => columns[n] \subseteq 0 .. modOffset[m] - 1

Registered(m) ==
  /\ asked[m] # {}
  /\ Steady(m) => \A r \in asked[m] : columns[m] = Bytes(modOffset[m], r.bytes)

ColumnInv ==
  /\ \A m \in Modules : regPc[m] = "columns" <=> mutex = m
  /\ \A m \in Modules : regPc[m] = "columns" => Registering(m)
  /\ \A m \in Modules : regPc[m] # "columns" /\ modOffset[m] # 0 => Registered(m)
  /\ \A m \in Modules : Steady(m) => columns[m] \subseteq 0 .. offset - 1
  /\ ColumnsDisjoint

SetupInv == PacketTypeOK /\ ColumnInv

(***************************************************************************)
(* The slots, by their distance from S2D's.                                *)
(***************************************************************************)
Place(s)   == Dist(ptr[0], s)
Reached(m) == Ahead(m) + InHand(m)

(* Until StartWork nothing has happened to the ring.                       *)
FreshInv ==
  /\ ready => index = K
  /\ ~ready => /\ tail = 0 /\ ~emptied
               /\ \A m \in Modules : ptr[m] = 0 /\ next[m] = 0
               /\ \A s \in Positions : slot[s] = NoPacket
               /\ \A p \in Producers : pc[p] = "idle"

(* A module is behind the one it depends on, and so behind all that come   *)
(* before it in the chain.                                                 *)
ChainInv ==
  /\ \A m \in Modules : Reached(m) <= Occupied
  /\ \A m \in 1 .. K-1 : Reached(0) <= Ahead(m)
  /\ \A l, m \in 1 .. K-1 : l < m => Reached(m) <= Ahead(l)

(* The producers: what they have seen of the tail and of the limit holds,  *)
(* unless another has incremented the tail since; and those that have      *)
(* claimed a slot have one each.                                           *)
Claimed(p) == pc[p] \in {"wait", "fill"}

ClaimInv ==
  /\ \A p \in Producers : pc[p] = "test" /\ p \notin stale => pos[p] = tail
  /\ \A p \in Producers : pc[p] = "claim" /\ p \notin stale => Occupied <= Slots - 2
  /\ \A p \in Producers : Claimed(p) =>
       /\ Place(pos[p]) < Occupied
       /\ slot[pos[p]] = NoPacket
       /\ ~(emptied /\ pos[p] = ptr[0])
       /\ \A q \in Producers : Claimed(q) /\ pos[q] = pos[p] => q = p

(* A slot nobody has claimed is empty; one that a module has got is filled *)
(* until S2D empties it.                                                   *)
SlotInv ==
  /\ \A s \in Positions : Place(s) >= Occupied => slot[s] = NoPacket
  /\ \A m \in Modules : \A s \in Positions :
       Place(s) < Reached(m) /\ ~(emptied /\ s = ptr[0]) => slot[s] # NoPacket
  /\ emptied => InHand(0) > 0 /\ slot[ptr[0]] = NoPacket

WorkInv == FreshInv /\ ChainInv /\ ClaimInv /\ SlotInv

(***************************************************************************)
(* Positions.                                                              *)
(***************************************************************************)
LEMMA Sizes == Slots \in Nat /\ Slots >= 2 /\ K \in Nat /\ K >= 1 /\ NoPacket \notin Packets
  BY PacketRingAssumption

LEMMA ModuleFacts ==
  /\ 0 \in Modules /\ \A m \in 1 .. K-1 : m \in Modules /\ m # 0
  /\ \A m \in Modules : m \in Nat /\ (m # 0 => m \in 1 .. K-1)
  BY Sizes DEF Modules

LEMMA PlusType == ASSUME NEW i \in Positions, NEW n \in Nat PROVE Plus(i, n) \in Positions
  BY Sizes DEF Plus, Positions

LEMMA PlusValue ==
  ASSUME NEW i \in Positions, NEW n \in 0 .. Slots-1
  PROVE  Plus(i, n) = IF i + n < Slots THEN i + n ELSE i + n - Slots
<1>1. CASE i + n < Slots
  BY <1>1, Sizes DEF Plus, Positions
<1>2. CASE i + n >= Slots
  BY <1>2, Sizes DEF Plus, Positions
<1> QED BY <1>1, <1>2, Sizes DEF Positions

LEMMA DistType ==
  ASSUME NEW a \in Positions, NEW b \in Positions
  PROVE  Dist(a, b) \in 0 .. Slots-1 /\ Dist(a, a) = 0
  BY Sizes DEF Dist, Positions

LEMMA DistInjective ==
  ASSUME NEW a \in Positions, NEW b \in Positions, NEW c \in Positions, Dist(a, b) = Dist(a, c)
  PROVE  b = c
  BY Sizes DEF Dist, Positions

(* Going on from a position that is d away.                                *)
LEMMA DistPlus ==
  ASSUME NEW a \in Positions, NEW b \in Positions, NEW n \in Nat, Dist(a, b) + n <= Slots - 1
  PROVE  Plus(b, n) \in Positions /\ Dist(a, Plus(b, n)) = Dist(a, b) + n
<1>1. n \in 0 .. Slots-1
  BY DistType, Sizes
<1>2. Plus(b, n) = IF b + n < Slots THEN b + n ELSE b + n - Slots
  BY <1>1, PlusValue
<1>3. Plus(b, n) \in Positions
  BY PlusType
<1>4. QED BY <1>1, <1>2, <1>3, Sizes DEF Dist, Positions

(* From one position to another that is no nearer.                         *)
LEMMA DistBetween ==
  ASSUME NEW a \in Positions, NEW b \in Positions, NEW c \in Positions, Dist(a, b) <= Dist(a, c)
  PROVE  Dist(b, c) = Dist(a, c) - Dist(a, b)
  BY Sizes DEF Dist, Positions

(* When the start moves by one, all others but itself come nearer.         *)
LEMMA DistFromNext ==
  ASSUME NEW a \in Positions, NEW b \in Positions
  PROVE  /\ Plus(a, 1) \in Positions
         /\ Dist(a, b) >= 1 => Dist(Plus(a, 1), b) = Dist(a, b) - 1
         /\ Dist(Plus(a, 1), a) = Slots - 1
<1>0. 1 \in 0 .. Slots-1 /\ 1 \in Nat
  BY Sizes
<1>1. Plus(a, 1) = IF a + 1 < Slots THEN a + 1 ELSE a + 1 - Slots
  BY <1>0, PlusValue
<1>2. Plus(a, 1) \in Positions
  BY <1>0, PlusType
<1>3. QED BY <1>1, <1>2, Sizes DEF Dist, Positions

(***************************************************************************)
(* Types and columns.                                                      *)
(***************************************************************************)
LEMMA RequestFacts ==
  /\ \A r \in Requests \cup {NoColumns} : r.bytes \in Nat /\ r.good \in Nat /\ r.good <= r.bytes
  /\ \A m \in Modules : m # -1
<1>1. \A r \in Requests : r.bytes \in Nat /\ r.good \in Nat /\ r.good <= r.bytes
  BY PacketRingAssumption
<1>2. NoColumns.bytes = 0 /\ NoColumns.good = 0
  BY DEF NoColumns
<1>3. \A m \in Modules : m # -1
  BY Sizes DEF Modules
<1>4. QED BY <1>1, <1>2, <1>3

LEMMA SetupInit == Init => SetupInv
<1> SUFFICES ASSUME Init PROVE SetupInv
  OBVIOUS
<1> USE Sizes, PacketRingAssumption DEF Init
<1>1. 0 \in Positions /\ 0 \in 0 .. K /\ 0 \in Nat
  BY DEF Positions
<1>2. PacketTypeOK
  BY <1>1 DEF PacketTypeOK
<1>3. \A m \in Modules : regPc[m] # "columns" /\ mutex # m /\ columns[m] = {} /\ modOffset[m] = 0
  BY RequestFacts
<1>4. ColumnInv
  BY <1>3 DEF ColumnInv, ColumnsDisjoint
<1>5. QED BY <1>2, <1>4 DEF SetupInv

(* What the modules ask for keeps its type, and bytes are numbers.         *)
LEMMA ColumnTypes ==
  ASSUME PacketTypeOK, NEW m \in Modules
  PROVE  /\ offset \in Nat /\ modOffset[m] \in Nat /\ GoodEnd(m) \in Nat
         /\ request[m].bytes \in Nat /\ request[m].good \in Nat
         /\ GoodEnd(m) = modOffset[m] + request[m].good
         /\ \A start, count \in Nat : Bytes(start, count) \in SUBSET Nat
<1>1. request[m] \in Requests \cup {NoColumns} /\ offset \in Nat /\ modOffset[m] \in Nat
  BY DEF PacketTypeOK
<1>2. request[m].bytes \in Nat /\ request[m].good \in Nat
  BY <1>1, RequestFacts
<1>3. \A start, count \in Nat : Bytes(start, count) \in SUBSET Nat
  BY DEF Bytes
<1>4. QED BY <1>1, <1>2, <1>3 DEF GoodEnd

(* A step that changes nothing but who asks.                               *)
LEMMA ColumnsUnchanged ==
  ASSUME ColumnInv, UNCHANGED <<offset, mutex, modOffset, asked, columns>>,
         \A n \in Modules : regPc'[n] = "columns" <=> regPc[n] = "columns",
         \A n \in Modules : regPc[n] = "columns" => request'[n] = request[n]
  PROVE  ColumnInv'
<1>1. \A n \in Modules : Steady(n)' <=> Steady(n)
  BY DEF Steady
<1>2. ASSUME NEW n \in Modules, regPc'[n] = "columns" PROVE Registering(n)'
  <2>1. Registering(n) /\ request'[n] = request[n]
    BY <1>2 DEF ColumnInv
  <2>2. QED BY <1>1, <2>1 DEF Registering, GoodEnd
<1>3. ASSUME NEW n \in Modules, regPc'[n] # "columns", modOffset'[n] # 0 PROVE Registered(n)'
  <2>1. Registered(n)
    BY <1>3 DEF ColumnInv
  <2>2. QED BY <1>1, <2>1 DEF Registered
<1>4. QED BY <1>1, <1>2, <1>3 DEF ColumnInv, ColumnsDisjoint

(* RegLock, when the module has registered: a steady module is told what   *)
(* it was told before.                                                     *)
LEMMA ColumnsTold ==
  ASSUME SetupInv, NEW m \in Modules, RegLock(m), TellOffset(m)
  PROVE  ColumnInv'
<1>1. /\ regPc[m] = "lock" /\ mutex = -1 /\ modOffset[m] # 0
      /\ asked' = [asked EXCEPT ![m] = asked[m] \cup {request[m]}]
      /\ regPc' = [regPc EXCEPT ![m] = "idle"]
      /\ columns' = [columns EXCEPT ![m] = Bytes(modOffset[m], request[m].bytes)]
      /\ UNCHANGED <<offset, mutex, modOffset, request>>
  BY DEF RegLock, Ask, TellOffset
<1>2. PacketTypeOK /\ ColumnInv
  BY DEF SetupInv
<1>3. /\ asked'[m] = asked[m] \cup {request[m]} /\ regPc'[m] = "idle"
      /\ columns'[m] = Bytes(modOffset[m], request[m].bytes)
      /\ \A n \in Modules \ {m} : /\ asked'[n] = asked[n] /\ regPc'[n] = regPc[n]
                                  /\ columns'[n] = columns[n]
  BY <1>1, <1>2 DEF PacketTypeOK
<1>4. \A n \in Modules : regPc[n] # "columns" /\ regPc'[n] # "columns"
  BY <1>1, <1>2, <1>3, RequestFacts DEF ColumnInv
<1>5. Registered(m)
  BY <1>1, <1>2, <1>4 DEF ColumnInv
<1>6. Steady(m)' => /\ Steady(m) /\ columns'[m] = columns[m]
                    /\ \A r \in asked'[m] : r = request[m]
  BY <1>3, <1>5 DEF Steady, Registered
<1>7. \A n \in Modules : Steady(n)' => Steady(n) /\ columns'[n] = columns[n]
  BY <1>3, <1>6 DEF Steady
<1>8. Registered(m)'
  BY <1>1, <1>3, <1>6 DEF Registered
<1>9. \A n \in Modules \ {m} : Registered(n) => Registered(n)'
  BY <1>1, <1>3, <1>7 DEF Registered
<1>10. \A n \in Modules : modOffset'[n] # 0 => Registered(n)'
  BY <1>1, <1>2, <1>4, <1>8, <1>9 DEF ColumnInv
<1>11. ColumnsDisjoint'
  BY <1>2, <1>7 DEF ColumnInv, ColumnsDisjoint
<1>12. \A n \in Modules : Steady(n)' => columns'[n] \subseteq 0 .. offset' - 1
  BY <1>1, <1>2, <1>7 DEF ColumnInv
<1>13. \A n \in Modules : regPc'[n] = "columns" <=> mutex' = n
  BY <1>1, <1>4, RequestFacts
<1>14. QED BY <1>4, <1>10, <1>11, <1>12, <1>13 DEF ColumnInv

(* RegLock, when it has not: it starts behind all bytes handed out.        *)
LEMMA ColumnsStart ==
  ASSUME SetupInv, NEW m \in Modules, RegLock(m), StartColumns(m), mutex' = m
  PROVE  ColumnInv'
<1>1. /\ regPc[m] = "lock" /\ mutex = -1
      /\ asked' = [asked EXCEPT ![m] = asked[m] \cup {request[m]}]
      /\ regPc' = [regPc EXCEPT ![m] = "columns"]
      /\ modOffset' = [modOffset EXCEPT ![m] = offset]
      /\ columns' = [columns EXCEPT ![m] = {}]
      /\ UNCHANGED <<offset, request>>
  BY DEF RegLock, Ask, StartColumns
<1>2. PacketTypeOK /\ ColumnInv
  BY DEF SetupInv
<1>3. /\ asked'[m] = asked[m] \cup {request[m]} /\ regPc'[m] = "columns"
      /\ columns'[m] = {} /\ modOffset'[m] = offset
      /\ \A n \in Modules \ {m} : /\ asked'[n] = asked[n] /\ regPc'[n] = regPc[n]
                                  /\ columns'[n] = columns[n] /\ modOffset'[n] = modOffset[n]
  BY <1>1, <1>2 DEF PacketTypeOK
<1>4. \A n \in Modules : regPc[n] # "columns"
  BY <1>1, <1>2, RequestFacts DEF ColumnInv
<1>5. \A n \in Modules \ {m} : Steady(n)' <=> Steady(n)
  BY <1>3 DEF Steady
<1>6. Registering(m)'
  <2>1. modOffset'[m] <= offset' /\ offset' <= GoodEnd(m)'
    BY <1>1, <1>2, <1>3, ColumnTypes DEF GoodEnd
  <2>2. \A n \in Modules \ {m} : Steady(n)' => columns'[n] \subseteq 0 .. modOffset'[m] - 1
    BY <1>2, <1>3, <1>5 DEF ColumnInv
  <2>3. QED BY <1>1, <1>3, <2>1, <2>2 DEF Registering
<1>7. \A n \in Modules \ {m} : Registered(n) => Registered(n)'
  BY <1>3, <1>5 DEF Registered
<1>8. \A n \in Modules : regPc'[n] # "columns" /\ modOffset'[n] # 0 => Registered(n)'
  BY <1>2, <1>3, <1>4, <1>7 DEF ColumnInv
<1>9. \A n \in Modules : Steady(n)' => columns'[n] \subseteq 0 .. offset' - 1
  BY <1>1, <1>2, <1>3, <1>5 DEF ColumnInv
<1>10. ColumnsDisjoint'
  BY <1>2, <1>3, <1>5 DEF ColumnInv, ColumnsDisjoint
<1>11. \A n \in Modules : regPc'[n] = "columns" <=> n = m
  BY <1>3, <1>4
<1>12. QED BY <1>6, <1>8, <1>9, <1>10, <1>11 DEF ColumnInv

(* RegReturn: the bytes from the module's offset on are all those handed   *)
(* out since, and so nobody else's.                                        *)
LEMMA ColumnsReturned ==
  ASSUME SetupInv, NEW m \in Modules, RegReturn(m)
  PROVE  ColumnInv'
<1>1. /\ regPc[m] = "columns" /\ offset = GoodEnd(m)
      /\ regPc' = [regPc EXCEPT ![m] = "idle"] /\ mutex' = -1
      /\ columns' = IF IsValid(request[m])
                    THEN [columns EXCEPT ![m] = Bytes(modOffset[m], request[m].bytes)]
                    ELSE columns
      /\ UNCHANGED <<offset, modOffset, request, asked>>
  BY DEF RegReturn
<1>2. PacketTypeOK /\ ColumnInv /\ Registering(m)
  BY <1>1 DEF SetupInv, ColumnInv
<1>3. /\ regPc'[m] = "idle"
      /\ IsValid(request[m]) => columns'[m] = Bytes(modOffset[m], request[m].bytes)
      /\ \A n \in Modules \ {m} : regPc'[n] = regPc[n] /\ columns'[n] = columns[n]
  BY <1>1, <1>2 DEF PacketTypeOK
<1>4. \A n \in Modules : regPc'[n] # "columns"
  BY <1>1, <1>2, <1>3 DEF ColumnInv
<1>5. \A n \in Modules : Steady(n)' <=> Steady(n)
  BY <1>1 DEF Steady
<1>6. Steady(m) => /\ IsValid(request[m]) /\ columns'[m] = modOffset[m] .. offset - 1
                   /\ \A r \in asked[m] : r = request[m]
  <2>1. SUFFICES ASSUME Steady(m)
                 PROVE  /\ IsValid(request[m]) /\ columns'[m] = modOffset[m] .. offset - 1
                        /\ \A r \in asked[m] : r = request[m]
    OBVIOUS
  <2>2. IsValid(request[m]) /\ \A r \in asked[m] : r = request[m]
    BY <1>2, <2>1 DEF Registering, Steady
  <2>3. modOffset[m] + request[m].bytes = offset
    BY <1>1, <2>2 DEF GoodEnd, IsValid
  <2>4. Bytes(modOffset[m], request[m].bytes) = modOffset[m] .. offset - 1
    BY <1>2, <2>3, ColumnTypes DEF Bytes
  <2>5. QED BY <1>3, <2>2, <2>4
<1>7. Registered(m)'
  <2>1. request[m] \in asked[m]
    BY <1>2 DEF Registering
  <2>2. Steady(m) => \A r \in asked[m] : columns'[m] = Bytes(modOffset[m], r.bytes)
    BY <1>3, <1>6
  <2>3. QED BY <1>1, <1>5, <2>1, <2>2 DEF Registered
<1>8. \A n \in Modules \ {m} : Registered(n) => Registered(n)'
  BY <1>1, <1>3, <1>5 DEF Registered
<1>9. \A n \in Modules : modOffset'[n] # 0 => Registered(n)'
  <2>1. \A n \in Modules \ {m} : regPc[n] # "columns"
    BY <1>1, <1>2 DEF ColumnInv
  <2>2. QED BY <1>1, <1>2, <1>7, <1>8, <2>1 DEF ColumnInv
<1>10. \A n \in Modules : Steady(n) => columns'[n] \subseteq 0 .. offset - 1
  <2>1. modOffset[m] .. offset - 1 \subseteq 0 .. offset - 1
    BY <1>2, ColumnTypes
  <2>2. QED BY <1>2, <1>3, <1>6, <2>1 DEF ColumnInv
<1>11. \A n \in Modules \ {m} : Steady(n) /\ Steady(m) => columns'[n] \cap columns'[m] = {}
  <2>1. (0 .. modOffset[m] - 1) \cap (modOffset[m] .. offset - 1) = {}
    BY <1>2, ColumnTypes
  <2>2. \A n \in Modules \ {m} : Steady(n) => columns'[n] \subseteq 0 .. modOffset[m] - 1
    BY <1>2, <1>3 DEF Registering
  <2>3. QED BY <1>6, <2>1, <2>2
<1>12. ColumnsDisjoint'
  <2>1. \A n, l \in Modules \ {m} : n # l /\ Steady(n) /\ Steady(l) => columns'[n] \cap columns'[l] = {}
    BY <1>2, <1>3 DEF ColumnInv, ColumnsDisjoint
  <2>2. QED BY <1>5, <1>11, <2>1 DEF ColumnsDisjoint
<1>13. \A n \in Modules : regPc'[n] = "columns" <=> mutex' = n
  BY <1>1, <1>4, RequestFacts
<1>14. QED BY <1>1, <1>4, <1>5, <1>9, <1>10, <1>12, <1>13 DEF ColumnInv

LEMMA SetupNext == SetupInv /\ [Next]_vars => SetupInv'
<1> SUFFICES ASSUME SetupInv, [Next]_vars PROVE SetupInv'
  OBVIOUS
<1> USE DEF SetupInv
<1>a. 0 \in Positions
  BY Sizes DEF Positions
<1>1. ASSUME NEW m \in Modules, InitRing(m) PROVE SetupInv'
  <2>1. index' \in 0 .. K /\ ptr' \in [Modules -> Positions] /\ next' \in [Modules -> Positions]
        /\ slot' \in [Positions -> Packets \cup {NoPacket}]
    BY <1>1, <1>a, Sizes DEF InitRing, PacketTypeOK, Modules
  <2>2. UNCHANGED <<ready, offset, mutex, modOffset, regPc, request, asked, columns,
                    tail, pc, pos, stale, overrun, emptied>>
    BY <1>1 DEF InitRing, prodVars, raceVars
  <2>3. PacketTypeOK'
    BY <2>1, <2>2 DEF PacketTypeOK
  <2>4. ColumnInv'
    BY <2>2, ColumnsUnchanged
  <2>5. QED BY <2>3, <2>4
<1>2. ASSUME NEW m \in Modules, RegTest(m) PROVE SetupInv'
  <2>1. PICK r \in Requests : request' = [request EXCEPT ![m] = r]
    BY <1>2 DEF RegTest
  <2>2. /\ regPc[m] = "idle" /\ regPc' = [regPc EXCEPT ![m] = "lock"]
        /\ UNCHANGED <<index, ready, offset, mutex, modOffset, asked, columns, prodVars, readVars, slot>>
    BY <1>2 DEF RegTest
  <2>3. PacketTypeOK'
    BY <2>1, <2>2 DEF PacketTypeOK, prodVars, raceVars, readVars
  <2>4. \A n \in Modules : (regPc'[n] = "columns" <=> regPc[n] = "columns")
                            /\ (regPc[n] = "columns" => request'[n] = request[n])
    BY <2>1, <2>2 DEF PacketTypeOK
  <2>5. ColumnInv'
    BY <2>2, <2>4, ColumnsUnchanged
  <2>6. QED BY <2>3, <2>5
<1>3. ASSUME NEW m \in Modules, RegLock(m) PROVE SetupInv'
  <2>1. /\ regPc[m] = "lock" /\ asked' = [asked EXCEPT ![m] = asked[m] \cup {request[m]}]
        /\ UNCHANGED <<index, ready, offset, request, prodVars, readVars, slot>>
        /\ TellOffset(m) \/ (StartColumns(m) /\ mutex' = m)
    BY <1>3 DEF RegLock, Ask
  <2>2. request[m] \in Requests \cup {NoColumns}
    BY DEF PacketTypeOK
  <2>3. asked' \in [Modules -> SUBSET (Requests \cup {NoColumns})]
    BY <2>1, <2>2 DEF PacketTypeOK
  <2>4. CASE TellOffset(m)
    <3>1. /\ regPc' = [regPc EXCEPT ![m] = "idle"]
          /\ columns' = [columns EXCEPT ![m] = Bytes(modOffset[m], request[m].bytes)]
          /\ UNCHANGED <<mutex, modOffset>>
      BY <2>4 DEF TellOffset
    <3>2. Bytes(modOffset[m], request[m].bytes) \in SUBSET Nat
      BY ColumnTypes
    <3>3. PacketTypeOK'
      BY <2>1, <2>3, <3>1, <3>2 DEF PacketTypeOK, prodVars, raceVars, readVars
    <3>4. QED BY <1>3, <2>4, <3>3, ColumnsTold
  <2>5. CASE StartColumns(m) /\ mutex' = m
    <3>1. /\ regPc' = [regPc EXCEPT ![m] = "columns"]
          /\ modOffset' = [modOffset EXCEPT ![m] = offset] /\ columns' = [columns EXCEPT ![m] = {}]
      BY <2>5 DEF StartColumns
    <3>2. PacketTypeOK'
      BY <2>1, <2>3, <2>5, <3>1 DEF PacketTypeOK, prodVars, raceVars, readVars
    <3>3. QED BY <1>3, <2>5, <3>2, ColumnsStart
  <2>6. QED BY <2>1, <2>4, <2>5
<1>4. ASSUME NEW m \in Modules, RegColumn(m) PROVE SetupInv'
  <2>1. PICK size \in 1 .. GoodEnd(m) - offset : offset' = offset + size
    BY <1>4 DEF RegColumn
  <2>2. /\ regPc[m] = "columns"
        /\ UNCHANGED <<index, ready, mutex, modOffset, regPc, request, asked, columns,
                       prodVars, readVars, slot>>
    BY <1>4 DEF RegColumn
  <2>3. offset' \in Nat /\ offset <= offset' /\ offset' <= GoodEnd(m)
    BY <2>1, ColumnTypes
  <2>4. PacketTypeOK'
    BY <2>2, <2>3 DEF PacketTypeOK, prodVars, raceVars, readVars
  <2>5. \A n \in Modules : Steady(n)' <=> Steady(n)
    BY <2>2 DEF Steady
  <2>6. \A n \in Modules : regPc'[n] = "columns" => n = m
    BY <2>2 DEF ColumnInv
  <2>7. Registering(m)'
    <3>1. Registering(m)
      BY <2>2 DEF ColumnInv
    <3>2. modOffset[m] <= offset' /\ GoodEnd(m)' = GoodEnd(m)
      BY <2>2, <2>3, <3>1, ColumnTypes DEF Registering, GoodEnd
    <3>3. QED BY <2>2, <2>3, <2>5, <3>1, <3>2 DEF Registering
  <2>8. \A n \in Modules : Registered(n) => Registered(n)'
    BY <2>2, <2>5 DEF Registered
  <2>9. 0 .. offset - 1 \subseteq 0 .. offset' - 1
    BY <2>3, ColumnTypes
  <2>10. ColumnInv'
    BY <2>2, <2>5, <2>6, <2>7, <2>8, <2>9 DEF ColumnInv, ColumnsDisjoint
  <2>11. QED BY <2>4, <2>10
<1>5. ASSUME NEW m \in Modules, RegReturn(m) PROVE SetupInv'
  <2>1. /\ regPc' = [regPc EXCEPT ![m] = "idle"] /\ mutex' = -1
        /\ UNCHANGED <<index, ready, offset, modOffset, request, asked, prodVars, readVars, slot>>
        /\ columns' = [columns EXCEPT ![m] = Bytes(modOffset[m], request[m].bytes)] \/ columns' = columns
    BY <1>5 DEF RegReturn
  <2>2. Bytes(modOffset[m], request[m].bytes) \in SUBSET Nat
    BY ColumnTypes
  <2>3. PacketTypeOK'
    BY <2>1, <2>2 DEF PacketTypeOK, prodVars, raceVars, readVars
  <2>4. QED BY <1>5, <2>3, ColumnsReturned
<1>6. ASSUME \/ StartWork \/ \E p \in Producers : ReadTail(p) \/ Produce(p)
             \/ \E m \in Modules : GetNextPacket(m) \/ Read(m)
             \/ Empty \/ S2DMove \/ UNCHANGED vars
      PROVE  SetupInv'
  <2>1. UNCHANGED <<offset, mutex, modOffset, regPc, request, asked, columns, index>>
    BY <1>6 DEF StartWork, ReadTail, Produce, TestLimit, IncrementTail, WaitSlot, Fill,
                GetNextPacket, Read, ModuleMove, Empty, S2DMove, setupVars, vars
  <2>2. ColumnInv'
    BY <2>1, ColumnsUnchanged
  <2>3. PacketTypeOK'
    <3>1. CASE StartWork \/ UNCHANGED vars
      BY <3>1 DEF StartWork, vars, setupVars, prodVars, raceVars, readVars, PacketTypeOK
    <3>2. ASSUME NEW p \in Producers, ReadTail(p) \/ Produce(p) PROVE PacketTypeOK'
      <4>1. Plus(tail, 1) \in Positions
        BY PlusType DEF PacketTypeOK
      <4>2. CASE ReadTail(p)
        BY <4>2 DEF ReadTail, Goto, raceVars, PacketTypeOK, setupVars, readVars
      <4>3. CASE TestLimit(p)
        BY <4>3 DEF TestLimit, Goto, raceVars, PacketTypeOK, setupVars, readVars
      <4>4. CASE IncrementTail(p)
        BY <4>1, <4>4 DEF IncrementTail, Goto, Testing, PacketTypeOK, setupVars, readVars
      <4>5. CASE WaitSlot(p)
        BY <4>5 DEF WaitSlot, raceVars, PacketTypeOK, setupVars, readVars
      <4>6. CASE Fill(p)
        BY <4>6 DEF Fill, Goto, raceVars, PacketTypeOK, setupVars, readVars
      <4>7. QED BY <3>2, <4>2, <4>3, <4>4, <4>5, <4>6 DEF Produce
    <3>3. ASSUME NEW m \in Modules, GetNextPacket(m) PROVE PacketTypeOK'
      <4>1. PICK n \in Gettable(m) : next' = [next EXCEPT ![m] = Plus(next[m], n)]
        BY <3>3 DEF GetNextPacket
      <4>2. Plus(next[m], n) \in Positions
        BY PlusType DEF Gettable, PacketTypeOK
      <4>3. QED BY <3>3, <4>1, <4>2 DEF GetNextPacket, PacketTypeOK, setupVars, prodVars, raceVars
    <3>4. ASSUME NEW m \in Modules, NEW count \in Nat, MoveToNextPacket(m, count)
          PROVE  ptr' \in [Modules -> Positions]
      BY <3>4, PlusType DEF MoveToNextPacket, PacketTypeOK
    <3>5. ASSUME NEW m \in Modules, Read(m) PROVE PacketTypeOK'
      <4>1. ptr' \in [Modules -> Positions]
        BY <3>4, <3>5 DEF Read, ModuleMove
      <4>2. QED BY <3>5, <4>1 DEF Read, ModuleMove, PacketTypeOK, setupVars, prodVars, raceVars
    <3>6. CASE Empty
      BY <3>6, ModuleFacts DEF Empty, PacketTypeOK, setupVars, prodVars, raceVars
    <3>7. CASE S2DMove
      <4>1. ptr' \in [Modules -> Positions]
        BY <3>4, <3>7, ModuleFacts DEF S2DMove
      <4>2. QED BY <3>7, <4>1 DEF S2DMove, PacketTypeOK, setupVars, prodVars, raceVars
    <3>8. QED BY <1>6, <3>1, <3>2, <3>3, <3>5, <3>6, <3>7
  <2>4. QED BY <2>2, <2>3
<1>7. QED BY <1>1, <1>2, <1>3, <1>4, <1>5, <1>6 DEF Next, RegMySelf

(* The variables keep their types: positions stay on the ring, and no more *)
(* bytes of columns are handed out than there are.                         *)
THEOREM PacketTypeCorrect == Spec => []PacketTypeOK
<1>1. SetupInv => PacketTypeOK
  BY DEF SetupInv
<1>2. QED BY <1>1, SetupInit, SetupNext, PTL DEF Spec

(* RegMySelf never tells two modules that one byte of a meta is theirs, if *)
(* each of the two has always asked for the same valid columns: the lock   *)
(* and the running offset are enough, whatever order they register in,     *)
(* however often they come back and whatever the others ask for; also for  *)
(* the first module, which is never seen to have registered.               *)
THEOREM ColumnsStayDisjoint == Spec => []ColumnsDisjoint
<1>1. SetupInv => ColumnsDisjoint
  BY DEF SetupInv, ColumnInv
<1>2. QED BY <1>1, SetupInit, SetupNext, PTL DEF Spec

(***************************************************************************)
(* The ring at work.                                                       *)
(***************************************************************************)
LEMMA DistSum ==
  ASSUME NEW a \in Positions, NEW b \in Positions, NEW c \in Positions,
         Dist(a, b) + Dist(b, c) <= Slots - 1
  PROVE  Dist(a, c) = Dist(a, b) + Dist(b, c)
  BY Sizes DEF Dist, Positions

(* The position before a position is farthest from it.                     *)
LEMMA DistFull ==
  ASSUME NEW a \in Positions, NEW b \in Positions, Plus(b, 1) # a
  PROVE  Dist(a, b) <= Slots - 2
<1>1. 1 \in 0 .. Slots-1
  BY Sizes
<1>2. Plus(b, 1) = IF b + 1 < Slots THEN b + 1 ELSE b + 1 - Slots
  BY <1>1, PlusValue
<1>3. QED BY <1>2, Sizes DEF Dist, Positions

LEMMA Types ==
  ASSUME PacketTypeOK
  PROVE  /\ tail \in Positions /\ 0 \in Modules
         /\ \A m \in Modules : ptr[m] \in Positions /\ next[m] \in Positions
         /\ \A p \in Producers : pos[p] \in Positions
         /\ \A s \in Positions : Place(s) \in 0 .. Slots-1
         /\ \A m \in Modules : Ahead(m) \in 0 .. Slots-1 /\ InHand(m) \in 0 .. Slots-1
         /\ \A m \in Modules : Ahead(m) = Place(ptr[m]) /\ Reached(m) = Ahead(m) + InHand(m)
         /\ Occupied \in 0 .. Slots-1 /\ Occupied = Place(tail)
         /\ Place(ptr[0]) = 0 /\ Ahead(0) = 0
<1>1. /\ tail \in Positions /\ 0 \in Modules
      /\ \A m \in Modules : ptr[m] \in Positions /\ next[m] \in Positions
      /\ \A p \in Producers : pos[p] \in Positions
  BY ModuleFacts DEF PacketTypeOK
<1>2. QED BY <1>1, DistType DEF Place, Ahead, InHand, Reached, Occupied

(* The next packet of a module is at the place it has reached.             *)
LEMMA NextPlace ==
  ASSUME PacketTypeOK, ChainInv, NEW m \in Modules
  PROVE  Place(next[m]) = Reached(m) /\ Reached(m) \in 0 .. Slots-1
<1>1. Reached(m) <= Occupied
  BY DEF ChainInv
<1>2. /\ Occupied \in 0 .. Slots-1 /\ Reached(m) = Ahead(m) + InHand(m)
      /\ Ahead(m) \in 0 .. Slots-1 /\ InHand(m) \in 0 .. Slots-1
      /\ ptr[0] \in Positions /\ ptr[m] \in Positions /\ next[m] \in Positions
  BY Types
<1>3. Ahead(m) + InHand(m) <= Slots - 1 /\ Reached(m) \in 0 .. Slots-1
  BY <1>1, <1>2, Sizes
<1>4. QED BY <1>2, <1>3, DistSum DEF Ahead, InHand, Place

(* The limit of a module is no nearer than the module has come, and no     *)
(* farther than the modules before it.                                     *)
LEMMA LimitPlace ==
  ASSUME PacketTypeOK, ChainInv, index = K, NEW m \in Modules
  PROVE  /\ Limit(m) \in Positions
         /\ Reached(m) <= Place(Limit(m)) /\ Place(Limit(m)) <= Occupied
         /\ m = 0 => \A l \in 1 .. K-1 : Place(Limit(m)) <= Ahead(l)
         /\ \A l \in 1 .. K-1 : l < m => Place(Limit(m)) <= Ahead(l)
<1> USE Sizes, ModuleFacts
<1>1. m \in Nat /\ 0 <= m /\ m <= K-1
  BY DEF Modules
<1>2. \A l \in Modules : Ahead(l) \in Nat /\ Reached(l) \in Nat /\ Ahead(l) <= Reached(l) /\ Reached(l) <= Occupied
  <2>1. \A a, b \in 0 .. Slots-1 : a + b \in Nat /\ a <= a + b
    OBVIOUS
  <2>2. QED BY <2>1, Types DEF ChainInv
<1>3. Occupied \in Nat
  BY Types
<1>4. CASE m = 1 \/ m = Dep(m)
  <2>1. Limit(m) = tail
    BY <1>4 DEF Limit
  <2>2. Limit(m) \in Positions /\ Place(Limit(m)) = Occupied
    BY <2>1, Types
  <2>3. \A l \in 1 .. K-1 : ~(l < m) /\ m # 0
    <3>1. CASE m = 1
      BY <3>1
    <3>2. CASE m = 0
      BY <1>4, <3>2 DEF Dep
    <3>3. CASE m # 0 /\ m # 1
      BY <1>1, <1>4, <3>3 DEF Dep
    <3>4. QED BY <3>1, <3>2, <3>3
  <2>4. QED BY <1>2, <1>3, <2>2, <2>3
<1>5. CASE m = 0 /\ m # Dep(m)
  <2>1. Dep(m) = K-1 /\ K-1 \in 1 .. K-1 /\ K-1 \in Modules /\ Limit(m) = ptr[K-1]
    BY <1>5 DEF Dep, Limit
  <2>2. Limit(m) \in Positions /\ Place(Limit(m)) = Ahead(K-1)
    BY <2>1, Types
  <2>3. Reached(m) <= Ahead(K-1)
    BY <1>5, <2>1 DEF ChainInv
  <2>4. \A l \in 1 .. K-1 : Ahead(K-1) <= Ahead(l)
    <3> SUFFICES ASSUME NEW l \in 1 .. K-1 PROVE Ahead(K-1) <= Ahead(l)
      OBVIOUS
    <3>1. CASE l = K-1
      BY <1>2, <2>1, <3>1
    <3>2. CASE l # K-1
      <4>1. l < K-1
        BY <3>2
      <4>2. Reached(K-1) <= Ahead(l)
        BY <2>1, <4>1 DEF ChainInv
      <4>3. Ahead(K-1) \in Nat /\ Reached(K-1) \in Nat /\ Ahead(l) \in Nat /\ Ahead(K-1) <= Reached(K-1)
        BY <1>2, <2>1
      <4>4. QED BY <4>2, <4>3
    <3>3. QED BY <3>1, <3>2
  <2>5. Ahead(K-1) <= Occupied
    <3>1. Ahead(K-1) \in Nat /\ Reached(K-1) \in Nat /\ Ahead(K-1) <= Reached(K-1) /\ Reached(K-1) <= Occupied
      BY <1>2, <2>1
    <3>2. QED BY <1>3, <3>1
  <2>6. \A l \in 1 .. K-1 : ~(l < m)
    BY <1>5
  <2>7. QED BY <2>2, <2>3, <2>4, <2>5, <2>6
<1>6. CASE m # 0 /\ m # 1
  <2>1. Dep(m) = m-1 /\ m-1 \in 1 .. K-1 /\ m-1 \in Modules /\ m \in 1 .. K-1 /\ m-1 < m /\ m # m-1
    BY <1>1, <1>6 DEF Dep
  <2>2. Limit(m) = ptr[m-1]
    BY <1>6, <2>1 DEF Limit
  <2>3. Limit(m) \in Positions /\ Place(Limit(m)) = Ahead(m-1)
    BY <2>1, <2>2, Types
  <2>4. Reached(m) <= Ahead(m-1)
    BY <2>1 DEF ChainInv
  <2>5. Ahead(m-1) \in Nat /\ Reached(m-1) \in Nat /\ Ahead(m-1) <= Reached(m-1) /\ Reached(m-1) <= Occupied
    BY <1>2, <2>1
  <2>6. \A l \in 1 .. K-1 : l < m => Ahead(m-1) <= Ahead(l)
    <3> SUFFICES ASSUME NEW l \in 1 .. K-1, l < m PROVE Ahead(m-1) <= Ahead(l)
      OBVIOUS
    <3>1. CASE l = m-1
      BY <2>5, <3>1
    <3>2. CASE l # m-1
      <4>1. l < m-1
        BY <1>1, <3>2
      <4>2. Reached(m-1) <= Ahead(l)
        BY <2>1, <4>1 DEF ChainInv
      <4>3. Ahead(l) \in Nat
        BY <1>2
      <4>4. QED BY <2>5, <4>2, <4>3
    <3>3. QED BY <3>1, <3>2
  <2>7. Ahead(m-1) <= Occupied
    BY <1>3, <2>5
  <2>8. QED BY <1>6, <2>3, <2>4, <2>6, <2>7
<1>7. QED BY <1>4, <1>5, <1>6

LEMMA WorkInit == Init => WorkInv
<1> SUFFICES ASSUME Init PROVE WorkInv
  OBVIOUS
<1>1. PacketTypeOK
  BY SetupInit DEF SetupInv
<1>2. 0 \in Positions /\ Dist(0, 0) = 0 /\ \A s \in Positions : 0 <= Dist(0, s)
  <2>1. 0 \in Positions
    BY Sizes DEF Positions
  <2>2. QED BY <2>1, DistType
<1>3. \A m \in Modules : ptr[m] = 0 /\ next[m] = 0
  BY DEF Init
<1>4. Occupied = 0 /\ \A m \in Modules : Ahead(m) = 0 /\ InHand(m) = 0
  BY <1>2, <1>3, ModuleFacts DEF Init, Occupied, Ahead, InHand
<1>5. \A m \in Modules : Reached(m) = 0
  BY <1>4 DEF Reached
<1>6. FreshInv
  BY <1>3 DEF Init, FreshInv
<1>7. ChainInv
  BY <1>4, <1>5, ModuleFacts DEF ChainInv
<1>8. ClaimInv
  BY DEF Init, ClaimInv, Claimed
<1>9. SlotInv
  <2>1. \A s \in Positions : slot[s] = NoPacket /\ ~emptied
    BY DEF Init
  <2>2. \A s \in Positions : ~(Place(s) < 0)
    <3>1. \A s \in Positions : Place(s) \in Nat
      BY <1>1, Types
    <3>2. QED BY <3>1
  <2>3. emptied = FALSE
    BY DEF Init
  <2>4. QED BY <1>5, <2>1, <2>2, <2>3 DEF SlotInv
<1>10. QED BY <1>6, <1>7, <1>8, <1>9 DEF WorkInv

(* A step that leaves the ring alone.                                      *)
LEMMA RingUnchanged ==
  ASSUME WorkInv, FreshInv', UNCHANGED <<tail, ptr, next, slot, pc, pos, stale, emptied>>
  PROVE  WorkInv'
<1>1. ChainInv'
  BY DEF WorkInv, ChainInv, Reached, Ahead, InHand, Occupied
<1>2. \A p \in Producers : Claimed(p)' <=> Claimed(p)
  BY DEF Claimed
<1>3. ClaimInv'
  BY <1>2 DEF WorkInv, ClaimInv, Place, Occupied
<1>4. SlotInv'
  BY DEF WorkInv, SlotInv, Place, Occupied, Reached, Ahead, InHand
<1>5. QED BY <1>1, <1>3, <1>4 DEF WorkInv

(* Before StartWork no thread is in a call, and no module has a packet.    *)
LEMMA WorkNeedsReady ==
  ASSUME PacketTypeOK, FreshInv
  PROVE  /\ ready => index = K
         /\ \A p \in Producers : pc[p] # "idle" => ready
         /\ \A m \in Modules : InHand(m) > 0 => ready
         /\ emptied => ready
<1>1. ASSUME NEW m \in Modules, ~ready PROVE InHand(m) = 0
  BY <1>1, DistType, Types DEF FreshInv, InHand
<1>2. QED BY <1>1 DEF FreshInv

(* Steps of the setup.  InitRing before StartWork finds the ring as it     *)
(* leaves it.                                                              *)
LEMMA WorkSetup ==
  ASSUME ~LateInits, SetupInv, WorkInv,
         \/ \E m \in Modules : InitRing(m) \/ RegTest(m) \/ RegMySelf(m)
         \/ StartWork \/ UNCHANGED vars
  PROVE  WorkInv' /\ UNCHANGED <<tail, ptr, next, slot, pc, pos, stale, emptied>>
<1>1. CASE \E m \in Modules : InitRing(m)
  <2>1. PICK m \in Modules : InitRing(m)
    BY <1>1
  <2>2. ~ready
    BY <2>1 DEF InitRing
  <2>3. ptr' = ptr /\ next' = next /\ slot' = slot
    <3>1. ptr[m] = 0 /\ next[m] = 0 /\ slot = [s \in Positions |-> NoPacket]
      BY <2>2 DEF WorkInv, FreshInv, SetupInv, PacketTypeOK
    <3>2. QED BY <2>1, <3>1 DEF InitRing, SetupInv, PacketTypeOK
  <2>4. UNCHANGED <<ready, tail, pc, pos, stale, emptied>>
    BY <2>1 DEF InitRing, prodVars, raceVars
  <2>5. FreshInv'
    BY <2>2, <2>3, <2>4 DEF WorkInv, FreshInv
  <2>6. QED BY <2>3, <2>4, <2>5, RingUnchanged
<1>2. CASE (\E m \in Modules : RegTest(m) \/ RegMySelf(m)) \/ UNCHANGED vars
  <2>1. UNCHANGED <<index, ready, tail, ptr, next, slot, pc, pos, stale, emptied>>
    BY <1>2 DEF RegTest, RegMySelf, RegLock, RegColumn, RegReturn, vars, setupVars, prodVars, raceVars, readVars
  <2>2. FreshInv'
    BY <2>1 DEF WorkInv, FreshInv
  <2>3. QED BY <2>1, <2>2, RingUnchanged
<1>3. CASE StartWork
  <2>1. UNCHANGED <<index, tail, ptr, next, slot, pc, pos, stale, emptied>> /\ index = K /\ ready' = TRUE
    BY <1>3 DEF StartWork, prodVars, raceVars, readVars
  <2>2. FreshInv'
    BY <2>1 DEF FreshInv
  <2>3. QED BY <2>1, <2>2, RingUnchanged
<1>4. QED BY <1>1, <1>2, <1>3

(* ReadTail: what the producer has seen is up to date.                     *)
LEMMA WorkReadTail ==
  ASSUME PacketTypeOK, WorkInv, NEW p \in Producers, ReadTail(p)
  PROVE  WorkInv' /\ UNCHANGED <<tail, ptr, next, slot, emptied>>
<1>1. /\ ready /\ pc[p] = "idle" /\ pc' = [pc EXCEPT ![p] = "test"]
      /\ pos' = [pos EXCEPT ![p] = tail] /\ stale' = stale \ {p}
      /\ UNCHANGED <<index, ready, tail, ptr, next, slot, emptied>>
  BY DEF ReadTail, Goto, setupVars, readVars
<1>2. pc \in [Producers -> {"idle", "test", "claim", "wait", "fill"}] /\ pos \in [Producers -> Positions]
  BY DEF PacketTypeOK
<1>3. /\ pc'[p] = "test" /\ pos'[p] = tail
      /\ \A q \in Producers \ {p} : pc'[q] = pc[q] /\ pos'[q] = pos[q] /\ (q \in stale' <=> q \in stale)
  BY <1>1, <1>2
<1>4. ClaimInv'
  <2>1. \A q \in Producers : Claimed(q)' <=> Claimed(q) /\ q # p
    BY <1>1, <1>3 DEF Claimed
  <2>2. \A q \in Producers : pc'[q] = "test" /\ q \notin stale' => pos'[q] = tail'
    BY <1>1, <1>3 DEF WorkInv, ClaimInv
  <2>3. \A q \in Producers : pc'[q] = "claim" /\ q \notin stale' => Occupied <= Slots - 2
    BY <1>3 DEF WorkInv, ClaimInv
  <2>4. Occupied' = Occupied
    BY <1>1 DEF Occupied
  <2>5. ASSUME NEW q \in Producers, Claimed(q)'
        PROVE  /\ Place(pos'[q]) < Occupied /\ slot[pos'[q]] = NoPacket
               /\ ~(emptied /\ pos'[q] = ptr[0])
               /\ \A r \in Producers : Claimed(r)' /\ pos'[r] = pos'[q] => r = q
    BY <1>3, <2>1, <2>5 DEF WorkInv, ClaimInv
  <2>6. QED BY <1>1, <2>2, <2>3, <2>4, <2>5 DEF ClaimInv, Place
<1>5. ChainInv'
  BY <1>1 DEF WorkInv, ChainInv, Reached, Ahead, InHand, Occupied
<1>6. SlotInv'
  BY <1>1 DEF WorkInv, SlotInv, Place, Occupied, Reached, Ahead, InHand
<1>7. FreshInv'
  BY <1>1 DEF WorkInv, FreshInv
<1>8. QED BY <1>1, <1>4, <1>5, <1>6, <1>7 DEF WorkInv

(* TestLimit: if the tail it tests is still the tail, a ring that is not   *)
(* full has room for one more packet until the tail is incremented.        *)
LEMMA WorkTestLimit ==
  ASSUME PacketTypeOK, WorkInv, NEW p \in Producers, TestLimit(p)
  PROVE  WorkInv' /\ UNCHANGED <<tail, ptr, next, slot, emptied>>
<1>1. /\ pc[p] = "test" /\ pc' = [pc EXCEPT ![p] = IF IsFull(p) THEN "idle" ELSE "claim"]
      /\ UNCHANGED <<index, ready, tail, ptr, next, slot, emptied, pos, stale>>
  BY DEF TestLimit, Goto, setupVars, raceVars, readVars
<1>2. pc \in [Producers -> {"idle", "test", "claim", "wait", "fill"}]
  BY DEF PacketTypeOK
<1>3. /\ pc'[p] = "idle" \/ (pc'[p] = "claim" /\ ~IsFull(p))
      /\ \A q \in Producers \ {p} : pc'[q] = pc[q]
  BY <1>1, <1>2
<1>5. p \notin stale => pos[p] = tail
  BY <1>1 DEF WorkInv, ClaimInv
<1>6. p \notin stale /\ ~IsFull(p) => Occupied <= Slots - 2
  BY <1>5, Types, DistFull DEF IsFull, Occupied
<1>7. ClaimInv'
  <2>1. \A q \in Producers : Claimed(q)' <=> Claimed(q)
    BY <1>1, <1>3 DEF Claimed
  <2>3. \A q \in Producers : pc'[q] = "test" /\ q \notin stale => pos'[q] = tail'
    BY <1>1, <1>3 DEF WorkInv, ClaimInv
  <2>4. \A q \in Producers : pc'[q] = "claim" /\ q \notin stale => Occupied <= Slots - 2
    BY <1>3, <1>6 DEF WorkInv, ClaimInv
  <2>5. Occupied' = Occupied
    BY <1>1 DEF Occupied
  <2>6. QED BY <1>1, <2>1, <2>3, <2>4, <2>5 DEF WorkInv, ClaimInv, Place
<1>8. ChainInv'
  BY <1>1 DEF WorkInv, ChainInv, Reached, Ahead, InHand, Occupied
<1>9. SlotInv'
  BY <1>1 DEF WorkInv, SlotInv, Place, Occupied, Reached, Ahead, InHand
<1>10. FreshInv'
  <2>1. ready /\ index = K
    BY <1>1, WorkNeedsReady DEF WorkInv
  <2>2. QED BY <1>1, <2>1 DEF FreshInv
<1>11. QED BY <1>1, <1>7, <1>8, <1>9, <1>10 DEF WorkInv

(* IncrementTail: the claimed slot is the one after all others, empty, and *)
(* no other producer's.  A producer that is not up to date has room, too,  *)
(* or the ring overruns.                                                   *)
LEMMA WorkIncrementTail ==
  ASSUME PacketTypeOK, WorkInv, NEW p \in Producers, IncrementTail(p), ~overrun'
  PROVE  /\ WorkInv' /\ UNCHANGED <<ptr, next, slot, emptied>>
         /\ Occupied <= Slots - 2 /\ Occupied' = Occupied + 1
         /\ Place(tail) = Occupied /\ slot[tail] = NoPacket /\ ~(emptied /\ tail = ptr[0])
<1>1. /\ pc[p] = "claim" /\ pc' = [pc EXCEPT ![p] = "wait"]
      /\ pos' = [pos EXCEPT ![p] = tail] /\ tail' = Plus(tail, 1)
      /\ stale' = (stale \cup Testing) \ {p} /\ (p \in stale => Plus(tail, 1) # ptr[0])
      /\ UNCHANGED <<index, ready, ptr, next, slot, emptied>>
  BY DEF IncrementTail, Goto, setupVars, readVars
<1>2. pc \in [Producers -> {"idle", "test", "claim", "wait", "fill"}] /\ pos \in [Producers -> Positions]
  BY DEF PacketTypeOK
<1>3. /\ pc'[p] = "wait" /\ pos'[p] = tail
      /\ \A q \in Producers \ {p} : pc'[q] = pc[q] /\ pos'[q] = pos[q]
  BY <1>1, <1>2
<1>4. Occupied <= Slots - 2 /\ Occupied \in 0 .. Slots-1 /\ Occupied = Place(tail)
      /\ tail \in Positions /\ ptr[0] \in Positions
  <2>1. Occupied \in 0 .. Slots-1 /\ Occupied = Place(tail) /\ tail \in Positions /\ ptr[0] \in Positions
    BY Types
  <2>2. CASE p \in stale
    BY <1>1, <2>1, <2>2, DistFull DEF Place
  <2>3. CASE p \notin stale
    BY <1>1, <2>1, <2>3 DEF WorkInv, ClaimInv
  <2>4. QED BY <2>1, <2>2, <2>3
<1>5. Occupied' = Occupied + 1
  <2>1. Dist(ptr[0], tail) + 1 <= Slots - 1 /\ 1 \in Nat
    BY <1>4, Sizes DEF Occupied
  <2>2. Dist(ptr[0], Plus(tail, 1)) = Dist(ptr[0], tail) + 1
    BY <1>4, <2>1, DistPlus
  <2>3. QED BY <1>1, <2>2 DEF Occupied
<1>6. slot[tail] = NoPacket
  <2>1. Place(tail) >= Occupied
    BY <1>4
  <2>2. QED BY <1>4, <2>1 DEF WorkInv, SlotInv
<1>7. ~(emptied /\ tail = ptr[0])
  <2>1. SUFFICES ASSUME emptied, tail = ptr[0] PROVE FALSE
    OBVIOUS
  <2>2. Occupied = 0
    BY <1>4, <2>1, DistType DEF Occupied
  <2>3. InHand(0) > 0 /\ Reached(0) <= Occupied /\ Reached(0) = Ahead(0) + InHand(0) /\ Ahead(0) = 0
        /\ InHand(0) \in 0 .. Slots-1
    BY <2>1, Types, ModuleFacts DEF WorkInv, SlotInv, ChainInv
  <2>4. QED BY <2>2, <2>3
<1>8. \A s \in Positions : Place(s)' = Place(s) /\ Place(s) \in 0 .. Slots-1
  BY <1>1, Types DEF Place
<1>9. ChainInv'
  <2>1. \A m \in Modules : Reached(m)' = Reached(m) /\ Reached(m) <= Occupied /\ Reached(m) \in 0 .. Slots-1
    BY <1>1, NextPlace DEF Reached, Ahead, InHand, WorkInv, ChainInv
  <2>2. \A m \in Modules : Reached(m)' <= Occupied'
    BY <1>4, <1>5, <2>1
  <2>3. \A m \in 1 .. K-1 : Reached(m)' = Reached(m) /\ Ahead(m)' = Ahead(m)
    BY <1>1 DEF Reached, Ahead, InHand
  <2>4. Reached(0)' = Reached(0)
    BY <1>1 DEF Reached, Ahead, InHand
  <2>5. QED BY <2>2, <2>3, <2>4 DEF WorkInv, ChainInv
<1>10. ClaimInv'
  <2>1. \A q \in Producers : Claimed(q)' <=> Claimed(q) \/ q = p
    BY <1>3 DEF Claimed
  <2>3. \A q \in Producers : pc'[q] = "test" \/ pc'[q] = "claim" => q \in stale'
    BY <1>1, <1>3 DEF Testing
  <2>4. ASSUME NEW q \in Producers, Claimed(q), q # p
        PROVE  /\ Place(pos[q]) < Occupied' /\ Place(pos[q]) < Place(tail) /\ pos[q] # tail
    <3>1. Place(pos[q]) < Occupied /\ Place(pos[q]) \in 0 .. Slots-1
      BY <1>8, <2>4, Types DEF WorkInv, ClaimInv
    <3>2. Place(pos[q]) < Occupied' /\ Place(pos[q]) < Place(tail) /\ Place(tail) \in Nat
      BY <1>4, <1>5, <3>1
    <3>3. pos[q] # tail
      BY <1>4, <3>1, <3>2
    <3>4. QED BY <3>2, <3>3
  <2>5. ~Claimed(p)
    BY <1>1 DEF Claimed
  <2>6. Place(tail) < Occupied'
    BY <1>4, <1>5
  <2>7. ASSUME NEW q \in Producers, Claimed(q)'
        PROVE  /\ Place(pos'[q]) < Occupied' /\ slot[pos'[q]] = NoPacket
               /\ ~(emptied /\ pos'[q] = ptr[0])
               /\ \A r \in Producers : Claimed(r)' /\ pos'[r] = pos'[q] => r = q
    <3>1. CASE q = p
      BY <1>3, <1>6, <1>7, <2>1, <2>4, <2>6, <3>1
    <3>2. CASE q # p
      <4>1. Claimed(q) /\ pos'[q] = pos[q]
        BY <1>3, <2>1, <2>7, <3>2
      <4>2. QED BY <1>3, <2>1, <2>4, <3>2, <4>1 DEF WorkInv, ClaimInv
    <3>3. QED BY <3>1, <3>2
  <2>8. QED BY <1>1, <2>3, <2>7 DEF ClaimInv, Place
<1>11. SlotInv'
  <2>1. ASSUME NEW s \in Positions, Place(s) >= Occupied' PROVE slot[s] = NoPacket
    <3>1. Place(s) >= Occupied
      BY <1>4, <1>5, <1>8, <2>1
    <3>2. QED BY <3>1 DEF WorkInv, SlotInv
  <2>2. \A m \in Modules : Reached(m)' = Reached(m)
    BY <1>1 DEF Reached, Ahead, InHand
  <2>3. InHand(0)' = InHand(0)
    BY <1>1 DEF InHand
  <2>4. QED BY <1>1, <1>8, <2>1, <2>2, <2>3 DEF WorkInv, SlotInv
<1>12. FreshInv'
  <2>1. ready /\ index = K
    BY <1>1, WorkNeedsReady DEF WorkInv
  <2>2. QED BY <1>1, <2>1 DEF FreshInv
<1>13. QED BY <1>1, <1>4, <1>5, <1>6, <1>7, <1>9, <1>10, <1>11, <1>12 DEF WorkInv

LEMMA WorkWaitSlot ==
  ASSUME PacketTypeOK, WorkInv, NEW p \in Producers, WaitSlot(p)
  PROVE  WorkInv' /\ UNCHANGED <<tail, ptr, next, slot, emptied>>
<1>1. PICK wait \in BOOLEAN :
        pc' = [pc EXCEPT ![p] = IF slot[pos[p]] = NoPacket THEN "fill"
                                ELSE IF wait THEN "wait" ELSE "idle"]
  BY DEF WaitSlot
<1>2. pc[p] = "wait" /\ UNCHANGED <<index, ready, tail, ptr, next, slot, emptied, pos, stale>>
  BY DEF WaitSlot, setupVars, raceVars, readVars
<1>3. pc'[p] \in {"fill", "wait", "idle"} /\ \A q \in Producers \ {p} : pc'[q] = pc[q]
  BY <1>1 DEF PacketTypeOK
<1>4. \A q \in Producers : Claimed(q)' => Claimed(q)
  BY <1>2, <1>3 DEF Claimed
<1>5. \A q \in Producers : pc'[q] \in {"test", "claim"} => pc[q] = pc'[q]
  BY <1>3
<1>6. Occupied' = Occupied
  BY <1>2 DEF Occupied
<1>7. ClaimInv'
  BY <1>2, <1>4, <1>5, <1>6 DEF WorkInv, ClaimInv, Place
<1>8. ChainInv'
  BY <1>2 DEF WorkInv, ChainInv, Reached, Ahead, InHand, Occupied
<1>9. SlotInv'
  BY <1>2 DEF WorkInv, SlotInv, Place, Occupied, Reached, Ahead, InHand
<1>10. FreshInv'
  <2>1. ready /\ index = K
    BY <1>2, WorkNeedsReady DEF WorkInv
  <2>2. QED BY <1>2, <2>1 DEF FreshInv
<1>11. QED BY <1>2, <1>7, <1>8, <1>9, <1>10 DEF WorkInv

(* Fill: the slot of the producer is not one another producer claims, nor  *)
(* the one S2D has emptied.                                                *)
LEMMA WorkFill ==
  ASSUME PacketTypeOK, WorkInv, NEW p \in Producers, Fill(p)
  PROVE  /\ WorkInv' /\ UNCHANGED <<tail, ptr, next, emptied>>
         /\ pos[p] \in Positions /\ Place(pos[p]) < Occupied
         /\ slot[pos[p]] = NoPacket /\ ~(emptied /\ pos[p] = ptr[0])
         /\ \E packet \in Packets : slot' = [slot EXCEPT ![pos[p]] = packet]
<1>1. PICK packet \in Packets : slot' = [slot EXCEPT ![pos[p]] = packet]
  BY DEF Fill
<1>2. pc[p] = "fill" /\ pc' = [pc EXCEPT ![p] = "idle"]
      /\ UNCHANGED <<index, ready, tail, ptr, next, emptied, pos, stale>>
  BY DEF Fill, Goto, setupVars, raceVars, readVars
<1>3. Claimed(p)
  BY <1>2 DEF Claimed
<1>4. /\ pos[p] \in Positions /\ Place(pos[p]) < Occupied
      /\ slot[pos[p]] = NoPacket /\ ~(emptied /\ pos[p] = ptr[0])
      /\ \A q \in Producers : Claimed(q) /\ pos[q] = pos[p] => q = p
  BY <1>3, Types DEF WorkInv, ClaimInv
<1>5. pc'[p] = "idle" /\ \A q \in Producers \ {p} : pc'[q] = pc[q]
  BY <1>2 DEF PacketTypeOK
<1>6. slot'[pos[p]] # NoPacket /\ \A s \in Positions \ {pos[p]} : slot'[s] = slot[s]
  BY <1>1, <1>4, Sizes DEF PacketTypeOK
<1>7. Occupied' = Occupied /\ \A s \in Positions : Place(s)' = Place(s)
  BY <1>2 DEF Occupied, Place
<1>8. ClaimInv'
  <2>1. \A q \in Producers : Claimed(q)' => Claimed(q) /\ q # p
    BY <1>5 DEF Claimed
  <2>3. \A q \in Producers : Claimed(q)' => slot'[pos[q]] = NoPacket
    <3>1. \A q \in Producers : Claimed(q)' => pos[q] \in Positions \ {pos[p]}
      BY <1>4, <2>1, Types
    <3>2. QED BY <1>6, <2>1, <3>1 DEF WorkInv, ClaimInv
  <2>4. \A q \in Producers : pc'[q] \in {"test", "claim"} => pc'[q] = pc[q]
    BY <1>5
  <2>5. QED BY <1>2, <1>7, <2>1, <2>3, <2>4 DEF WorkInv, ClaimInv, Place
<1>9. ChainInv'
  BY <1>2 DEF WorkInv, ChainInv, Reached, Ahead, InHand, Occupied
<1>10. SlotInv'
  <2>1. \A m \in Modules : Reached(m)' = Reached(m)
    BY <1>2 DEF Reached, Ahead, InHand
  <2>2. InHand(0)' = InHand(0) /\ ptr[0] \in Positions
    BY <1>2, Types DEF InHand
  <2>3. \A s \in Positions : Place(s) >= Occupied => slot'[s] = NoPacket
    <3>1. \A s \in Positions : Place(s) >= Occupied => s # pos[p]
      <4>1. Place(pos[p]) \in 0 .. Slots-1 /\ Occupied \in 0 .. Slots-1
        BY <1>4, Types
      <4>2. ~(Place(pos[p]) >= Occupied)
        BY <1>4, <4>1
      <4>3. QED BY <4>2
    <3>2. QED BY <1>6, <3>1 DEF WorkInv, SlotInv
  <2>4. ASSUME NEW m \in Modules, NEW s \in Positions, Place(s) < Reached(m), ~(emptied /\ s = ptr[0])
        PROVE  slot'[s] # NoPacket
    <3>1. slot[s] # NoPacket
      BY <2>4 DEF WorkInv, SlotInv
    <3>2. QED BY <1>6, <3>1
  <2>5. emptied => InHand(0) > 0 /\ slot'[ptr[0]] = NoPacket
    BY <1>4, <1>6, <2>2 DEF WorkInv, SlotInv
  <2>6. QED BY <1>2, <1>7, <2>1, <2>2, <2>3, <2>4, <2>5 DEF SlotInv
<1>11. FreshInv'
  <2>1. ready /\ index = K
    BY <1>2, WorkNeedsReady DEF WorkInv
  <2>2. QED BY <1>2, <2>1 DEF FreshInv
<1>12. QED BY <1>1, <1>2, <1>4, <1>8, <1>9, <1>10, <1>11 DEF WorkInv

(* GetNextPacket: all packets up to the one it stops at are filled.        *)
LEMMA WorkGetNextPacket ==
  ASSUME PacketTypeOK, WorkInv, NEW m \in Modules, GetNextPacket(m)
  PROVE  WorkInv' /\ UNCHANGED <<tail, ptr, slot, emptied>>
<1>1. PICK n \in Gettable(m) : next' = [next EXCEPT ![m] = Plus(next[m], n)]
  BY DEF GetNextPacket
<1>2. ready /\ UNCHANGED <<index, ready, tail, pc, pos, stale, ptr, slot, emptied>>
  BY DEF GetNextPacket, setupVars, prodVars, raceVars
<1>3. ready /\ index = K /\ ChainInv /\ SlotInv
  BY <1>2 DEF WorkInv, FreshInv
<1>4. /\ Place(next[m]) = Reached(m) /\ Reached(m) \in 0 .. Slots-1
      /\ Limit(m) \in Positions /\ Reached(m) <= Place(Limit(m)) /\ Place(Limit(m)) <= Occupied
      /\ next[m] \in Positions /\ ptr[m] \in Positions /\ ptr[0] \in Positions
      /\ Place(Limit(m)) \in 0 .. Slots-1 /\ Occupied \in 0 .. Slots-1
      /\ Ahead(m) \in 0 .. Slots-1 /\ InHand(m) \in 0 .. Slots-1 /\ Reached(m) = Ahead(m) + InHand(m)
  BY <1>3, NextPlace, LimitPlace, Types
<1> DEFINE limit == Place(Limit(m))
           reached == Reached(m)
<1>5. Dist(next[m], Limit(m)) = limit - reached
  BY <1>4, DistBetween DEF Place
<1>6. /\ n \in Nat /\ n >= 1 /\ n <= limit - reached
      /\ \A i \in 0 .. n-1 : slot[Plus(next[m], i)] # NoPacket
  <2>1. n \in 1 .. limit - reached
    BY <1>1, <1>5 DEF Gettable
  <2>2. limit - reached \in Int
    BY <1>4
  <2> HIDE DEF limit, reached
  <2>3. n \in Nat /\ n >= 1 /\ n <= limit - reached
    BY <2>1, <2>2
  <2>4. \A i \in 0 .. n-1 : slot[Plus(next[m], i)] # NoPacket
    BY <1>1 DEF Gettable
  <2>5. QED BY <2>3, <2>4
<1>7. InHand(m) + n <= Slots - 1 /\ InHand(m) + n \in Nat
  BY <1>4, <1>6, Sizes
<1>8. Dist(ptr[m], Plus(next[m], n)) = InHand(m) + n
  BY <1>4, <1>6, <1>7, DistPlus DEF InHand
<1>9. next'[m] = Plus(next[m], n) /\ \A l \in Modules \ {m} : next'[l] = next[l]
  BY <1>1 DEF PacketTypeOK
<1>10. /\ InHand(m)' = InHand(m) + n /\ \A l \in Modules \ {m} : InHand(l)' = InHand(l)
       /\ \A l \in Modules : Ahead(l)' = Ahead(l)
       /\ Occupied' = Occupied /\ \A s \in Positions : Place(s)' = Place(s) /\ Place(s) \in 0 .. Slots-1
  <2>1. InHand(m)' = InHand(m) + n
    BY <1>2, <1>8, <1>9 DEF InHand
  <2>2. \A l \in Modules \ {m} : InHand(l)' = InHand(l)
    BY <1>2, <1>9 DEF InHand
  <2>3. \A l \in Modules : Ahead(l)' = Ahead(l)
    BY <1>2 DEF Ahead
  <2>4. Occupied' = Occupied /\ \A s \in Positions : Place(s)' = Place(s) /\ Place(s) \in 0 .. Slots-1
    BY <1>2, Types DEF Occupied, Place
  <2>5. QED BY <2>1, <2>2, <2>3, <2>4
<1>11. \A l \in Modules \ {m} : Reached(l)' = Reached(l)
  BY <1>10 DEF Reached
<1>12. Reached(m)' = Reached(m) + n /\ Reached(m)' <= Place(Limit(m)) /\ Reached(m)' \in Nat
  <2>1. Reached(m)' = Ahead(m) + (InHand(m) + n)
    BY <1>10 DEF Reached
  <2>2. Reached(m)' = Reached(m) + n
    BY <1>4, <1>6, <2>1
  <2>3. QED BY <1>4, <1>6, <2>2
<1>13. ChainInv'
  <2>1. \A l \in Modules : Reached(l)' <= Occupied'
    <3>1. Reached(m)' <= Occupied
      BY <1>4, <1>12
    <3>2. QED BY <1>3, <1>10, <1>11, <3>1 DEF ChainInv
  <2>2. ASSUME NEW l \in 1 .. K-1, m = 0 \/ l < m PROVE Reached(m)' <= Ahead(l)
    <3>1. Place(Limit(m)) <= Ahead(l)
      BY <1>3, <2>2, LimitPlace
    <3>2. Ahead(l) \in Nat
      BY Types, ModuleFacts
    <3>3. QED BY <1>4, <1>12, <3>1, <3>2
  <2>3. \A l \in 1 .. K-1 : Reached(0)' <= Ahead(l)
    <3>1. CASE m = 0
      BY <2>2, <3>1
    <3>2. CASE m # 0
      BY <1>3, <1>11, <3>2, ModuleFacts DEF ChainInv
    <3>3. QED BY <3>1, <3>2
  <2>4. \A l, k \in 1 .. K-1 : l < k => Reached(k)' <= Ahead(l)
    <3> SUFFICES ASSUME NEW l \in 1 .. K-1, NEW k \in 1 .. K-1, l < k PROVE Reached(k)' <= Ahead(l)
      OBVIOUS
    <3>1. CASE k = m
      BY <2>2, <3>1
    <3>2. CASE k # m
      BY <1>3, <1>11, <3>2, ModuleFacts DEF ChainInv
    <3>3. QED BY <3>1, <3>2
  <2>5. \A l \in 1 .. K-1 : Ahead(l)' = Ahead(l)
    BY <1>10, ModuleFacts
  <2>6. QED BY <2>1, <2>3, <2>4, <2>5 DEF ChainInv
<1>14. SlotInv'
  <2>1. ASSUME NEW s \in Positions, Place(s) < Reached(m)', ~(emptied /\ s = ptr[0])
        PROVE  slot[s] # NoPacket
    <3>1. CASE Place(s) < Reached(m)
      BY <1>3, <2>1, <3>1 DEF SlotInv
    <3>2. CASE ~(Place(s) < Reached(m))
      <4> DEFINE i == Place(s) - Reached(m)
      <4>1. i \in 0 .. n-1 /\ i \in Nat /\ Reached(m) + i = Place(s) /\ Place(s) \in 0 .. Slots-1
        BY <1>4, <1>6, <1>10, <1>12, <2>1, <3>2
      <4> HIDE DEF i
      <4>2. Dist(ptr[0], next[m]) + i = Place(s) /\ Dist(ptr[0], next[m]) + i <= Slots - 1
        BY <1>4, <4>1, Sizes DEF Place
      <4>3. Plus(next[m], i) \in Positions /\ Dist(ptr[0], Plus(next[m], i)) = Dist(ptr[0], s)
        BY <1>4, <4>1, <4>2, DistPlus DEF Place
      <4>4. Plus(next[m], i) = s
        BY <1>4, <4>3, DistInjective
      <4>5. QED BY <1>6, <4>1, <4>4
    <3>3. QED BY <3>1, <3>2
  <2>2. ASSUME NEW l \in Modules, NEW s \in Positions,
               Place(s) < Reached(l)', ~(emptied /\ s = ptr[0])
        PROVE  slot[s] # NoPacket
    <3>1. CASE l = m
      BY <2>1, <2>2, <3>1
    <3>2. CASE l # m
      BY <1>3, <1>11, <2>2, <3>2 DEF SlotInv
    <3>3. QED BY <3>1, <3>2
  <2>3. emptied => InHand(0)' > 0
    <3>1. ASSUME emptied PROVE InHand(0)' > 0
      <4>1. InHand(0) > 0
        BY <1>3, <3>1 DEF SlotInv
      <4>2. CASE m = 0
        <5>1. InHand(m) > 0
          BY <4>1, <4>2
        <5>2. InHand(m) + n > 0
          BY <1>4, <1>6, <5>1
        <5>3. QED BY <1>10, <4>2, <5>2
      <4>3. CASE m # 0
        BY <1>10, <4>1, <4>3, ModuleFacts
      <4>4. QED BY <4>2, <4>3
    <3>2. QED BY <3>1
  <2>4. QED BY <1>2, <1>3, <1>10, <2>2, <2>3 DEF SlotInv
<1>15. ClaimInv'
  <2>1. \A q \in Producers : Claimed(q)' <=> Claimed(q)
    BY <1>2 DEF Claimed
  <2>2. QED BY <1>2, <1>10, <2>1 DEF WorkInv, ClaimInv, Place
<1>16. FreshInv'
  BY <1>2, <1>3 DEF FreshInv
<1>17. QED BY <1>2, <1>13, <1>14, <1>15, <1>16 DEF WorkInv

(* ModuleMove: what a module has got stays ahead of it.                    *)
LEMMA WorkModuleMove ==
  ASSUME PacketTypeOK, WorkInv, NEW m \in Modules, NEW count \in 1 .. MaxInHand, ModuleMove(m, count)
  PROVE  /\ WorkInv' /\ UNCHANGED <<tail, next, slot, emptied>> /\ ptr'[0] = ptr[0]
         /\ \/ UNCHANGED ptr
            \/ /\ ptr' = [ptr EXCEPT ![m] = Plus(ptr[m], count)]
               /\ Ahead(m)' = Ahead(m) + count /\ Ahead(m)' <= Reached(m)
               /\ \A l \in Modules \ {m} : Ahead(l)' = Ahead(l)
<1>1. m # 0 /\ count <= InHand(m) /\ count \in Nat /\ count >= 1
      /\ UNCHANGED <<index, ready, tail, pc, pos, stale, next, slot, emptied>>
  BY PacketRingAssumption DEF ModuleMove, setupVars, prodVars, raceVars
<1>2. ready /\ index = K /\ InHand(m) \in 0 .. Slots-1
  <2>1. InHand(m) \in 0 .. Slots-1
    BY Types
  <2>2. InHand(m) > 0
    BY <1>1, <2>1
  <2>3. QED BY <2>1, <2>2, WorkNeedsReady DEF WorkInv
<1>3. FreshInv'
  BY <1>1, <1>2 DEF FreshInv
<1>4. CASE UNCHANGED ptr
  <2>1. WorkInv'
    BY <1>1, <1>3, <1>4, RingUnchanged
  <2>2. QED BY <1>1, <1>4, <2>1
<1>5. CASE ptr' = [ptr EXCEPT ![m] = Plus(ptr[m], count)]
  <2>1. ptr'[m] = Plus(ptr[m], count) /\ \A l \in Modules \ {m} : ptr'[l] = ptr[l]
    BY <1>5 DEF PacketTypeOK
  <2>2. ptr'[0] = ptr[0]
    BY <1>1, <2>1, ModuleFacts
  <2>3. /\ ptr[0] \in Positions /\ ptr[m] \in Positions /\ next[m] \in Positions
        /\ Ahead(m) \in 0 .. Slots-1 /\ Reached(m) = Ahead(m) + InHand(m)
        /\ Reached(m) \in 0 .. Slots-1 /\ ChainInv
    BY Types, NextPlace DEF WorkInv
  <2>4. Ahead(m) + count <= Slots - 1 /\ InHand(m) >= count /\ count <= Slots - 1
    BY <1>1, <1>2, <2>3, Sizes
  <2>5. ptr'[m] \in Positions /\ Ahead(m)' = Ahead(m) + count
    <3>1. Plus(ptr[m], count) \in Positions /\ Dist(ptr[0], Plus(ptr[m], count)) = Ahead(m) + count
      BY <1>1, <2>3, <2>4, DistPlus DEF Ahead
    <3>2. QED BY <2>1, <2>2, <3>1 DEF Ahead
  <2>6. InHand(m)' = InHand(m) - count
    <3>1. Dist(ptr[m], ptr[m]) = 0
      BY <2>3, DistType
    <3>2. Dist(ptr[m], ptr[m]) + count <= Slots - 1
      BY <1>1, <2>4, <3>1
    <3>3. Plus(ptr[m], count) \in Positions /\ Dist(ptr[m], Plus(ptr[m], count)) = Dist(ptr[m], ptr[m]) + count
      BY <1>1, <2>3, <3>2, DistPlus
    <3>4. Dist(ptr[m], Plus(ptr[m], count)) = count
      BY <1>1, <3>1, <3>3
    <3>5. Dist(ptr[m], ptr'[m]) <= Dist(ptr[m], next[m])
      BY <1>1, <2>1, <3>4 DEF InHand
    <3>6. Dist(ptr'[m], next[m]) = Dist(ptr[m], next[m]) - Dist(ptr[m], ptr'[m])
      BY <2>3, <2>5, <3>5, DistBetween
    <3>7. QED BY <1>1, <2>1, <3>4, <3>6 DEF InHand
  <2>7. Reached(m)' = Reached(m) /\ Ahead(m) <= Ahead(m)' /\ Ahead(m)' <= Reached(m) /\ Ahead(m)' \in Nat
    <3>1. Reached(m)' = (Ahead(m) + count) + (InHand(m) - count)
      BY <2>5, <2>6 DEF Reached
    <3>2. Reached(m)' = Reached(m)
      BY <1>1, <1>2, <2>3, <3>1
    <3>3. QED BY <1>1, <1>2, <2>3, <2>5, <3>2
  <2>8. /\ \A l \in Modules \ {m} : Ahead(l)' = Ahead(l) /\ InHand(l)' = InHand(l) /\ Reached(l)' = Reached(l)
        /\ Occupied' = Occupied /\ \A s \in Positions : Place(s)' = Place(s)
    <3>1. \A l \in Modules \ {m} : Ahead(l)' = Ahead(l)
      BY <2>1, <2>2 DEF Ahead
    <3>2. \A l \in Modules \ {m} : InHand(l)' = InHand(l)
      BY <1>1, <2>1 DEF InHand
    <3>3. \A l \in Modules \ {m} : Reached(l)' = Reached(l)
      BY <3>1, <3>2 DEF Reached
    <3>4. QED BY <1>1, <2>2, <3>1, <3>2, <3>3 DEF Occupied, Place
  <2>9. /\ \A l \in Modules : Reached(l)' = Reached(l) /\ Reached(l) \in Nat
        /\ \A l \in Modules : Ahead(l) <= Ahead(l)' /\ Ahead(l) \in Nat /\ Ahead(l)' \in Nat
    <3>1. \A l \in Modules : Reached(l)' = Reached(l)
      BY <2>7, <2>8
    <3>2. \A l \in Modules : Reached(l) \in Nat
      BY <2>3, NextPlace
    <3>3. \A l \in Modules : Ahead(l) \in Nat /\ Ahead(l) <= Ahead(l)
      BY Types
    <3>4. QED BY <2>7, <2>8, <3>1, <3>2, <3>3
  <2>10. ChainInv'
    <3>1. \A l \in Modules : Reached(l)' <= Occupied'
      BY <2>3, <2>8, <2>9 DEF ChainInv
    <3>2. ASSUME NEW l \in Modules, NEW k \in Modules, Reached(k) <= Ahead(l) PROVE Reached(k)' <= Ahead(l)'
      BY <2>9, <3>2
    <3>3. \A l \in 1 .. K-1 : Reached(0)' <= Ahead(l)'
      BY <2>3, <3>2, ModuleFacts DEF ChainInv
    <3>4. \A l, k \in 1 .. K-1 : l < k => Reached(k)' <= Ahead(l)'
      BY <2>3, <3>2, ModuleFacts DEF ChainInv
    <3>5. QED BY <3>1, <3>3, <3>4 DEF ChainInv
  <2>11. ClaimInv'
    <3>1. \A q \in Producers : Claimed(q)' <=> Claimed(q)
      BY <1>1 DEF Claimed
    <3>2. QED BY <1>1, <2>2, <2>8, <3>1 DEF WorkInv, ClaimInv, Place
  <2>12. SlotInv'
    <3>1. InHand(0)' = InHand(0)
      BY <1>1, <2>8, ModuleFacts
    <3>2. QED BY <1>1, <2>2, <2>8, <2>9, <3>1 DEF WorkInv, SlotInv
  <2>13. WorkInv'
    BY <1>3, <2>10, <2>11, <2>12 DEF WorkInv
  <2>14. QED BY <1>1, <1>5, <2>2, <2>5, <2>7, <2>8, <2>13
<1>6. QED BY <1>4, <1>5 DEF ModuleMove, MoveToNextPacket

(* Empty: no producer has claimed the slot S2D empties, for it was filled. *)
LEMMA WorkEmpty ==
  ASSUME PacketTypeOK, WorkInv, Empty
  PROVE  /\ WorkInv' /\ UNCHANGED <<tail, ptr, next>>
         /\ ~emptied /\ emptied' = TRUE /\ ptr[0] \in Positions /\ slot[ptr[0]] # NoPacket
         /\ slot' = [slot EXCEPT ![ptr[0]] = NoPacket]
         /\ 0 < Reached(0) /\ 0 < Occupied
<1>1. /\ InHand(0) > 0 /\ ~emptied /\ emptied' = TRUE
      /\ slot' = [slot EXCEPT ![ptr[0]] = NoPacket]
      /\ UNCHANGED <<index, ready, tail, pc, pos, stale, ptr, next>>
  BY DEF Empty, setupVars, prodVars, raceVars
<1>2. /\ ptr[0] \in Positions /\ 0 \in Modules /\ Place(ptr[0]) = 0 /\ Ahead(0) = 0
      /\ InHand(0) \in 0 .. Slots-1 /\ Reached(0) = Ahead(0) + InHand(0)
  BY Types
<1>3. 0 < Reached(0) /\ 0 < Occupied
  <2>1. 0 < Reached(0)
    BY <1>1, <1>2
  <2>2. Reached(0) <= Occupied /\ Reached(0) \in 0 .. Slots-1 /\ Occupied \in 0 .. Slots-1
    BY <1>2, NextPlace, Types DEF WorkInv, ChainInv
  <2>3. QED BY <2>1, <2>2
<1>4. slot[ptr[0]] # NoPacket
  BY <1>1, <1>2, <1>3 DEF WorkInv, SlotInv
<1>5. slot'[ptr[0]] = NoPacket /\ \A s \in Positions \ {ptr[0]} : slot'[s] = slot[s]
  BY <1>1, <1>2 DEF PacketTypeOK
<1>6. /\ Occupied' = Occupied /\ \A s \in Positions : Place(s)' = Place(s)
      /\ \A m \in Modules : Reached(m)' = Reached(m)
      /\ InHand(0)' = InHand(0)
  BY <1>1 DEF Occupied, Place, Reached, Ahead, InHand
<1>7. ClaimInv'
  <2>1. \A q \in Producers : Claimed(q)' <=> Claimed(q)
    BY <1>1 DEF Claimed
  <2>2. \A q \in Producers : Claimed(q) => pos[q] # ptr[0] /\ slot'[pos[q]] = NoPacket
    <3>1. \A q \in Producers : Claimed(q) => pos[q] # ptr[0]
      BY <1>4 DEF WorkInv, ClaimInv
    <3>2. \A q \in Producers : pos[q] \in Positions
      BY Types
    <3>3. QED BY <1>5, <3>1, <3>2 DEF WorkInv, ClaimInv
  <2>3. QED BY <1>1, <1>6, <2>1, <2>2 DEF WorkInv, ClaimInv, Place
<1>8. ChainInv'
  BY <1>1 DEF WorkInv, ChainInv, Reached, Ahead, InHand, Occupied
<1>9. SlotInv'
  <2>1. \A s \in Positions : Place(s) >= Occupied => slot'[s] = NoPacket
    BY <1>5 DEF WorkInv, SlotInv
  <2>2. \A m \in Modules : \A s \in Positions :
          Place(s) < Reached(m) /\ s # ptr[0] => slot'[s] # NoPacket
    BY <1>1, <1>5 DEF WorkInv, SlotInv
  <2>3. QED BY <1>1, <1>5, <1>6, <2>1, <2>2 DEF SlotInv
<1>10. FreshInv'
  <2>1. ready /\ index = K
    BY <1>1, <1>2, WorkNeedsReady DEF WorkInv
  <2>2. QED BY <1>1, <2>1 DEF FreshInv
<1>11. QED BY <1>1, <1>2, <1>3, <1>4, <1>7, <1>8, <1>9, <1>10 DEF WorkInv

(* S2DMove: all places come nearer by one, and the slot S2D leaves is free *)
(* and the farthest.                                                       *)
LEMMA WorkS2DMove ==
  ASSUME PacketTypeOK, WorkInv, S2DMove
  PROVE  /\ WorkInv' /\ UNCHANGED <<tail, next, slot>>
         /\ emptied /\ ~emptied' /\ ptr' = [ptr EXCEPT ![0] = Plus(ptr[0], 1)]
         /\ Occupied >= 1 /\ Occupied' = Occupied - 1
         /\ \A m \in 1 .. K-1 : Ahead(m) >= 1 /\ Ahead(m)' = Ahead(m) - 1
<1>1. emptied /\ ~emptied' /\ MoveToNextPacket(0, 1) /\ UNCHANGED <<index, ready, tail, pc, pos, stale, next, slot>>
  BY DEF S2DMove, setupVars, prodVars, raceVars
<1>2. ready /\ index = K /\ ChainInv /\ SlotInv /\ ClaimInv
  BY <1>1, WorkNeedsReady DEF WorkInv
<1>3. /\ ptr[0] \in Positions /\ next[0] \in Positions /\ tail \in Positions /\ 0 \in Modules
      /\ Ahead(0) = 0 /\ InHand(0) \in 0 .. Slots-1 /\ Reached(0) = Ahead(0) + InHand(0)
      /\ Reached(0) \in 0 .. Slots-1 /\ Occupied \in 0 .. Slots-1
      /\ Place(ptr[0]) = 0 /\ Occupied = Place(tail)
  BY <1>2, Types, NextPlace
<1>4. InHand(0) >= 1 /\ Reached(0) = InHand(0) /\ slot[ptr[0]] = NoPacket
  <2>1. InHand(0) > 0 /\ slot[ptr[0]] = NoPacket
    BY <1>1, <1>2 DEF SlotInv
  <2>2. QED BY <1>3, <2>1
<1>5. ptr' = [ptr EXCEPT ![0] = Plus(ptr[0], 1)]
  <2>1. Reached(0) <= Place(Limit(0)) /\ Limit(0) \in Positions
    BY <1>2, <1>3, LimitPlace
  <2>2. Place(Limit(0)) \in 0 .. Slots-1
    BY <2>1, Types
  <2>3. 1 <= Place(Limit(0))
    BY <1>3, <1>4, <2>1, <2>2
  <2>4. MayMove(0, 1)
    BY <2>3 DEF MayMove, Place
  <2>5. QED BY <1>1, <2>4 DEF MoveToNextPacket
<1>6. ptr'[0] = Plus(ptr[0], 1) /\ \A m \in Modules \ {0} : ptr'[m] = ptr[m]
  BY <1>3, <1>5 DEF PacketTypeOK
<1>7. \A s \in Positions : Place(s) >= 1 => Place(s)' = Place(s) - 1
  BY <1>3, <1>6, DistFromNext DEF Place
<1>8. Place(ptr[0]) = 0 /\ Dist(ptr'[0], ptr[0]) = Slots - 1
  BY <1>3, <1>6, DistFromNext
<1>9. \A s \in Positions : s # ptr[0] => Place(s) >= 1
  <2> SUFFICES ASSUME NEW s \in Positions, s # ptr[0] PROVE Place(s) >= 1
    OBVIOUS
  <2>1. Place(s) # Place(ptr[0])
    BY <1>3, DistInjective DEF Place
  <2>2. Place(s) \in 0 .. Slots-1
    BY Types
  <2>3. QED BY <1>3, <2>1, <2>2
<1>10. Occupied >= 1 /\ Occupied' = Occupied - 1
  <2>1. Reached(0) <= Occupied
    BY <1>2, <1>3 DEF ChainInv
  <2>2. Occupied >= 1
    BY <1>3, <1>4, <2>1
  <2>3. Place(tail) >= 1
    BY <1>3, <2>2
  <2>4. Place(tail)' = Place(tail) - 1
    <3>1. tail' = tail
      BY <1>1
    <3>2. QED BY <1>3, <1>7, <2>3, <3>1 DEF Place
  <2>5. Occupied' = Place(tail)'
    BY DEF Occupied, Place
  <2>6. QED BY <1>3, <2>2, <2>4, <2>5
<1>11. ASSUME NEW m \in 1 .. K-1
       PROVE  /\ m \in Modules /\ Ahead(m) >= 1 /\ Ahead(m)' = Ahead(m) - 1
              /\ InHand(m)' = InHand(m) /\ Reached(m)' = Reached(m) - 1
              /\ Ahead(m) \in 0 .. Slots-1 /\ InHand(m) \in 0 .. Slots-1 /\ Reached(m) \in 0 .. Slots-1
  <2>1. m \in Modules /\ m # 0
    BY ModuleFacts
  <2>2. /\ ptr[m] \in Positions /\ Ahead(m) = Place(ptr[m])
        /\ Ahead(m) \in 0 .. Slots-1 /\ InHand(m) \in 0 .. Slots-1 /\ Reached(m) = Ahead(m) + InHand(m)
        /\ Reached(m) \in 0 .. Slots-1
    BY <1>2, <2>1, Types, NextPlace
  <2>3. Ahead(m) >= 1
    <3>1. Reached(0) <= Ahead(m)
      BY <1>2 DEF ChainInv
    <3>2. QED BY <1>3, <1>4, <2>2, <3>1
  <2>4. ptr'[m] = ptr[m]
    BY <1>6, <2>1
  <2>5. Ahead(m)' = Place(ptr[m])'
    BY <2>4 DEF Ahead, Place
  <2>6. Dist(ptr'[0], ptr[m]) = Dist(ptr[0], ptr[m]) - 1
    <3>1. Dist(ptr[0], ptr[m]) >= 1
      BY <2>2, <2>3 DEF Place
    <3>2. QED BY <1>3, <1>6, <2>2, <3>1, DistFromNext
  <2>7. Ahead(m)' = Ahead(m) - 1
    BY <2>4, <2>6 DEF Ahead
  <2>8. InHand(m)' = InHand(m)
    BY <1>1, <2>4 DEF InHand
  <2>9. Reached(m)' = (Ahead(m) - 1) + InHand(m)
    BY <2>7, <2>8 DEF Reached
  <2>10. QED BY <2>1, <2>2, <2>3, <2>7, <2>8, <2>9
<1>12. Reached(0)' = Reached(0) - 1
  <2>1. Ahead(0)' = 0
    <3>1. ptr'[0] \in Positions
      BY <1>3, <1>6, DistFromNext
    <3>2. QED BY <3>1, DistType DEF Ahead
  <2>2. InHand(0)' = InHand(0) - 1
    <3>1. Dist(ptr[0], next[0]) >= 1
      BY <1>4 DEF InHand
    <3>2. QED BY <1>1, <1>3, <1>6, <3>1, DistFromNext DEF InHand
  <2>3. Reached(0)' = 0 + (InHand(0) - 1)
    BY <2>1, <2>2 DEF Reached
  <2>4. QED BY <1>3, <1>4, <2>3
<1>13. \A m \in Modules : Reached(m)' = Reached(m) - 1 /\ Reached(m) \in 0 .. Slots-1
  <2>1. \A m \in Modules : m = 0 \/ m \in 1 .. K-1
    BY ModuleFacts
  <2>2. QED BY <1>3, <1>11, <1>12, <2>1
<1>14. ChainInv'
  <2>1. ASSUME NEW m \in Modules PROVE Reached(m)' <= Occupied'
    <3>1. Reached(m) <= Occupied /\ Reached(m) \in 0 .. Slots-1 /\ Reached(m)' = Reached(m) - 1
      BY <1>2, <1>13 DEF ChainInv
    <3>2. QED BY <1>3, <1>10, <3>1
  <2>2. ASSUME NEW m \in Modules, NEW l \in 1 .. K-1, Reached(m) <= Ahead(l) PROVE Reached(m)' <= Ahead(l)'
    <3>1. Reached(m) \in 0 .. Slots-1 /\ Reached(m)' = Reached(m) - 1
      BY <1>13
    <3>2. Ahead(l) \in 0 .. Slots-1 /\ Ahead(l)' = Ahead(l) - 1
      BY <1>11
    <3>3. QED BY <2>2, <3>1, <3>2
  <2>3. \A m \in 1 .. K-1 : Reached(0)' <= Ahead(m)'
    BY <1>2, <1>3, <2>2 DEF ChainInv
  <2>4. \A l, m \in 1 .. K-1 : l < m => Reached(m)' <= Ahead(l)'
    BY <1>2, <1>11, <2>2 DEF ChainInv
  <2>5. QED BY <2>1, <2>3, <2>4 DEF ChainInv
<1>15. ClaimInv'
  <2>1. \A q \in Producers : (Claimed(q)' <=> Claimed(q)) /\ pos'[q] = pos[q]
    BY <1>1 DEF Claimed
  <2>2. ASSUME NEW q \in Producers, Claimed(q)
        PROVE  Place(pos[q])' < Occupied'
    <3>1. /\ pos[q] \in Positions /\ pos[q] # ptr[0] /\ Place(pos[q]) < Occupied
          /\ Place(pos[q]) \in 0 .. Slots-1
      BY <1>1, <1>2, <2>2, Types DEF ClaimInv
    <3>2. Place(pos[q]) >= 1
      BY <1>9, <3>1
    <3>3. pos'[q] = pos[q]
      BY <1>1
    <3>4. Dist(ptr'[0], pos[q]) = Dist(ptr[0], pos[q]) - 1
      BY <1>3, <1>6, <3>1, <3>2, DistFromNext DEF Place
    <3>5. Place(pos[q])' = Place(pos[q]) - 1
      BY <3>3, <3>4 DEF Place
    <3>6. QED BY <1>3, <1>10, <3>1, <3>5
  <2>3. \A q \in Producers : pc'[q] = "claim" /\ q \notin stale => Occupied' <= Slots - 2
    <3>1. \A q \in Producers : pc'[q] = "claim" /\ q \notin stale => Occupied <= Slots - 2
      BY <1>1, <1>2 DEF ClaimInv
    <3>2. Occupied <= Slots - 2 => Occupied' <= Slots - 2
      BY <1>3, <1>10, Sizes
    <3>3. QED BY <3>1, <3>2
  <2>4. \A q \in Producers : pc'[q] = "test" /\ q \notin stale => pos'[q] = tail'
    BY <1>1, <1>2 DEF ClaimInv
  <2>5. QED BY <1>1, <1>2, <2>1, <2>2, <2>3, <2>4 DEF ClaimInv
<1>16. SlotInv'
  <2>1. ASSUME NEW s \in Positions, Place(s)' >= Occupied' PROVE slot[s] = NoPacket
    <3>1. CASE s = ptr[0]
      BY <1>4, <3>1
    <3>2. CASE s # ptr[0]
      <4>1. Place(s)' = Place(s) - 1 /\ Place(s) \in 0 .. Slots-1
        BY <1>7, <1>9, <3>2, Types
      <4>2. Place(s) >= Occupied
        BY <1>3, <1>10, <2>1, <4>1
      <4>3. QED BY <1>2, <4>2 DEF SlotInv
    <3>3. QED BY <3>1, <3>2
  <2>2. ASSUME NEW m \in Modules, NEW s \in Positions, Place(s)' < Reached(m)' PROVE slot[s] # NoPacket
    <3>1. Reached(m) \in 0 .. Slots-1 /\ Reached(m)' = Reached(m) - 1
      BY <1>13
    <3>2. s # ptr[0]
      <4>1. SUFFICES ASSUME s = ptr[0] PROVE FALSE
        OBVIOUS
      <4>2. Place(s)' = Slots - 1
        BY <1>8, <4>1 DEF Place
      <4>3. QED BY <2>2, <3>1, <4>2, Sizes
    <3>3. Place(s)' = Place(s) - 1 /\ Place(s) \in 0 .. Slots-1
      BY <1>7, <1>9, <3>2, Types
    <3>4. Place(s) < Reached(m)
      BY <2>2, <3>1, <3>3
    <3>5. QED BY <1>2, <3>2, <3>4 DEF SlotInv
  <2>3. QED BY <1>1, <2>1, <2>2 DEF SlotInv
<1>17. FreshInv'
  BY <1>1, <1>2 DEF FreshInv
<1>18. QED BY <1>1, <1>5, <1>10, <1>11, <1>14, <1>15, <1>16, <1>17 DEF WorkInv

RingInv   == SetupInv /\ WorkInv
PacketInv == SetupInv /\ (overrun \/ WorkInv)

LEMMA PacketInit == Init => PacketInv
  BY SetupInit, WorkInit DEF PacketInv

LEMMA OverrunStays == [Next]_vars => (overrun => overrun')
  BY DEF Next, InitRing, RegTest, RegMySelf, RegLock, RegColumn, RegReturn, StartWork, ReadTail, Produce,
         TestLimit, IncrementTail, WaitSlot, Fill, GetNextPacket, Read, ModuleMove, Empty, S2DMove,
         vars, prodVars, raceVars

LEMMA PacketNext == ASSUME ~LateInits, PacketInv, [Next]_vars PROVE PacketInv'
<1>1. PacketTypeOK /\ SetupInv
  BY DEF PacketInv, SetupInv
<1>2. SetupInv'
  BY <1>1, SetupNext
<1> SUFFICES ASSUME ~overrun' PROVE WorkInv'
  BY <1>2 DEF PacketInv
<1>3. WorkInv
  BY OverrunStays DEF PacketInv
<1>4. CASE \/ \E m \in Modules : InitRing(m) \/ RegTest(m) \/ RegMySelf(m)
           \/ StartWork \/ UNCHANGED vars
  BY <1>1, <1>3, <1>4, WorkSetup
<1>5. CASE \E p \in Producers : ReadTail(p) \/ Produce(p)
  BY <1>1, <1>3, <1>5, WorkReadTail, WorkTestLimit, WorkIncrementTail, WorkWaitSlot, WorkFill DEF Produce
<1>6. CASE \E m \in Modules : GetNextPacket(m) \/ Read(m)
  BY <1>1, <1>3, <1>6, WorkGetNextPacket, WorkModuleMove DEF Read
<1>7. CASE Empty \/ S2DMove
  BY <1>1, <1>3, <1>7, WorkEmpty, WorkS2DMove
<1>8. QED BY <1>4, <1>5, <1>6, <1>7 DEF Next

LEMMA PacketInvSlots == PacketInv => SlotIsMine
<1> SUFFICES ASSUME PacketInv, ~overrun, NEW p \in Producers, pc[p] = "fill"
             PROVE  /\ slot[pos[p]] = NoPacket
                    /\ \A q \in Producers \ {p} : pc[q] = "fill" => pos[q] # pos[p]
                    /\ \A m \in Modules : pos[p] \in Held(m) => m = 0 /\ emptied
  BY DEF SlotIsMine
<1>1. PacketTypeOK /\ ChainInv /\ ClaimInv /\ SlotInv
  BY DEF PacketInv, SetupInv, WorkInv
<1>2. /\ slot[pos[p]] = NoPacket /\ ~(emptied /\ pos[p] = ptr[0])
      /\ \A q \in Producers : Claimed(q) /\ pos[q] = pos[p] => q = p
      /\ pos[p] \in Positions
  BY <1>1, Types DEF ClaimInv, Claimed
<1>3. ASSUME NEW m \in Modules PROVE pos[p] \notin Held(m)
  <2> SUFFICES ASSUME NEW i \in 0 .. InHand(m) - 1, pos[p] = Plus(ptr[m], i) PROVE FALSE
    BY DEF Held
  <2>1. /\ ptr[0] \in Positions /\ ptr[m] \in Positions /\ Ahead(m) \in 0 .. Slots-1
        /\ InHand(m) \in 0 .. Slots-1 /\ Reached(m) = Ahead(m) + InHand(m) /\ Reached(m) \in 0 .. Slots-1
    BY <1>1, Types, NextPlace
  <2>2. i \in Nat /\ Ahead(m) + i <= Slots - 1 /\ Ahead(m) + i < Reached(m)
    BY <2>1, Sizes
  <2>3. Place(pos[p]) = Ahead(m) + i
    BY <2>1, <2>2, DistPlus DEF Place, Ahead
  <2>4. Place(pos[p]) < Reached(m)
    BY <2>2, <2>3
  <2>5. slot[pos[p]] # NoPacket
    BY <1>1, <1>2, <2>4 DEF SlotInv
  <2>6. QED BY <1>2, <2>5
<1>4. QED BY <1>2, <1>3 DEF Claimed

(* The slot GetNextMetaSpace returns is empty, no other producer has it,   *)
(* and no module has it, however often the positions wrap and however many *)
(* producers are between its test and its increment, until one of them     *)
(* takes the last slot on a test that is out of date.  No module joins     *)
(* late.                                                                   *)
THEOREM SlotsAreMine == ASSUME ~LateInits PROVE Spec => []SlotIsMine
<1>1. PacketInv /\ [Next]_vars => PacketInv'
  BY PacketNext
<1>2. QED BY <1>1, PacketInit, PacketInvSlots, PTL DEF Spec

(* When S2D has caught up with the tail, no packet is left in the ring:    *)
(* what the run packet_ring_overrun finds wrong comes of an overrun only.  *)
THEOREM DrainedRingIsEmpty == ASSUME ~LateInits PROVE Spec => [](~overrun => DrainedIsEmpty)
<1>1. PacketInv => (~overrun => DrainedIsEmpty)
  <2> SUFFICES ASSUME PacketInv, ~overrun, ptr[0] = tail, NEW s \in Positions PROVE slot[s] = NoPacket
    BY DEF DrainedIsEmpty
  <2>1. PacketTypeOK /\ SlotInv
    BY DEF PacketInv, SetupInv, WorkInv
  <2>2. Occupied = 0 /\ Place(s) \in 0 .. Slots-1
    BY <2>1, Types
  <2>3. Place(s) >= Occupied
    BY <2>2
  <2>4. QED BY <2>1, <2>3 DEF SlotInv
<1>2. PacketInv /\ [Next]_vars => PacketInv'
  BY PacketNext
<1>3. QED BY <1>1, <1>2, PacketInit, PTL DEF Spec

(***************************************************************************)
(* One producer: there is nobody to increment the tail in between.         *)
(***************************************************************************)
OneProducer == \A p, q \in Producers : p = q

UpToDate == stale = {} /\ ~overrun

LEMMA UpToDateNext == ASSUME OneProducer, UpToDate, [Next]_vars PROVE UpToDate'
<1>1. ASSUME NEW p \in Producers, ReadTail(p) \/ Produce(p) PROVE UpToDate'
  <2>1. CASE ReadTail(p)
    BY <2>1 DEF ReadTail, UpToDate
  <2>2. CASE IncrementTail(p)
    BY <2>2 DEF IncrementTail, UpToDate, OneProducer, Testing
  <2>3. CASE TestLimit(p) \/ WaitSlot(p) \/ Fill(p)
    BY <2>3 DEF TestLimit, WaitSlot, Fill, raceVars, UpToDate
  <2>4. QED BY <1>1, <2>1, <2>2, <2>3 DEF Produce
<1>2. CASE \/ \E m \in Modules : \/ InitRing(m) \/ RegTest(m) \/ RegMySelf(m)
                                 \/ GetNextPacket(m) \/ Read(m)
           \/ StartWork \/ Empty \/ S2DMove \/ UNCHANGED vars
  BY <1>2 DEF InitRing, RegTest, RegMySelf, RegLock, RegColumn, RegReturn, StartWork,
              GetNextPacket, Read, ModuleMove, Empty, S2DMove, vars, prodVars, raceVars, UpToDate
<1>3. QED BY <1>1, <1>2 DEF Next

(* With one producer the ring never overruns: the test of GetNextMetaSpace *)
(* is up to date when it increments the tail.  Nothing is assumed of the   *)
(* modules.                                                                *)
THEOREM OneProducerNeverOverruns == ASSUME OneProducer PROVE Spec => []~overrun
<1>1. Init => UpToDate
  BY DEF Init, UpToDate
<1>2. UpToDate /\ [Next]_vars => UpToDate'
  BY UpToDateNext
<1>3. UpToDate => ~overrun
  BY DEF UpToDate
<1>4. QED BY <1>1, <1>2, <1>3, PTL DEF Spec

-----------------------------------------------------------------------------
(***************************************************************************)
(* The packet ring implements ChainQueue.  The mapping: what the queue     *)
(* holds, and how far each stage is.                                       *)
(***************************************************************************)
Entries == {PacketChain!Open, PacketChain!Done} \cup {PacketChain!Ready(item) : item \in Packets}

Shown == Queue' = Queue /\ Passed' = Passed

(***************************************************************************)
(* Sequences, element by element.                                          *)
(***************************************************************************)
LEMMA IsAppend ==
  ASSUME NEW S, NEW s \in Seq(S), NEW t \in Seq(S), NEW e \in S,
         Len(t) = Len(s) + 1, \A i \in 1 .. Len(s) : t[i] = s[i], t[Len(s) + 1] = e
  PROVE  t = Append(s, e)
<1> DEFINE n == Len(s)
           u == Append(s, e)
<1>1. /\ u \in Seq(S) /\ Len(u) = n + 1 /\ u[n+1] = e
      /\ \A i \in 1 .. n : u[i] = s[i]
  BY AppendProperties
<1>2. n \in Nat /\ Len(t) = n + 1 /\ t[n+1] = e /\ \A i \in 1 .. n : t[i] = s[i]
  BY LenProperties
<1> HIDE DEF n, u
<1>3. \A i \in 1 .. n + 1 : i \in 1 .. n \/ i = n + 1
  BY <1>2
<1>4. \A i \in 1 .. Len(t) : t[i] = u[i]
  BY <1>1, <1>2, <1>3
<1>5. QED BY <1>1, <1>2, <1>4, SeqEqual DEF u

LEMMA IsTail ==
  ASSUME NEW S, NEW s \in Seq(S), NEW t \in Seq(S), s # <<>>,
         Len(t) = Len(s) - 1, \A i \in 1 .. Len(t) : t[i] = s[i+1]
  PROVE  t = Tail(s)
  BY HeadTailProperties, SeqEqual

LEMMA IsExcept ==
  ASSUME NEW S, NEW s \in Seq(S), NEW t \in Seq(S), NEW k \in 1 .. Len(s), NEW e \in S,
         Len(t) = Len(s), t[k] = e, \A i \in 1 .. Len(s) : i # k => t[i] = s[i]
  PROVE  t = [s EXCEPT ![k] = e]
  BY ExceptSeq, SeqEqual

(***************************************************************************)
(* The queue's definitions, with the mapping in place of its variables.    *)
(***************************************************************************)
LEMMA MappedInit == PacketChain!Init <=> Queue = <<>> /\ Passed = [m \in 1 .. K-1 |-> 0]
  BY DEF PacketChain!Init, Queue, Passed, At

LEMMA MappedReserve ==
  PacketChain!Reserve <=> /\ Len(Queue) < Slots - 1
                          /\ Queue' = Append(Queue, PacketChain!Open)
                          /\ Passed' = Passed
  BY DEF PacketChain!Reserve, Queue, Passed, At

LEMMA MappedPublish ==
  PacketChain!Publish <=> /\ \E i \in 1 .. Len(Queue), item \in Packets :
                               /\ Queue[i] = PacketChain!Open
                               /\ Queue' = [Queue EXCEPT ![i] = PacketChain!Ready(item)]
                          /\ Passed' = Passed
  BY DEF PacketChain!Publish, Queue, Passed, At

LEMMA MappedAdvance ==
  PacketChain!Advance <=>
    /\ \E m \in 1 .. K-1 :
       \E count \in 1 .. (IF m = 1 THEN Len(Queue) ELSE Passed[m-1]) - Passed[m] :
         /\ \A i \in Passed[m] + 1 .. Passed[m] + count : Queue[i].state = "ready"
         /\ Passed' = [Passed EXCEPT ![m] = @ + count]
    /\ Queue' = Queue
  BY DEF PacketChain!Advance, PacketChain!UpTo, PacketChain!IsReady, Queue, Passed, At

LEMMA MappedTakeHead ==
  PacketChain!TakeHead <=> /\ Queue # <<>> /\ \A m \in 1 .. K-1 : Passed[m] > 0
                           /\ Queue[1].state = "ready"
                           /\ Queue' = [Queue EXCEPT ![1] = PacketChain!Done]
                           /\ Passed' = Passed
  BY DEF PacketChain!TakeHead, PacketChain!HeadPassed, PacketChain!IsReady, Queue, Passed, At

LEMMA MappedDropHead ==
  PacketChain!DropHead <=> /\ Queue # <<>> /\ \A m \in 1 .. K-1 : Passed[m] > 0
                           /\ Queue[1] # PacketChain!Open
                           /\ Queue' = Tail(Queue)
                           /\ Passed' = [m \in 1 .. K-1 |-> Passed[m] - 1]
  BY DEF PacketChain!DropHead, PacketChain!HeadPassed, Queue, Passed, At

(***************************************************************************)
(* The slots of the queue.                                                 *)
(***************************************************************************)
LEMMA AtPlace ==
  ASSUME PacketTypeOK, NEW i \in 1 .. Slots
  PROVE  At(i) \in Positions /\ Place(At(i)) = i - 1
<1>1. ptr[0] \in Positions /\ Dist(ptr[0], ptr[0]) = 0
  BY Types, DistType
<1>2. i - 1 \in Nat /\ Dist(ptr[0], ptr[0]) + (i - 1) <= Slots - 1
      /\ Dist(ptr[0], ptr[0]) + (i - 1) = i - 1
  BY <1>1, Sizes
<1>3. Plus(ptr[0], i - 1) \in Positions
      /\ Dist(ptr[0], Plus(ptr[0], i - 1)) = Dist(ptr[0], ptr[0]) + (i - 1)
  BY <1>1, <1>2, DistPlus
<1>4. QED BY <1>2, <1>3 DEF At, Place

LEMMA PlaceAt ==
  ASSUME PacketTypeOK, NEW s \in Positions
  PROVE  Place(s) + 1 \in 1 .. Slots /\ At(Place(s) + 1) = s
<1>1. Place(s) \in 0 .. Slots-1 /\ ptr[0] \in Positions
  BY Types
<1>2. PICK i \in 1 .. Slots : i = Place(s) + 1 /\ i - 1 = Place(s)
  BY <1>1, Sizes
<1>3. At(i) \in Positions /\ Dist(ptr[0], At(i)) = Dist(ptr[0], s)
  BY <1>2, AtPlace DEF Place
<1>4. At(i) = s
  BY <1>1, <1>3, DistInjective
<1>5. QED BY <1>2, <1>4

LEMMA EntryType == ASSUME PacketTypeOK, NEW s \in Positions PROVE EntryOf(s) \in Entries
<1>1. slot[s] \in Packets \cup {NoPacket}
  BY DEF PacketTypeOK
<1>2. QED BY <1>1 DEF EntryOf, Entries, PacketChain!Open, PacketChain!Done, PacketChain!Ready

QueueOk ==
  /\ Queue \in Seq(Entries) /\ Len(Queue) = Occupied /\ Occupied \in 0 .. Slots-1
  /\ \A i \in 1 .. Occupied :
       At(i) \in Positions /\ Place(At(i)) = i - 1 /\ Queue[i] = EntryOf(At(i))
  /\ \A m \in 1 .. K-1 : Passed[m] = Ahead(m) /\ Ahead(m) \in 0 .. Slots-1

LEMMA QueueFacts == PacketTypeOK => QueueOk
<1> SUFFICES ASSUME PacketTypeOK PROVE QueueOk
  OBVIOUS
<1>1. Occupied \in 0 .. Slots-1 /\ \A m \in 1 .. K-1 : Ahead(m) \in 0 .. Slots-1
  BY Types, ModuleFacts
<1>2. \A i \in 1 .. Occupied : i \in 1 .. Slots
  BY <1>1, Sizes
<1>3. \A i \in 1 .. Occupied : At(i) \in Positions /\ Place(At(i)) = i - 1
  BY <1>2, AtPlace
<1>4. \A i \in 1 .. Occupied : EntryOf(At(i)) \in Entries
  BY <1>3, EntryType
<1>5. Queue \in Seq(Entries) /\ Len(Queue) = Occupied
  BY <1>1, <1>4 DEF Queue
<1>6. \A i \in 1 .. Occupied : Queue[i] = EntryOf(At(i))
  BY DEF Queue
<1>7. QED BY <1>1, <1>3, <1>5, <1>6 DEF QueueOk, Passed

LEMMA QueueFactsNext == PacketTypeOK' => QueueOk'
  BY QueueFacts, PTL

LEMMA EntriesConstant == Entries' = Entries
  BY DEF Entries, PacketChain!Open, PacketChain!Done, PacketChain!Ready

LEMMA QueueUnchanged ==
  ASSUME UNCHANGED <<tail, ptr, slot, emptied>>
  PROVE  Shown
  BY DEF Shown, Queue, Passed, Occupied, Ahead, EntryOf, At

(***************************************************************************)
(* Every step of the ring.  A claim reserves an entry, ...                 *)
(***************************************************************************)
LEMMA StepReserve ==
  ASSUME RingInv, RingInv', NEW p \in Producers, IncrementTail(p), ~overrun'
  PROVE  PacketChain!Reserve
<1>1. PacketTypeOK /\ PacketTypeOK' /\ WorkInv /\ QueueOk /\ QueueOk'
  BY QueueFacts, QueueFactsNext DEF RingInv, SetupInv
<1>2. /\ UNCHANGED <<ptr, next, slot, emptied>>
      /\ Occupied <= Slots - 2 /\ Occupied' = Occupied + 1 /\ Occupied \in 0 .. Slots-1
      /\ Place(tail) = Occupied /\ slot[tail] = NoPacket /\ ~(emptied /\ tail = ptr[0])
      /\ tail \in Positions
  BY <1>1, WorkIncrementTail, Types
<1>3. \A i : At(i)' = At(i) /\ EntryOf(At(i))' = EntryOf(At(i))
  BY <1>2 DEF At, EntryOf
<1>4. ASSUME NEW i \in 1 .. Occupied PROVE Queue'[i] = Queue[i]
  <2>1. i \in 1 .. Occupied'
    BY <1>2
  <2>2. QED BY <1>1, <1>3, <2>1 DEF QueueOk
<1>5. Queue'[Occupied + 1] = PacketChain!Open
  <2>1. PICK k : k = Occupied + 1
    OBVIOUS
  <2>2. k \in 1 .. Occupied' /\ k = Place(tail) + 1
    BY <1>2, <2>1
  <2>3. At(k) = tail
    BY <1>1, <1>2, <2>2, PlaceAt
  <2>4. Queue'[k] = EntryOf(At(k))'
    BY <1>1, <2>2 DEF QueueOk
  <2>5. EntryOf(tail) = PacketChain!Open
    BY <1>2 DEF EntryOf, PacketChain!Open
  <2>6. QED BY <1>3, <2>1, <2>3, <2>4, <2>5
<1>6. /\ Queue \in Seq(Entries) /\ Queue' \in Seq(Entries) /\ Len(Queue) = Occupied
      /\ Len(Queue') = Occupied + 1
  BY <1>1, <1>2, EntriesConstant DEF QueueOk
<1>7. Queue' = Append(Queue, PacketChain!Open)
  <2>1. PacketChain!Open \in Entries
    BY DEF Entries
  <2>2. QED BY <1>4, <1>5, <1>6, <2>1, IsAppend
<1>8. Passed' = Passed
  BY <1>2 DEF Passed, Ahead
<1>9. Len(Queue) < Slots - 1
  <2>1. Occupied < Slots - 1
    BY <1>2, Sizes
  <2>2. QED BY <1>6, <2>1
<1>10. QED BY <1>7, <1>8, <1>9, MappedReserve

(* ... a producer that fills its slot publishes it, ...                    *)
LEMMA StepPublish ==
  ASSUME RingInv, RingInv', NEW p \in Producers, Fill(p)
  PROVE  PacketChain!Publish
<1>1. PacketTypeOK /\ PacketTypeOK' /\ WorkInv /\ QueueOk /\ QueueOk'
  BY QueueFacts, QueueFactsNext DEF RingInv, SetupInv
<1> DEFINE c == pos[p]
<1>2. /\ UNCHANGED <<tail, ptr, next, emptied>>
      /\ c \in Positions /\ Place(c) < Occupied
      /\ slot[c] = NoPacket /\ ~(emptied /\ c = ptr[0])
  BY <1>1, WorkFill
<1>3. PICK packet \in Packets : slot' = [slot EXCEPT ![c] = packet]
  BY <1>1, WorkFill
<1>4. slot'[c] = packet /\ packet # NoPacket /\ \A s \in Positions \ {c} : slot'[s] = slot[s]
  BY <1>1, <1>2, <1>3, Sizes DEF PacketTypeOK
<1> HIDE DEF c
<1>5. Occupied' = Occupied /\ \A i : At(i)' = At(i)
  BY <1>2 DEF Occupied, At
<1>6. PICK k \in 1 .. Occupied : At(k) = c /\ k = Place(c) + 1
  <2>1. Place(c) + 1 \in 1 .. Slots /\ At(Place(c) + 1) = c /\ Place(c) \in 0 .. Slots-1
        /\ Occupied \in 0 .. Slots-1
    BY <1>1, <1>2, PlaceAt, Types
  <2>2. Place(c) + 1 \in 1 .. Occupied
    BY <1>2, <2>1
  <2>3. QED BY <2>1, <2>2
<1>7. Queue[k] = PacketChain!Open
  <2>1. EntryOf(c) = PacketChain!Open
    BY <1>2 DEF EntryOf, PacketChain!Open
  <2>2. QED BY <1>1, <1>6, <2>1 DEF QueueOk
<1>8. Queue'[k] = PacketChain!Ready(packet)
  <2>1. Queue'[k] = EntryOf(At(k))'
    BY <1>1, <1>5 DEF QueueOk
  <2>2. At(k)' = c
    BY <1>5, <1>6
  <2>3. EntryOf(At(k))' = PacketChain!Ready(packet)
    BY <1>2, <1>4, <2>2 DEF EntryOf, PacketChain!Ready
  <2>4. QED BY <2>1, <2>3
<1>9. ASSUME NEW i \in 1 .. Occupied, i # k PROVE Queue'[i] = Queue[i]
  <2>1. PICK s \in Positions : s = At(i)
    BY <1>1 DEF QueueOk
  <2>2. s # c
    <3>1. Place(s) = i - 1 /\ Place(c) = k - 1
      BY <1>1, <1>6, <2>1 DEF QueueOk
    <3>2. QED BY <1>9, <3>1
  <2>3. EntryOf(At(i))' = EntryOf(At(i))
    BY <1>2, <1>4, <1>5, <2>1, <2>2 DEF EntryOf
  <2>4. QED BY <1>1, <1>5, <2>3 DEF QueueOk
<1>10. /\ Queue \in Seq(Entries) /\ Queue' \in Seq(Entries) /\ Len(Queue) = Occupied
       /\ Len(Queue') = Occupied
  BY <1>1, <1>5, EntriesConstant DEF QueueOk
<1>11. Queue' = [Queue EXCEPT ![k] = PacketChain!Ready(packet)]
  <2>1. PacketChain!Ready(packet) \in Entries
    BY DEF Entries
  <2>2. QED BY <1>8, <1>9, <1>10, <2>1, IsExcept
<1>12. Passed' = Passed
  BY <1>2 DEF Passed, Ahead
<1>13. QED BY <1>7, <1>10, <1>11, <1>12, MappedPublish

(* ... a module that moves lets its stage advance, as far as the one in    *)
(* front of it has come and over packets only, ...                         *)
LEMMA StepAdvance ==
  ASSUME RingInv, RingInv', NEW m \in Modules, NEW count \in 1 .. MaxInHand, ModuleMove(m, count)
  PROVE  PacketChain!Advance \/ Shown
<1>1. PacketTypeOK /\ PacketTypeOK' /\ WorkInv /\ ChainInv /\ SlotInv /\ QueueOk /\ QueueOk'
  BY QueueFacts, QueueFactsNext DEF RingInv, SetupInv, WorkInv
<1>2. UNCHANGED <<tail, next, slot, emptied>> /\ ptr'[0] = ptr[0] /\ m # 0 /\ count \in Nat /\ count >= 1
  BY <1>1, WorkModuleMove, PacketRingAssumption DEF ModuleMove
<1>3. CASE UNCHANGED ptr
  BY <1>2, <1>3, QueueUnchanged
<1>4. CASE /\ ptr' = [ptr EXCEPT ![m] = Plus(ptr[m], count)]
           /\ Ahead(m)' = Ahead(m) + count /\ Ahead(m)' <= Reached(m)
           /\ \A l \in Modules \ {m} : Ahead(l)' = Ahead(l)
  <2>1. m \in 1 .. K-1
    BY <1>2, ModuleFacts
  <2>2. Queue' = Queue
    BY <1>2 DEF Queue, At, EntryOf, Occupied
  <2>3. Passed' = [Passed EXCEPT ![m] = Passed[m] + count]
    <3>1. \A l \in 1 .. K-1 : l # m => Ahead(l)' = Ahead(l)
      BY <1>4, ModuleFacts
    <3>2. QED BY <1>4, <2>1, <3>1 DEF Passed
  <2>4. /\ Ahead(m) \in 0 .. Slots-1 /\ Reached(m) \in 0 .. Slots-1 /\ Ahead(m) + count <= Reached(m)
        /\ Reached(m) <= Occupied /\ Occupied \in 0 .. Slots-1
        /\ Passed[m] = Ahead(m) /\ Len(Queue) = Occupied
    BY <1>1, <1>4, <2>1, Types, NextPlace DEF QueueOk, ChainInv
  <2>5. m # 1 => m-1 \in 1 .. K-1 /\ Ahead(m-1) \in 0 .. Slots-1 /\ Passed[m-1] = Ahead(m-1)
                 /\ Reached(m) <= Ahead(m-1)
    <3>1. m # 1 => m-1 \in 1 .. K-1 /\ m-1 < m
      BY <2>1, Sizes
    <3>2. QED BY <1>1, <2>1, <3>1 DEF QueueOk, ChainInv
  <2>6. count \in 1 .. (IF m = 1 THEN Len(Queue) ELSE Passed[m-1]) - Passed[m]
    <3>1. CASE m = 1
      <4>1. count \in 1 .. Occupied - Ahead(m)
        BY <1>2, <2>4
      <4>2. QED BY <2>4, <3>1, <4>1
    <3>2. CASE m # 1
      <4>1. count \in 1 .. Ahead(m-1) - Ahead(m)
        BY <1>2, <2>4, <2>5, <3>2
      <4>2. QED BY <2>4, <2>5, <3>2, <4>1
    <3>3. QED BY <3>1, <3>2
  <2>7. ASSUME NEW i \in Passed[m] + 1 .. Passed[m] + count PROVE Queue[i].state = "ready"
    <3>1. i \in 1 .. Occupied /\ i - 1 < Reached(m) /\ i - 1 >= Ahead(m)
      BY <1>2, <2>4
    <3>2. At(i) \in Positions /\ Place(At(i)) = i - 1 /\ Queue[i] = EntryOf(At(i))
      BY <1>1, <3>1 DEF QueueOk
    <3>3. emptied => At(i) # ptr[0]
      <4>1. SUFFICES ASSUME emptied, At(i) = ptr[0] PROVE FALSE
        OBVIOUS
      <4>2. InHand(0) > 0 /\ Reached(0) <= Ahead(m)
        BY <1>1, <2>1, <4>1 DEF SlotInv, ChainInv
      <4>3. Reached(0) = Ahead(0) + InHand(0) /\ Ahead(0) = 0 /\ InHand(0) \in 0 .. Slots-1
            /\ Place(ptr[0]) = 0 /\ 0 \in Modules
        BY <1>1, Types
      <4>4. i - 1 = 0
        BY <3>2, <4>1, <4>3
      <4>5. Ahead(m) >= 1
        BY <2>4, <4>2, <4>3
      <4>6. QED BY <2>4, <3>1, <4>4, <4>5
    <3>4. slot[At(i)] # NoPacket
      <4>1. Place(At(i)) < Reached(m)
        BY <3>1, <3>2
      <4>2. QED BY <1>1, <3>2, <3>3, <4>1 DEF SlotInv
    <3>5. QED BY <3>2, <3>3, <3>4 DEF EntryOf
  <2>8. QED BY <2>1, <2>2, <2>3, <2>6, <2>7, MappedAdvance
<1>5. QED BY <1>1, <1>3, <1>4, WorkModuleMove

(* ... S2D takes the entry at the head, ...                                *)
LEMMA StepTakeHead ==
  ASSUME RingInv, RingInv', Empty
  PROVE  PacketChain!TakeHead
<1>1. PacketTypeOK /\ PacketTypeOK' /\ WorkInv /\ ChainInv /\ QueueOk /\ QueueOk'
  BY QueueFacts, QueueFactsNext DEF RingInv, SetupInv, WorkInv
<1>2. /\ UNCHANGED <<tail, ptr, next>> /\ ~emptied /\ emptied' = TRUE
      /\ ptr[0] \in Positions /\ slot[ptr[0]] # NoPacket
      /\ slot' = [slot EXCEPT ![ptr[0]] = NoPacket] /\ 0 < Reached(0) /\ 0 < Occupied
  BY <1>1, WorkEmpty
<1>3. Occupied' = Occupied /\ (\A i : At(i)' = At(i)) /\ Passed' = Passed
  BY <1>2 DEF Occupied, At, Passed, Ahead
<1>4. 1 \in 1 .. Occupied /\ Occupied \in 0 .. Slots-1 /\ Place(ptr[0]) = 0
  BY <1>1, <1>2, Types
<1>5. At(1) = ptr[0]
  <2>1. At(1) \in Positions /\ Place(At(1)) = 1 - 1
    BY <1>1, <1>4 DEF QueueOk
  <2>2. Dist(ptr[0], At(1)) = Dist(ptr[0], ptr[0])
    BY <1>4, <2>1 DEF Place
  <2>3. QED BY <1>2, <2>1, <2>2, DistInjective
<1>6. Queue[1].state = "ready"
  <2>1. EntryOf(ptr[0]).state = "ready"
    BY <1>2 DEF EntryOf
  <2>2. QED BY <1>1, <1>4, <1>5, <2>1 DEF QueueOk
<1>7. Queue'[1] = PacketChain!Done
  <2>1. Queue'[1] = EntryOf(At(1))'
    BY <1>1, <1>3, <1>4 DEF QueueOk
  <2>2. At(1)' = ptr'[0]
    BY <1>2, <1>3, <1>5
  <2>3. QED BY <1>2, <2>1, <2>2 DEF EntryOf, PacketChain!Done
<1>8. ASSUME NEW i \in 1 .. Occupied, i # 1 PROVE Queue'[i] = Queue[i]
  <2>1. At(i) \in Positions /\ Place(At(i)) = i - 1
    BY <1>1 DEF QueueOk
  <2>2. At(i) # ptr[0]
    BY <1>4, <1>8, <2>1
  <2>3. slot'[At(i)] = slot[At(i)]
    BY <1>2, <2>1, <2>2 DEF PacketTypeOK
  <2>4. EntryOf(At(i))' = EntryOf(At(i))
    BY <1>2, <1>3, <2>2, <2>3 DEF EntryOf
  <2>5. QED BY <1>1, <1>3, <2>4 DEF QueueOk
<1>9. /\ Queue \in Seq(Entries) /\ Queue' \in Seq(Entries) /\ Len(Queue) = Occupied
      /\ Len(Queue') = Occupied
  BY <1>1, <1>3, EntriesConstant DEF QueueOk
<1>10. Queue' = [Queue EXCEPT ![1] = PacketChain!Done]
  <2>1. PacketChain!Done \in Entries
    BY DEF Entries
  <2>2. QED BY <1>4, <1>7, <1>8, <1>9, <2>1, IsExcept
<1>11. Queue # <<>>
  BY <1>2, <1>9, EmptySeq
<1>12. ASSUME NEW m \in 1 .. K-1 PROVE Passed[m] > 0
  <2>1. Passed[m] = Ahead(m) /\ Ahead(m) \in 0 .. Slots-1 /\ Reached(0) <= Ahead(m)
        /\ Reached(0) \in 0 .. Slots-1
    BY <1>1, NextPlace, ModuleFacts DEF QueueOk, ChainInv
  <2>2. QED BY <1>2, <2>1
<1>13. QED BY <1>3, <1>6, <1>10, <1>11, <1>12, MappedTakeHead

(* ... and drops it when it moves on.                                      *)
LEMMA StepDropHead ==
  ASSUME RingInv, RingInv', S2DMove
  PROVE  PacketChain!DropHead
<1>1. PacketTypeOK /\ PacketTypeOK' /\ WorkInv /\ QueueOk /\ QueueOk'
  BY QueueFacts, QueueFactsNext DEF RingInv, SetupInv
<1>2. /\ UNCHANGED <<tail, next, slot>> /\ emptied /\ ~emptied'
      /\ ptr' = [ptr EXCEPT ![0] = Plus(ptr[0], 1)]
      /\ Occupied >= 1 /\ Occupied' = Occupied - 1
      /\ \A m \in 1 .. K-1 : Ahead(m) >= 1 /\ Ahead(m)' = Ahead(m) - 1
  BY <1>1, WorkS2DMove
<1>3. ptr'[0] = Plus(ptr[0], 1) /\ ptr[0] \in Positions /\ ptr'[0] \in Positions
      /\ 0 \in Modules /\ Occupied \in 0 .. Slots-1 /\ Place(ptr[0]) = 0
  <2>1. ptr[0] \in Positions /\ 0 \in Modules /\ Occupied \in 0 .. Slots-1 /\ Place(ptr[0]) = 0
    BY <1>1, Types
  <2>2. ptr'[0] = Plus(ptr[0], 1)
    BY <1>1, <1>2, <2>1 DEF PacketTypeOK
  <2>3. QED BY <2>1, <2>2, DistFromNext
<1>4. Queue # <<>>
  <2>1. Len(Queue) # 0
    BY <1>1, <1>2 DEF QueueOk
  <2>2. QED BY <1>1, <2>1, EmptySeq DEF QueueOk
<1>5. \A m \in 1 .. K-1 : Passed[m] > 0
  <2>1. ASSUME NEW m \in 1 .. K-1 PROVE Passed[m] > 0
    <3>1. Passed[m] = Ahead(m) /\ Ahead(m) \in 0 .. Slots-1 /\ Ahead(m) >= 1
      BY <1>1, <1>2 DEF QueueOk
    <3>2. QED BY <3>1
  <2>2. QED BY <2>1
<1>6. Queue[1] # PacketChain!Open
  <2>1. 1 \in 1 .. Occupied
    BY <1>2, <1>3
  <2>2. At(1) \in Positions /\ Place(At(1)) = 1 - 1 /\ Queue[1] = EntryOf(At(1))
    BY <1>1, <2>1 DEF QueueOk
  <2>3. Dist(ptr[0], At(1)) = Dist(ptr[0], ptr[0])
    BY <1>3, <2>2 DEF Place
  <2>4. At(1) = ptr[0]
    BY <1>3, <2>2, <2>3, DistInjective
  <2>5. QED BY <1>2, <2>2, <2>4 DEF EntryOf, PacketChain!Open
<1>7. Passed' = [m \in 1 .. K-1 |-> Passed[m] - 1]
  <2>1. \A m \in 1 .. K-1 : Ahead(m)' = Passed[m] - 1
    BY <1>1, <1>2 DEF QueueOk
  <2>2. QED BY <2>1 DEF Passed
<1>8. ASSUME NEW i \in 1 .. Occupied - 1 PROVE Queue'[i] = Queue[i+1]
  <2>1. PICK j : j = i + 1
    OBVIOUS
  <2>2. i \in 1 .. Occupied' /\ j \in 1 .. Occupied /\ j - 1 = i /\ i >= 1 /\ i \in Nat
    BY <1>2, <1>3, <2>1
  <2>3. At(j) \in Positions /\ Dist(ptr[0], At(j)) = i
    BY <1>1, <2>2 DEF QueueOk, Place
  <2>4. Dist(ptr'[0], At(j)) = i - 1
    BY <1>3, <2>2, <2>3, DistFromNext
  <2>5. At(i)' \in Positions /\ Dist(ptr'[0], At(i)') = i - 1 /\ Queue'[i] = EntryOf(At(i))'
    <3>1. QueueOk'
      BY <1>1
    <3>2. QED BY <2>2, <3>1 DEF QueueOk, Place
  <2>6. At(i)' = At(j)
    BY <1>3, <2>3, <2>4, <2>5, DistInjective
  <2>7. At(j) # ptr[0]
    <3>1. Dist(ptr[0], ptr[0]) = 0
      BY <1>3 DEF Place
    <3>2. QED BY <2>2, <2>3, <3>1
  <2>8. EntryOf(At(i))' = EntryOf(At(j))
    BY <1>2, <2>6, <2>7 DEF EntryOf
  <2>9. QED BY <1>1, <2>1, <2>2, <2>5, <2>8 DEF QueueOk
<1>9. /\ Queue \in Seq(Entries) /\ Queue' \in Seq(Entries) /\ Len(Queue) = Occupied
      /\ Len(Queue') = Occupied - 1
  BY <1>1, <1>2, EntriesConstant DEF QueueOk
<1>10. Queue' = Tail(Queue)
  BY <1>4, <1>8, <1>9, IsTail
<1>11. QED BY <1>4, <1>5, <1>6, <1>7, <1>10, MappedDropHead

LEMMA StepMapped ==
  ASSUME ~LateInits, PacketInv, PacketInv', [Next]_vars
  PROVE  overrun' \/ PacketChain!Next \/ Shown
<1> SUFFICES ASSUME ~overrun' PROVE PacketChain!Next \/ Shown
  OBVIOUS
<1>1. PacketTypeOK /\ SetupInv /\ WorkInv /\ RingInv /\ RingInv'
  BY OverrunStays DEF PacketInv, SetupInv, RingInv
<1>2. CASE \/ \E m \in Modules : InitRing(m) \/ RegTest(m) \/ RegMySelf(m)
           \/ StartWork \/ UNCHANGED vars
  BY <1>1, <1>2, WorkSetup, QueueUnchanged
<1>3. ASSUME NEW p \in Producers, ReadTail(p) \/ TestLimit(p) \/ WaitSlot(p) PROVE Shown
  BY <1>1, <1>3, WorkReadTail, WorkTestLimit, WorkWaitSlot, QueueUnchanged
<1>4. ASSUME NEW p \in Producers, IncrementTail(p) \/ Fill(p) PROVE PacketChain!Next
  BY <1>1, <1>4, StepReserve, StepPublish DEF PacketChain!Next
<1>5. ASSUME NEW m \in Modules, GetNextPacket(m) PROVE Shown
  BY <1>1, <1>5, WorkGetNextPacket, QueueUnchanged
<1>6. ASSUME NEW m \in Modules, Read(m) PROVE PacketChain!Next \/ Shown
  BY <1>1, <1>6, StepAdvance DEF Read, PacketChain!Next
<1>7. CASE Empty \/ S2DMove
  BY <1>1, <1>7, StepTakeHead, StepDropHead DEF PacketChain!Next
<1>8. QED BY <1>2, <1>3, <1>4, <1>5, <1>6, <1>7 DEF Next, Produce

LEMMA MapsInit == Init => PacketChain!Init
<1> SUFFICES ASSUME Init PROVE PacketChain!Init
  OBVIOUS
<1>1. 0 \in Positions /\ Dist(0, 0) = 0
  <2>1. 0 \in Positions
    BY Sizes DEF Positions
  <2>2. QED BY <2>1, DistType
<1>2. Occupied = 0 /\ \A m \in 1 .. K-1 : Ahead(m) = 0
  BY <1>1, ModuleFacts DEF Init, Occupied, Ahead
<1>3. Queue = <<>> /\ Passed = [m \in 1 .. K-1 |-> 0]
  BY <1>2 DEF Queue, Passed
<1>4. QED BY <1>3, MappedInit

LEMMA MapsNext ==
  ASSUME ~LateInits
  PROVE  PacketInv /\ PacketInv' /\ [Next]_vars
         => [overrun' \/ PacketChain!Next]_<<Queue, Passed>>
  BY StepMapped DEF Shown

(* The packet ring implements the bounded queue with its chain of stages   *)
(* up to the first overrun: no packet is lost, read twice, read out of     *)
(* order or before it is filled, and no slot is given back before every    *)
(* module has passed it.                                                   *)
THEOREM RingImplementsChain == ASSUME ~LateInits PROVE Spec => ImplementsPacketChain
<1>1. PacketInv /\ [Next]_vars => PacketInv'
  BY PacketNext
<1>2. QED BY <1>1, MapsInit, MapsNext, PacketInit, PTL DEF Spec, ImplementsPacketChain

(* With one producer it implements the queue for good.                     *)
THEOREM OneProducerImplementsChain ==
  ASSUME ~LateInits, OneProducer PROVE Spec => PacketChain!Spec
<1>1. PacketInv /\ [Next]_vars => PacketInv'
  BY PacketNext
<1>2. [overrun' \/ PacketChain!Next]_<<Queue, Passed>> /\ ~overrun' => [PacketChain!Next]_<<Queue, Passed>>
  OBVIOUS
<1>3. QED BY <1>1, <1>2, MapsInit, MapsNext, PacketInit, OneProducerNeverOverruns, PTL
         DEF Spec, PacketChain!Spec

=============================================================================
