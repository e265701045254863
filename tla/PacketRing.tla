----------------------------- MODULE PacketRing -----------------------------
(***************************************************************************)
(* The packet ring of PacketRing, and how it is set up: modules join with  *)
(* InitRing and register columns with RegMySelf, a manager calls StartWork *)
(* and from then on producers claim slots with GetNextMetaSpace, and the   *)
(* modules read them in a chain, 1, 2, .., and module 0, S2D, last, which  *)
(* empties the slots again.                                                *)
(*                                                                         *)
(* The memory of the ring belongs to one process (CreateBlockMemory keeps  *)
(* it in a map without a lock), its modules are threads; their calls of    *)
(* InitRing do not overlap.  The producers and S2D are not in the          *)
(* repository: a producer fills the slot it is given by storing pktLen,    *)
(* S2D stores pktLen = 0 and then moves on.  A name with an underscore is  *)
(* a faulty variant of the definition after it.                            *)
(***************************************************************************)
EXTENDS Integers

CONSTANTS
  Slots,        (* metas in the ring, a power of two: g_metaCount + 1       *)
  K,            (* modules, numbered in the order of their first InitRing   *)
  Producers,    (* threads that call GetNextMetaSpace                       *)
  Packets,      (* what a slot may hold                                     *)
  NoPacket,     (* pktLen = 0                                               *)
  Registrants,  (* modules that register columns                            *)
  Requests,     (* the columns they may ask for: bytes in all, and good, the *)
                (* bytes in front of the first column of an invalid type    *)
  MaxColumns,   (* bound: a module without an offset does not start to      *)
                (* register when so many bytes of columns are handed out    *)
  Late,         (* bound: modules that may be inside RegMySelf when         *)
                (* StartWork is called                                      *)
  MaxInHand,    (* bound: packets a module keeps before it moves on         *)
  LateInits     (* whether a module may call InitRing after StartWork       *)

Modules   == 0 .. K-1
Positions == 0 .. Slots-1

ASSUME PacketRingAssumption ==
  /\ Slots \in Nat /\ Slots >= 2
  /\ K \in Nat /\ K >= 1
  /\ NoPacket \notin Packets
  /\ Registrants \subseteq Modules /\ Late \subseteq Modules
  /\ Requests \subseteq [bytes : Nat, good : Nat]
  /\ \A r \in Requests : r.good <= r.bytes
  /\ MaxColumns \in Nat /\ MaxInHand \in Nat
  /\ LateInits \in BOOLEAN

VARIABLES
  index,     (* g_index: modules that have joined                           *)
  ready,     (* g_metaCount # 0                                             *)
  offset,    (* g_offset: bytes of columns handed out                       *)
  mutex,     (* who has g_mutex: a module, or -1                            *)
  modOffset, (* offset of each module, 0 when it has not registered         *)
  regPc,     (* where each module is in RegMySelf                           *)
  request,   (* the columns each module asks for in its RegMySelf           *)
  tail,      (* g_tailPacket, used modulo the ring                          *)
  ptr,       (* packetPtr of each module                                    *)
  next,      (* _index of its bulk GetNextPacket: the next packet to get    *)
  slot,      (* the pktLen of every slot, and the packet behind it          *)
  pc,        (* where each producer is                                      *)
  pos,       (* tailPos, the local variable of GetNextMetaSpace             *)
  emptied,   (* whether S2D has emptied the slot it is to move past         *)
  (* History: what was asked and answered, and how the producers raced.     *)
  asked,     (* the requests each module has made                           *)
  columns,   (* the bytes that its last RegMySelf told each module are its  *)
  stale,     (* producers that have seen a tail another has incremented     *)
  overrun    (* whether one of them has then taken the last slot            *)

setupVars == <<index, ready, offset, mutex, modOffset, regPc, request, asked, columns>>
raceVars  == <<stale, overrun>>
prodVars  == <<tail, pc, pos, raceVars>>
readVars  == <<ptr, next, emptied>>
vars      == <<setupVars, prodVars, readVars, slot>>

Plus_NoWrap(i, n) == i + n

Plus(i, n) == (i + n) % Slots

(* The distance of the limit from a position, after a round trip, too.     *)
Dist(a, b) == IF a <= b THEN b - a ELSE b + Slots - a

NoColumns == [bytes |-> 0, good |-> 0]

Init ==
  /\ index = 0 /\ ready = FALSE /\ offset = 0 /\ mutex = -1
  /\ modOffset = [m \in Modules |-> 0]
  /\ regPc = [m \in Modules |-> "idle"]
  /\ request = [m \in Modules |-> NoColumns]
  /\ asked = [m \in Modules |-> {}]
  /\ columns = [m \in Modules |-> {}]
  /\ tail = 0
  /\ ptr = [m \in Modules |-> 0]
  /\ next = [m \in Modules |-> 0]
  /\ slot = [s \in Positions |-> NoPacket]
  /\ pc = [p \in Producers |-> "idle"]
  /\ pos = [p \in Producers |-> 0]
  /\ emptied = FALSE
  /\ stale = {} /\ overrun = FALSE

(***************************************************************************)
(* Joining and registering.                                                *)
(***************************************************************************)
(* InitRing: a new module, or one that comes back, starts at slot 0; for   *)
(* module 0 the memory is zeroed.                                          *)
InitRing(m) ==
  /\ m <= index /\ regPc[m] = "idle"
  /\ ~ready \/ LateInits
  /\ index' = IF m = index THEN index + 1 ELSE index
  /\ ptr' = [ptr EXCEPT ![m] = 0]
  /\ next' = [next EXCEPT ![m] = 0]
  /\ slot' = IF m = 0 THEN [s \in Positions |-> NoPacket] ELSE slot
  /\ UNCHANGED <<ready, offset, mutex, modOffset, regPc, request, asked, columns>>
  /\ UNCHANGED <<prodVars, emptied>>

(* RegMySelf tests IsRingReady before it takes the lock; a call without   *)
(* columns may come later, too.                                            *)
RegTest(m) ==
  /\ m \in Registrants /\ m < index /\ regPc[m] = "idle"
  /\ modOffset[m] = 0 => offset < MaxColumns
  /\ \E r \in Requests : /\ ready => r.bytes = 0
                         /\ request' = [request EXCEPT ![m] = r]
  /\ regPc' = [regPc EXCEPT ![m] = "lock"]
  /\ UNCHANGED <<index, ready, offset, mutex, modOffset, asked, columns>>
  /\ UNCHANGED <<prodVars, readVars, slot>>

Bytes(start, count) == start .. start + count - 1

Ask(m) == asked' = [asked EXCEPT ![m] = @ \cup {request[m]}]

(* A module with an offset has registered before: it is told its old       *)
(* offset for whatever it asks for now, also when it was told -2 then.     *)
(* The first module to register has offset 0, and is never seen to have    *)
(* registered.                                                             *)
TellOffset(m) ==
  /\ modOffset[m] # 0
  /\ regPc' = [regPc EXCEPT ![m] = "idle"]
  /\ columns' = [columns EXCEPT ![m] = Bytes(modOffset[m], request[m].bytes)]
  /\ UNCHANGED <<mutex, modOffset>>

StartColumns(m) ==
  /\ modOffset[m] = 0
  /\ regPc' = [regPc EXCEPT ![m] = "columns"]
  /\ modOffset' = [modOffset EXCEPT ![m] = offset]
  /\ columns' = [columns EXCEPT ![m] = {}]

RegLock_Unlocked(m) ==
  /\ regPc[m] = "lock" /\ Ask(m)
  /\ TellOffset(m) \/ (StartColumns(m) /\ UNCHANGED mutex)
  /\ UNCHANGED <<index, ready, offset, request, prodVars, readVars, slot>>

RegLock(m) ==
  /\ regPc[m] = "lock" /\ mutex = -1 /\ Ask(m)
  /\ TellOffset(m) \/ (StartColumns(m) /\ mutex' = m)
  /\ UNCHANGED <<index, ready, offset, request, prodVars, readVars, slot>>

(* Where the columns of a valid type end.                                  *)
GoodEnd(m) == modOffset[m] + request[m].good

(* The next column, of a valid type and of some size.                      *)
RegColumn(m) ==
  /\ regPc[m] = "columns"
  /\ \E size \in 1 .. GoodEnd(m) - offset : offset' = offset + size
  /\ UNCHANGED <<index, ready, mutex, modOffset, regPc, request, asked, columns>>
  /\ UNCHANGED <<prodVars, readVars, slot>>

IsValid(r) == r.good = r.bytes

(* All columns are registered; or the next is of an invalid type and       *)
(* RegMySelf returns -2, but what it has handed out remains.               *)
RegReturn(m) ==
  /\ regPc[m] = "columns" /\ offset = GoodEnd(m)
  /\ regPc' = [regPc EXCEPT ![m] = "idle"]
  /\ mutex' = -1
  /\ columns' = IF IsValid(request[m])
                THEN [columns EXCEPT ![m] = Bytes(modOffset[m], request[m].bytes)]
                ELSE columns
  /\ UNCHANGED <<index, ready, offset, modOffset, request, asked, prodVars, readVars, slot>>

(* StartWork takes no lock.  The manager calls it when all have joined; an *)
(* assert rejects columns registered by then.  A RegMySelf past its test   *)
(* still registers columns: they lie outside of the metas, and what is     *)
(* written there is not modelled.                                          *)
StartWork ==
  /\ index = K /\ ~ready /\ offset = 0
  /\ \A m \in Modules \ Late : regPc[m] = "idle"
  /\ ready' = TRUE
  /\ UNCHANGED <<index, offset, mutex, modOffset, regPc, request, asked, columns>>
  /\ UNCHANGED <<prodVars, readVars, slot>>

(***************************************************************************)
(* Producers: GetNextMetaSpace, which reads the tail, then the limit, and  *)
(* then increments the tail.  Nothing holds the three together: a producer *)
(* may act on a tail that another has incremented since.                   *)
(***************************************************************************)
Goto(p, from, to) == pc[p] = from /\ pc' = [pc EXCEPT ![p] = to]

Testing == {p \in Producers : pc[p] \in {"test", "claim"}}

ReadTail(p) ==
  /\ ready
  /\ Goto(p, "idle", "test")
  /\ pos' = [pos EXCEPT ![p] = tail]
  /\ stale' = stale \ {p}
  /\ UNCHANGED <<setupVars, tail, overrun, readVars, slot>>

IsFull_Never(p) == FALSE

IsFull(p) == Plus(pos[p], 1) = ptr[0]

(* When it is full the producer starts over, or drops the packet.          *)
TestLimit(p) ==
  /\ Goto(p, "test", IF IsFull(p) THEN "idle" ELSE "claim")
  /\ UNCHANGED <<setupVars, tail, pos, raceVars, readVars, slot>>

IncrementTail(p) ==
  /\ Goto(p, "claim", "wait")
  /\ pos' = [pos EXCEPT ![p] = tail]
  /\ tail' = Plus(tail, 1)
  /\ stale' = (stale \cup Testing) \ {p}
  /\ overrun' = (overrun \/ (p \in stale /\ Plus(tail, 1) = ptr[0]))
  /\ UNCHANGED <<setupVars, readVars, slot>>

(* The loop that waits for pktLen = 0.  Without _wait it returns NULL, and *)
(* the slot stays a hole that nobody will fill.                            *)
WaitSlot(p) ==
  /\ pc[p] = "wait"
  /\ \E wait \in BOOLEAN :
       pc' = [pc EXCEPT ![p] = IF slot[pos[p]] = NoPacket THEN "fill"
                               ELSE IF wait THEN "wait" ELSE "idle"]
  /\ UNCHANGED <<setupVars, tail, pos, raceVars, readVars, slot>>

(* External: the producer stores the packet.                               *)
Fill(p) ==
  /\ Goto(p, "fill", "idle")
  /\ \E packet \in Packets : slot' = [slot EXCEPT ![pos[p]] = packet]
  /\ UNCHANGED <<setupVars, tail, pos, raceVars, readVars>>

(***************************************************************************)
(* Modules.                                                                *)
(***************************************************************************)
Dep(m) == IF m = 0 THEN index - 1 ELSE m - 1

Limit_NoChain(m) == tail

Limit(m) == IF m = 1 \/ m = Dep(m) THEN tail ELSE ptr[Dep(m)]

InHand(m) == Dist(ptr[m], next[m])

(* The packets both functions GetNextPacket find: those before the limit,  *)
(* up to the first that is not ready.                                      *)
Gettable(m) ==
  {n \in 1 .. Dist(next[m], Limit(m)) :
     \A i \in 0 .. n-1 : slot[Plus(next[m], i)] # NoPacket}

(* One packet, or several at once.                                         *)
GetNextPacket(m) ==
  /\ ready /\ regPc[m] = "idle"
  /\ \E n \in Gettable(m) :
       /\ InHand(m) + n <= MaxInHand
       /\ next' = [next EXCEPT ![m] = Plus(@, n)]
  /\ UNCHANGED <<setupVars, prodVars, ptr, slot, emptied>>

MayMove_Strict(m, count) == count < Dist(ptr[m], Limit(m))

(* -3 is returned for a move past the limit.                               *)
MayMove(m, count) == count <= Dist(ptr[m], Limit(m))

MoveToNextPacket(m, count) ==
  ptr' = IF MayMove(m, count) THEN [ptr EXCEPT ![m] = Plus(@, count)] ELSE ptr

ModuleMove(m, count) ==
  /\ m # 0 /\ count <= InHand(m)
  /\ MoveToNextPacket(m, count)
  /\ UNCHANGED <<setupVars, prodVars, next, slot, emptied>>

(* External: S2D is done with the packet it has.                           *)
Empty ==
  /\ InHand(0) > 0 /\ ~emptied
  /\ slot' = [slot EXCEPT ![ptr[0]] = NoPacket]
  /\ emptied' = TRUE
  /\ UNCHANGED <<setupVars, prodVars, ptr, next>>

S2DMove ==
  /\ emptied
  /\ MoveToNextPacket(0, 1)
  /\ emptied' = FALSE
  /\ UNCHANGED <<setupVars, prodVars, next, slot>>

(***************************************************************************)
(* The specification.                                                      *)
(***************************************************************************)
RegMySelf(m) == RegLock(m) \/ RegColumn(m) \/ RegReturn(m)

Produce(p) == TestLimit(p) \/ IncrementTail(p) \/ WaitSlot(p) \/ Fill(p)

Read(m) == \E count \in 1 .. MaxInHand : ModuleMove(m, count)

Next ==
  \/ \E m \in Modules : InitRing(m) \/ RegTest(m) \/ RegMySelf(m)
  \/ StartWork
  \/ \E p \in Producers : ReadTail(p) \/ Produce(p)
  \/ \E m \in Modules : GetNextPacket(m) \/ Read(m)
  \/ Empty \/ S2DMove

Spec == Init /\ [][Next]_vars

(* The threads are scheduled: a producer inside a call, a module that can *)
(* go on with its call, get a packet or move on, S2D being module 0.       *)
(* Nobody has to join, to register or to capture.                          *)
ModuleThread(m) ==
  RegMySelf(m) \/ GetNextPacket(m) \/ Read(m) \/ (m = 0 /\ (Empty \/ S2DMove))

Fairness ==
  /\ \A m \in Modules : WF_vars(ModuleThread(m))
  /\ \A p \in Producers : WF_vars(Produce(p))

FairSpec == Spec /\ Fairness
-----------------------------------------------------------------------------
(***************************************************************************)
(* Properties.                                                             *)
(***************************************************************************)
(* The values the variables take.                                          *)
PacketTypeOK ==
  /\ index \in 0 .. K
  /\ ready \in BOOLEAN
  /\ offset \in Nat
  /\ mutex \in Modules \cup {-1}
  /\ modOffset \in [Modules -> Nat]
  /\ regPc \in [Modules -> {"idle", "lock", "columns"}]
  /\ request \in [Modules -> Requests \cup {NoColumns}]
  /\ asked \in [Modules -> SUBSET (Requests \cup {NoColumns})]
  /\ columns \in [Modules -> SUBSET Nat]
  /\ tail \in Positions
  /\ ptr \in [Modules -> Positions]
  /\ next \in [Modules -> Positions]
  /\ slot \in [Positions -> Packets \cup {NoPacket}]
  /\ pc \in [Producers -> {"idle", "test", "claim", "wait", "fill"}]
  /\ pos \in [Producers -> Positions]
  /\ emptied \in BOOLEAN
  /\ stale \subseteq Producers
  /\ overrun \in BOOLEAN

(* Whether a module has always asked for the same columns, all valid.      *)
Steady(m) == \A q, r \in asked[m] : q = r /\ IsValid(r)

(* RegMySelf never tells two modules that one byte of a meta is theirs, if *)
(* each of the two has always asked for the same valid columns: whatever   *)
(* order they register in, however often they come back, and whatever the  *)
(* other modules ask for.  packet_ring.h:114-117 warns of other values; a  *)
(* module that was told -2 and asks again is told bytes that are not its   *)
(* own, and so is not covered either.                                      *)
ColumnsDisjoint ==
  \A m \in Modules : \A other \in Modules \ {m} :
    Steady(m) /\ Steady(other) => columns[m] \cap columns[other] = {}

(* The slots a module has got and not moved past.                          *)
Held(m) == {Plus(ptr[m], i) : i \in 0 .. InHand(m) - 1}

(* The slot a producer got from GetNextMetaSpace is empty until it fills   *)
(* it, no other producer has it, and no module reads it, but S2D perhaps   *)
(* is yet to move past it: for any number of producers between the test    *)
(* and the increment, until one of them takes the last slot on a test that *)
(* another's increment has overtaken.                                      *)
SlotIsMine ==
  ~overrun => \A p \in Producers : pc[p] = "fill" =>
    /\ slot[pos[p]] = NoPacket
    /\ \A q \in Producers \ {p} : pc[q] = "fill" => pos[q] # pos[p]
    /\ \A m \in Modules : pos[p] \in Held(m) => m = 0 /\ emptied

(* When S2D has caught up with the tail, no packet is left in the ring.    *)
(* GetNextMetaSpace may be called by multiple threads (packet_ring.h:242). *)
DrainedIsEmpty ==
  ptr[0] = tail => \A s \in Positions : slot[s] = NoPacket

(* Every packet is read by all modules, and given back by S2D, in the end, *)
(* unless the ring overruns.                                               *)
PublishedPacketIsReleased ==
  \A s \in Positions : []<>(overrun \/ slot[s] = NoPacket)
-----------------------------------------------------------------------------
(***************************************************************************)
(* The packet ring implements ChainQueue: the queue is the stretch of the  *)
(* ring from S2D's slot up to the tail.                                    *)
(***************************************************************************)
Occupied == Dist(ptr[0], tail)
Ahead(m) == Dist(ptr[0], ptr[m])

EntryOf(s) == IF emptied /\ s = ptr[0] THEN [state |-> "done"]
              ELSE IF slot[s] = NoPacket THEN [state |-> "open"]
              ELSE [state |-> "ready", item |-> slot[s]]

At(i) == Plus(ptr[0], i - 1)

Queue  == [i \in 1 .. Occupied |-> EntryOf(At(i))]
Passed == [m \in 1 .. K-1 |-> Ahead(m)]

PacketChain == INSTANCE ChainQueue WITH
                 MaxLen <- Slots - 1,
                 Stages <- K - 1,
                 Items  <- Packets,
                 queue  <- Queue,
                 pos    <- Passed

(* No packet is lost, read twice, read out of order or before it is        *)
(* filled, or its slot given back before every module has passed it: every *)
(* step until the first overrun is a step of ChainQueue, or none.          *)
ImplementsPacketChain ==
  PacketChain!Init /\ [][overrun' \/ PacketChain!Next]_<<Queue, Passed>>
=============================================================================
