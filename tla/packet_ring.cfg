\* Two producers in front of two indexing modules and S2D.
SPECIFICATION FairSpec
CONSTANTS
  Slots = 4
  K = 3
  Producers = {p1, p2}
  Packets = {x}
  NoPacket = NoPacket
  Registrants = {0, 1, 2}
  Requests <- RequestsForMC
  MaxColumns = 2
  Late = {1}
  MaxInHand = 2
  LateInits = FALSE
INVARIANTS
  PacketTypeOK
  ColumnsDisjoint
  SlotIsMine
PROPERTIES
  ImplementsPacketChain
  PublishedPacketIsReleased
CONSTRAINT
  NotOverrun
