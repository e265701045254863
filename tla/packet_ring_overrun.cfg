\* Both producers between their test and their increment.
SPECIFICATION Spec
CONSTANTS
  Slots = 4
  K = 3
  Producers = {p1, p2}
  Packets = {x}
  NoPacket = NoPacket
  Registrants = {}
  Requests <- RequestsForMC
  MaxColumns = 2
  Late = {}
  MaxInHand = 2
  LateInits = FALSE
INVARIANT
  DrainedIsEmpty
