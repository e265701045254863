\* Two captures and S2D on three data blocks; three users of four request objects;
\* frames with up to two tags; a block of three bytes.
SPECIFICATION LibrarySpec
CONSTANTS
  Getters = {g1, g2}
  Releasers = {s}
  BufCount = 3
  ObjCount = 4
  Users = {u1, u2, u3}
  ObjLag = 1
  Layers2 <- MCLayers2
  IpHeaders = {20, 24}
  TcpHeaders = {20, 24}
  Bodies = {0, 8, 21, 22, 40}
  Captures = {34, 43, 60, 66, 100}
  BlockSize = 3
  MaxSaved = 6
INVARIANTS
  FreeListSound
  OneOwner
  DecodeAgrees
  SavedInOrder
PROPERTIES
  WaiterEnds
CHECK_DEADLOCK FALSE
