\* One capture thread in front of two indexing modules and S2D: safety and progress.
SPECIFICATION FairSpec
CONSTANTS
  N = 4
  BlkCap = 2
  MetaCount = 7
  K = 3
  Producers = {p1}
  PoolSize = 1
  Signals = {"timeout"}
  MaxSignals = 1
  MaxInHand = 1
  MaxLag = 0
  NoBlk = NoBlk
  NoData = NoData
INVARIANTS
  TypeOK
  HeldBlkIsComplete
  MoveNeverRefused
PROPERTIES
  ImplementsChain
  PublishedIsReleased
  ClaimIsServed
