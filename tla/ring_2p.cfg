\* Two capture threads that race for the tail.
SPECIFICATION Spec
CONSTANTS
  N = 4
  BlkCap = 2
  MetaCount = 7
  K = 2
  Producers = {p1, p2}
  PoolSize = 1
  Signals = {}
  MaxSignals = 1
  MaxInHand = 1
  MaxLag = 3
  NoBlk = NoBlk
  NoData = NoData
INVARIANTS
  ClaimedBlkIsClean
  OpenBlkIsMine
  DataBlkAccounted
  EmptyMeansDrained
  ChainOrder
PROPERTIES
  HeldBlkIsStable
