\* One capture thread is overtaken by N claims between its read of the tail
\* and its compare-and-swap.
SPECIFICATION Spec
CONSTANTS
  N = 3
  BlkCap = 3
  MetaCount = 7
  K = 1
  Producers = {p1, p2}
  PoolSize = 1
  Signals = {}
  MaxSignals = 1
  MaxInHand = 1
  MaxLag = 3
  NoBlk = NoBlk
  NoData = NoData
INVARIANT CurBlkIsOfDataBlk
CHECK_DEADLOCK FALSE
