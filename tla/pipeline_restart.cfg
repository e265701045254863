\* A second start of the pipeline on the same ring, assert compiled in.
SPECIFICATION Spec
CONSTANTS
  Tokens = 2
  Serial <- ParallelOnly
  RingCount = 4
  StopBlks = {2}
  PosMod = 16
  NDebug = FALSE
  MaxBlk = 4
  MaxRuns = 2
INVARIANT PosAssertHolds
CHECK_DEADLOCK FALSE
