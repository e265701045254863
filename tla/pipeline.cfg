\* Two runs of the pipeline, ended by blocks 4 and 7; assert is compiled out.
SPECIFICATION FairSpec
CONSTANTS
  Tokens = 3
  Serial <- SerialThenParallel
  RingCount = 6
  StopBlks = {4, 7}
  PosMod = 16
  NDebug = TRUE
  MaxBlk = 8
  MaxRuns = 2
INVARIANTS
  TypeOK
  BlkStaysMine
  TokensAccounted
  GetBlockNeverSpins
  EndIsClean
PROPERTIES
  StopEndsRun
  BlksAreReturned
CHECK_DEADLOCK FALSE
