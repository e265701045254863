\* Two threads, three callers, one urgent task and one that throws.
SPECIFICATION FairSpec
CONSTANTS
  T = 2
  Tasks = {a, b, c}
  Urgent = {b}
  Throwing = {c}
  Garbage = {"on", "off"}
INVARIANTS
  TypeOK
  SemCountsQueue
  TaskHeldOnce
  QueueOrder
  StoppedIsQuiet
PROPERTIES
  StopEnds
  QueuedIsHandled
CHECK_DEADLOCK FALSE
