\* One thread, two callers, one task that throws.
SPECIFICATION Spec
CONSTANTS
  T = 1
  Tasks = {a, c}
  Urgent = {}
  Throwing = {c}
  Garbage = {"on"}
INVARIANT NoTaskStranded
CHECK_DEADLOCK FALSE
