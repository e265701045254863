\* Two handler threads and no requests.
SPECIFICATION FairFileSpec
CONSTANTS
  T = 2
  Tasks = {h1, h2}
  Urgent = {}
  Throwing = {}
  Garbage = {"on"}
  Requests = {r1}
  Reads = {}
  MaxEvents = 1
  NumEvents = 2
  MaxSubmits = 0
PROPERTY AllThreadsHandle
CHECK_DEADLOCK FALSE
