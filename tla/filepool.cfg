\* Two handler threads, two request objects of which one is for reads, both at once in
\* the kernel and in one answer of io_getevents, three requests, and threads that may
\* read m_enable before it is set.
SPECIFICATION FairFileSpec
CONSTANTS
  T = 2
  Tasks = {h1, h2}
  Urgent = {}
  Throwing = {}
  Garbage = {"on", "off"}
  Requests = {r1, r2}
  Reads = {r2}
  MaxEvents = 2
  NumEvents = 2
  MaxSubmits = 3
INVARIANTS
  FileTypeOK
  RequestInOnePlace
PROPERTIES
  RequestIsAnswered
  FilePoolStops
CHECK_DEADLOCK FALSE
