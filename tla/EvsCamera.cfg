\* Whatever may fail fails, at any time; two buffers at most.
SPECIFICATION FairClientSpec
CONSTANTS
  BufferCount = 1
  Faults = {"reqbufs", "setup", "select", "dqbuf", "qbuf", "timeout", "alloc", "import", "deliver"}
  Handles = {h1, h2, h3}
  h1 = h1
  h2 = h2
  h3 = h3
  NoHandle = NoHandle
  Garbage = Garbage
  kMaxBuffersInFlight = 2
  UintMax = 7
  Requests = {0, 1, 2, 3}
  Imports = {1, 2}
  RepeatedReturns = FALSE
INVARIANTS
  Accounting
  HeldFramesIntact
  EndOfStreamIsLast
  MappedWhileUsed
PROPERTIES
  StopReturns
  KeepsFlowing
  LendsBuffers
\* The process may end: a second thread object over a joinable one.
CHECK_DEADLOCK FALSE
