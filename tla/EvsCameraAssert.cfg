SPECIFICATION Spec
CONSTANTS
  BufferCount = 1
  Faults = {"setup"}
  Handles = {h1, h2}
  h1 = h1
  h2 = h2
  NoHandle = NoHandle
  Garbage = Garbage
  kMaxBuffersInFlight = 2
  UintMax = 7
  Requests = {1, 2}
  Imports = {}
  RepeatedReturns = FALSE
PROPERTIES
  ClosedWhenStopped
CHECK_DEADLOCK FALSE
