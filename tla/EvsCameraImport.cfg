SPECIFICATION Spec
CONSTANTS
  BufferCount = 1
  Faults = {}
  Handles = {h1, h2, h3, h4}
  h1 = h1
  h2 = h2
  h3 = h3
  h4 = h4
  NoHandle = NoHandle
  Garbage = Garbage
  kMaxBuffersInFlight = 2
  UintMax = 7
  Requests = {1, 2}
  Imports = {2, 3}
  RepeatedReturns = FALSE
SYMMETRY HandleSymmetry
INVARIANTS
  LimitRespected
CHECK_DEADLOCK FALSE
