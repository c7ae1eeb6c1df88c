SPECIFICATION Spec
CONSTANTS
  BufferCount = 1
  Faults = {"alloc"}
  Handles = {h1, h2, h3}
  h1 = h1
  h2 = h2
  h3 = h3
  NoHandle = NoHandle
  Garbage = Garbage
  kMaxBuffersInFlight = 2
  UintMax = 7
  Requests = {1, 2}
  Imports = {}
  RepeatedReturns = FALSE
SYMMETRY HandleSymmetry
PROPERTIES
  ShrinksOnRequestOnly
CHECK_DEADLOCK FALSE
