SPECIFICATION Spec
CONSTANTS
  BufferCount = 1
  Faults = {}
  Handles = {h1, h2, h3}
  h1 = h1
  h2 = h2
  h3 = h3
  NoHandle = NoHandle
  Garbage = Garbage
  kMaxBuffersInFlight = 2
  UintMax = 7
  Requests = {2}
  Imports = {}
  RepeatedReturns = TRUE
SYMMETRY HandleSymmetry
INVARIANTS
  SlotAlwaysFound
CHECK_DEADLOCK FALSE
