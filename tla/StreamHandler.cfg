\* Two buffers of three, and whatever may go wrong.
SPECIFICATION Spec
CONSTANTS
  Handles = {h1, h2, h3}
  NumBuffers = 2
  NoFrame = NoFrame
  Stopped = Stopped
  Faults = {"refused", "stolen", "dies", "invalid"}
INVARIANTS Conserved ReadsItsOwn
PROPERTIES KeepsRefreshing StopEnds
\* A handler that was destroyed does nothing any more.
CHECK_DEADLOCK FALSE
