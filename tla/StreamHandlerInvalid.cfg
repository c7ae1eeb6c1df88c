\* A frame comes with a handle that cannot be duplicated.
SPECIFICATION Spec
CONSTANTS
  Handles = {h1, h2}
  NumBuffers = 2
  NoFrame = NoFrame
  Stopped = Stopped
  Faults = {"invalid"}
PROPERTIES NeverFreezes
\* A handler that was destroyed does nothing any more.
CHECK_DEADLOCK FALSE
