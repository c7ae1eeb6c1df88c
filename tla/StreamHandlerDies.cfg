\* The process of the camera ends during the stream.
SPECIFICATION Spec
CONSTANTS
  Handles = {h1, h2}
  NumBuffers = 2
  NoFrame = NoFrame
  Stopped = Stopped
  Faults = {"dies"}
PROPERTIES WaitsForEnd
\* A handler that was destroyed does nothing any more.
CHECK_DEADLOCK FALSE
