\* RenderPixelCopy drops its handler and leaves the camera streaming.
SPECIFICATION Spec
CONSTANTS
  Handles = {h1, h2}
  NumBuffers = 2
  NoFrame = NoFrame
  Stopped = Stopped
  Faults = {}
PROPERTIES StreamsWhileDrawn
\* A handler that was destroyed does nothing any more.
CHECK_DEADLOCK FALSE
