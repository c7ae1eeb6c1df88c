SPECIFICATION VCSpec
CONSTANTS
  BufferCount = 2
  Faults = {"timeout"}
PROPERTIES
  FramesAreDispatched
CHECK_DEADLOCK FALSE
