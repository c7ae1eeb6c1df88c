SPECIFICATION Spec
CONSTANTS
  Kinds = {"location", "measurement", "navigation", "antenna"}
  MaxStarts = 4
INVARIANTS
  OneReporter
  QuietWhenStopped
PROPERTIES
  KeepsReporting
  CallsReturn
CHECK_DEADLOCK FALSE
