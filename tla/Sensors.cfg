SPECIFICATION Spec
CONSTANTS
  Sensors = {proximity}
  OnChange = {proximity}
  WakeUp = {proximity}
  MinDelay = 2
  MaxDelay = 37
  Word = 16
  Asked = {20}
  Capacity = 1
  MaxInits = 2
INVARIANTS
  HeldWhileUnread
  ServerFollows
PROPERTIES
  ReportsOnActivation
  WakeLockReleased
