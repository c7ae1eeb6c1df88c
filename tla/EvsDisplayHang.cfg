\* The display is taken over before its render thread is initialised.
SPECIFICATION DisplaySpec
CONSTANTS
  BinderThreads = {t1}
  Asked = {"NOT_OPEN", "NOT_VISIBLE", "VISIBLE_ON_NEXT_FRAME", "VISIBLE", "DEAD"}
  Client = {}
  Faults = {}
PROPERTIES ShutdownAlwaysReturns
\* Once the display is taken over, nothing need happen any more.
CHECK_DEADLOCK FALSE
