\* The display is taken over while a request for a buffer waits.
SPECIFICATION DisplaySpec
CONSTANTS
  BinderThreads = {t1, t2}
  Asked = {"NOT_OPEN", "NOT_VISIBLE", "VISIBLE_ON_NEXT_FRAME", "VISIBLE", "DEAD"}
  Client = {}
  Faults = {}
PROPERTIES OwnersOnly
\* Once the display is taken over, nothing need happen any more.
CHECK_DEADLOCK FALSE
