\* A buffer is asked for before the render thread has made it.
SPECIFICATION DisplaySpec
CONSTANTS
  BinderThreads = {t1}
  Asked = {"NOT_OPEN", "NOT_VISIBLE", "VISIBLE_ON_NEXT_FRAME", "VISIBLE", "DEAD"}
  Client = {"early"}
  Faults = {}
INVARIANTS GivesBuffer
\* Once the display is taken over, nothing need happen any more.
CHECK_DEADLOCK FALSE
