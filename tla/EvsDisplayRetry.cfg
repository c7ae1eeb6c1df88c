\* The client returns its buffer again when the first return was answered with
\* an error.
SPECIFICATION DisplaySpec
CONSTANTS
  BinderThreads = {t1}
  Asked = {"NOT_OPEN", "NOT_VISIBLE", "VISIBLE_ON_NEXT_FRAME", "VISIBLE", "DEAD"}
  Client = {"retry"}
  Faults = {}
INVARIANTS DrawnAlone
\* Once the display is taken over, nothing need happen any more.
CHECK_DEADLOCK FALSE
