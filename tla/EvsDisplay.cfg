\* A client on two binder threads, everything that may fail, and another client
\* that takes the display over.
SPECIFICATION DisplaySpec
CONSTANTS
  BinderThreads = {t1, t2}
  Asked = {"NOT_OPEN", "NOT_VISIBLE", "VISIBLE_ON_NEXT_FRAME", "VISIBLE", "DEAD"}
  Client = {"hidden"}
  Faults = {"gl", "alloc", "texture"}
INVARIANTS DrawnAlone
PROPERTIES GetAnswers ShutdownReturns
\* Once the display is taken over, nothing need happen any more.
CHECK_DEADLOCK FALSE
