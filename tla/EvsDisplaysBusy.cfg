\* A client dies, and its address is given to another display.
SPECIFICATION Spec
CONSTANTS
  Ids = {1, 2}
  Ports = {1, 2}
  MainPort = 1
  Addresses = {a, b, c}
  NoAddress = null
  Threads = {t1}
INVARIANTS RefusedOnlyIfUsed
CHECK_DEADLOCK FALSE
