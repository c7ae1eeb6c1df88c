\* An id that is not a port is opened besides the main one.
SPECIFICATION Spec
CONSTANTS
  Ids = {1, 3}
  Ports = {1}
  MainPort = 1
  Addresses = {a, b, c}
  NoAddress = null
  Threads = {t1}
INVARIANTS ExclusiveAccess
CHECK_DEADLOCK FALSE
