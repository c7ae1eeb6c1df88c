\* Two binder threads and every order of calls, with address reuse.
SPECIFICATION Spec
CONSTANTS
  Ids = {1, 2}
  Ports = {1, 2}
  MainPort = 1
  Addresses = {a, b, c}
  NoAddress = null
  Threads = {t1, t2}
INVARIANTS NoneForgotten ExclusiveAccess
CHECK_DEADLOCK FALSE
