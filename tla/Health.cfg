SPECIFICATION HealthSpec
CONSTANTS
  Clients = {c1}
  Fast = 1
  Slow = 3
  Levels = {0, 50}
  MaxTraffic = 1
INVARIANT UpdatedInTime
PROPERTY CatchesUp
