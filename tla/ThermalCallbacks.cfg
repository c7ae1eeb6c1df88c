SPECIFICATION Spec
CONSTANTS
  Clients = {c1, c2}
  Temperatures = {50, 100, 110}
  TripPoints = {80, 108}
  MaxZones = 2
INVARIANT AlreadyIsRegistered
