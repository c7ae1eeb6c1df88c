\* Gears and a turn signal, whatever may fail, early in the start of the system.
SPECIFICATION ControlSpec
CONSTANTS
  rear = rear
  side = side
  Cameras = {rear, side}
  Views <- SharedViews
  Gears = {"REVERSE", "DRIVE"}
  Signals = {"NONE", "LEFT"}
  Failing = {"power", "gear", "signal", "activate", "draw", "info", "taken"}
INVARIANTS ShowsItsState
PROPERTIES ViewFollowsVehicle
