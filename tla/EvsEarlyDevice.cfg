\* A device comes between the enumeration and the watch.
SPECIFICATION Spec
CONSTANTS
  Devices = {d1}
  Qualified = {d1}
  Groups = {}
  Cams = {a}
  NoCamera = none
  Plugging = TRUE
  Early = TRUE
  MaxEvents = 1
INVARIANTS ListFollowsDevices
