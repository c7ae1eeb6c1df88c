\* Clients open, steal, close and drop cameras while devices come and go.
SPECIFICATION Spec
CONSTANTS
  Devices = {d1, d2}
  Qualified = {d1}
  Groups = {g}
  Cams = {a, b}
  NoCamera = none
  Plugging = TRUE
  Early = FALSE
  MaxEvents = 2
INVARIANTS OneOpen ListFollowsDevices NotifiedTruth
