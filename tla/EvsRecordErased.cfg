\* A device goes while openCamera works with its record.
SPECIFICATION Spec
CONSTANTS
  Devices = {d1}
  Qualified = {d1}
  Groups = {}
  Cams = {a}
  NoCamera = none
  Plugging = TRUE
  Early = FALSE
  MaxEvents = 1
INVARIANTS RecordIsLive
