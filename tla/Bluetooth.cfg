SPECIFICATION Spec
CONSTANTS
  N <- NMC
  Kind <- KindMC
  Start <- StartMC
  Size <- SizeMC
  Wire <- WireMC
  ByteBase <- ByteBaseMC
  PatchAt <- PatchAtMC
  ReadSizes = {6, 25}
  Clients = {a, b}
  Death = Death
  Nobody = Nobody
  Emulator = TRUE
  ResetAnswers = {2, 3}
  MaxOpens = 2
  Mortal = {a}
INVARIANTS WholePackets Prompt WatchedIsOpen DeliveredToOwner AloneIsSafe
PROPERTIES CallsReturn ReadsAsFraming
CHECK_DEADLOCK FALSE
