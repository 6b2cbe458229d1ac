SPECIFICATION FairSpec
CONSTANTS
  a = a
  b = b
  d = d
  Clients <- TwoClients
  MaxClients = 1
  Handlers = {TRUE}
  MaxFrames = 2
INVARIANTS FailuresAreFinal
PROPERTIES OnlyIdleWaits SlotsComeBack ShutdownDrains
CHECK_DEADLOCK FALSE
