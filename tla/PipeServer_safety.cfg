SPECIFICATION Spec
CONSTANTS
  a = a
  b = b
  d = d
  Clients <- ThreeClients
  MaxClients = 2
  Handlers = {TRUE, FALSE}
  MaxFrames = 1
SYMMETRY Symmetry
INVARIANTS ClientLimit NothingLeaks ShutdownCutsOff
CHECK_DEADLOCK FALSE
