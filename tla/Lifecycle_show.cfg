SPECIFICATION Spec
CONSTANTS
  x = x
  y = y
  z = z
  NoProc = NoProc
  PageantPipe <- TwoProcs
  Procs <- TwoProcs
  CommandLines <- ShowTwice
INVARIANTS ShowKeysOpens
CHECK_DEADLOCK FALSE
