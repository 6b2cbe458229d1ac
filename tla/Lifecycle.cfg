SPECIFICATION FairSpec
CONSTANTS
  x = x
  y = y
  z = z
  NoProc = NoProc
  PageantPipe <- TwoProcs
  Procs <- ThreeProcs
  CommandLines <- Encounters
INVARIANTS OneBridge ExitMeansGone
PROPERTIES Settles CloseEnds ExitReaches
CHECK_DEADLOCK FALSE
