SPECIFICATION FairSpec
CONSTANTS
  a = a
  b = b
  f = f
  x = x
  y = y
  None = None
  Procs <- MCProcs
  Foreign <- MCForeign
  HasHost <- MCHasHost
  Pids = {1, 2}
  Rows <- MCRows
  Attempts = 3
  MaxSignings = 2
INVARIANTS InfoOfClient EndpointOfClient AmbiguousStaysUnknown
PROPERTIES LookupEnds
CHECK_DEADLOCK FALSE
