SPECIFICATION Spec
CONSTANTS
  c1 = c1
  c2 = c2
  x1 = x1
  x2 = x2
  q1 = q1
  q2 = q2
  q3 = q3
  bad = bad
  k1 = k1
  k2 = k2
  None = None
  Callers <- MCCallers
  Closers <- MCClosers
  Malformed <- MCMalformed
  Conns <- MCConns
  LocalPipe = TRUE
  Requests <- MCMoreRequests
INVARIANTS ReplyMatchesRequest NeverReconnects NoLeakedPipe
PROPERTIES ImplementsContract CloseInterrupts PipesReleased QueryReturns
CHECK_DEADLOCK FALSE
