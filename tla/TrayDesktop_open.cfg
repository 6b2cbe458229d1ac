SPECIFICATION Spec
CONSTANTS
  v = v
  w = w
  f = f
  g = g
  Workers = {}
  Fetchers <- TwoFetchers
  NoticeCapacity = 1
  MaxKeySets = 2
  MaxStarts = 0
  MaxInput = 1
INVARIANTS OpenIsCurrent
CHECK_DEADLOCK FALSE
