SPECIFICATION Spec
CONSTANTS
  v = v
  w = w
  f = f
  g = g
  Workers <- TwoWorkers
  Fetchers <- TwoFetchers
  NoticeCapacity = 2
  MaxKeySets = 2
  MaxStarts = 1
  MaxInput = 1
SYMMETRY Symmetry
INVARIANTS NoticesHaveMessages OneLoadAtATime TrayBelief RefreshIsCurrent
CHECK_DEADLOCK FALSE
