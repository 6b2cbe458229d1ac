SPECIFICATION FairSpec
CONSTANTS
  v = v
  w = w
  f = f
  g = g
  Workers <- TwoWorkers
  Fetchers = {f}
  NoticeCapacity = 1
  MaxKeySets = 1
  MaxStarts = 1
  MaxInput = 1
PROPERTIES LoadsEnd NoticesDrain ExitEnds IconReturns
CHECK_DEADLOCK FALSE
