SPECIFICATION FairSpec
CONSTANTS
  v = v
  w = w
  f = f
  g = g
  Workers = {}
  Fetchers = {f}
  NoticeCapacity = 1
  MaxKeySets = 1
  MaxStarts = 1
  MaxInput = 0
PROPERTIES TrayRecovers
CHECK_DEADLOCK FALSE
