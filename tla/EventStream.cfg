SPECIFICATION FairSpec
CONSTANTS
  MaxEvents = 4
  Tails = 2
  Capacity = 2
  PageSize = 2
  MaxLimit = 2
  Limits = {1, 2, 3}
  MaxBreaks = 1
INVARIANTS
  WalkIsExact
  FlawsShareAMillisecond
  StreamFollowsTime
PROPERTIES
  EveryEventArrives
CHECK_DEADLOCK FALSE
