SPECIFICATION Spec
CONSTANTS
  Minute = 2
  Day = 4
  Hour = 2
  Summer <- MCSummer
  DaySets <- MCDaySets
  Horizon = 14
  Never = Never
  Base = 2
  Cap = 4
  Ceiling = 9
  Jitters <- MCJitters
  Floors = {None, 3}
  Policies <- MCPolicies
  MaxTime = 11
  Asked <- MCAsked
  MaxCommits = 1
  MaxChanges = 1
  MaxDispatches = 2
  None = None
INVARIANTS
  ScheduledIsTheOpening
  RetriesFitTheCeiling
  ResultListsTheRun
PROPERTIES
  LaunchesKeepTheirTerms
CHECK_DEADLOCK FALSE
