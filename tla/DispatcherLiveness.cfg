SPECIFICATION FairSpec
CONSTANTS
  s1 = s1
  s2 = s2
  Sessions <- TwoSessions
  MaxTasks = 2
  Capacity = 20
  Backlog = 3
  MaxAttempts = 1
  MaxCrashes = 1
  MaxPriority = 1
  StartPolicies = {"immediate", "manual"}
  Settable = {"immediate", "inherit"}
  Ops = {"ratelimit", "trigger"}
PROPERTIES
  QueuedTasksLeave
  TriggeredTasksLeave
  DispatchedTasksEnd
