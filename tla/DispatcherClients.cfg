SPECIFICATION Spec
CONSTANTS
  s1 = s1
  s2 = s2
  Sessions <- OneSession
  MaxTasks = 2
  Capacity = 3
  Backlog = 2
  MaxAttempts = 1
  MaxCrashes = 1
  MaxPriority = 1
  StartPolicies = {"inherit"}
  Settable = {"window"}
  Ops = {"cancel", "delete", "fetch", "message", "ratelimit", "output"}
INVARIANTS
  AnswersHold
  ProjectionConverges
PROPERTIES
  GoneStaysGone
  EndedIsNotRerun
