SPECIFICATION Spec
CONSTANTS
  s1 = s1
  s2 = s2
  Sessions <- OneSession
  MaxTasks = 2
  Capacity = 20
  Backlog = 3
  MaxAttempts = 0
  MaxCrashes = 0
  MaxPriority = 1
  StartPolicies = {"inherit"}
  Settable = {}
  Ops = {"message"}
INVARIANT OneAgentPerSession
