SPECIFICATION Spec
CONSTANTS
  s1 = s1
  s2 = s2
  Sessions <- TwoSessions
  MaxTasks = 3
  Capacity = 20
  Backlog = 3
  MaxAttempts = 1
  MaxCrashes = 1
  MaxPriority = 2
  StartPolicies = {"immediate", "window"}
  Settable = {}
  Ops = {"ratelimit", "fetch", "stop", "priority"}
SYMMETRY SessionSymmetry
INVARIANTS
  TypeOK
  LogHasOneInFlight
  NoOrphanWhileUp
  NoRunBeforeDispatch
  LogAccountsForTasks
PROPERTIES
  SessionIsFifo
  ImplementsLifecycle
  ClaimsInOrder
