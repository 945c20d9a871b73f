SPECIFICATION Spec
CONSTANTS
  s1 = s1
  w1 = w1
  k1 = k1
  v1 = v1
  Sessions <- MCSessions
  Workflows <- MCWorkflows
  Keys <- MCKeys
  Values <- MCValues
  Priorities = {1, 2}
  Reports = {"running"}
  Tasked = {s1}
  MaxTime = 2
  MaxCrashes = 1
  None = None
INVARIANTS
  MemoryIsReplay
  AnswersAgree
  
PROPERTIES
  CleanupIsExact
