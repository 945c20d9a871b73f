SPECIFICATION Spec
CONSTANTS
  t1 = t1
  t2 = t2
  m1 = m1
  NoRun = NoRun
  Tasks <- TwoTasks
  Messages <- OneMessage
  MaxAttempts = 3
  MaxCrashes = 1
SYMMETRY RunSymmetry
INVARIANTS
  StatusMatchesLog
  RunningIsExplained
  AutoSyncIsNotResumed
PROPERTIES
  RetryResumes
