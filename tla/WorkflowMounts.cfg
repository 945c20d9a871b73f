SPECIFICATION Spec
CONSTANTS
  NumSteps = 2
  MaxCrashes = 0
  Ops = {}
INVARIANTS
  MountFailuresAreReal
