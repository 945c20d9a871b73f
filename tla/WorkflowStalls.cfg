SPECIFICATION FairSpec
CONSTANTS
  NumSteps = 2
  MaxCrashes = 1
  Ops = {}
PROPERTIES
  WorkflowEnds
