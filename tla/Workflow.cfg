SPECIFICATION FairSpec
CONSTANTS
  NumSteps = 3
  MaxCrashes = 1
  Ops = {"cancel"}
INVARIANTS
  NothingTwice
  AcceptsOrderedGraphs
  ReadModelConverges
PROPERTIES
  ImplementsWorkflow
  OtherWorkflowsEnd
