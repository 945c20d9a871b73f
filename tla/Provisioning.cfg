SPECIFICATION Spec
CONSTANTS
  None = None
  Mounts <- MCMounts
  Directories <- MCDirectories
  Elsewhere <- MCElsewhere
  Places <- MCPlaces
  Ships <- MCShips
  Branches = {None, "unknown"}
  MaxResources = 2
  HookEvents = {"Stop", "PreToolUse"}
INVARIANTS
  MountsSurvive
  HooksForward
  CleanUnlessAsked
  AgentStartsSomewhere
CHECK_DEADLOCK FALSE
