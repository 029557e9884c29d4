CONSTANTS
  Branches = {"left", "middle", "right"}
  Flow <- ThreeBranches
  MaxPauses = 2
  MaxSteps = 8
SPECIFICATION FairSpec
INVARIANTS
  StepsAccounted
  OverridesCleared
PROPERTIES
  SilentAfterStop
  PausedIsStill
  StopSettles
CHECK_DEADLOCK FALSE
