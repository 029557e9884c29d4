CONSTANTS
  Flow <- TwoFlows
  OnConnect = {"charge"}
  OnStatus = {"start"}
  Seeded = {"charge"}
  MaxRuns = 3
  MaxCrashes = 1
SPECIFICATION FairSpec
INVARIANTS
  RegisteredRuns
  NeverAhead
PROPERTY StoppedEnds
CHECK_DEADLOCK FALSE
