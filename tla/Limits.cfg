SPECIFICATION Spec
CONSTANTS
  Profiles <- MCProfiles
  Protocols = {"1.6", "2.0.1"}
  AutoReset = {TRUE}
  UserStatuses = {"Charging"}
  Horizon = 7
  MaxTime = 2
  MaxTx = 2
  MaxProfiles = 2
INVARIANTS CompositeIsExact TxProfileEnds
