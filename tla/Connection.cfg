CONSTANTS
  Sockets = {1, 2, 3}
SPECIFICATION FairSpec
INVARIANTS
  NeverAbandoned
  CalmIsSingle
PROPERTIES
  DisconnectSticks
  Recovers
CHECK_DEADLOCK FALSE
