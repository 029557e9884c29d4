CONSTANTS
  Connectors = {1, 2}
  AutoReset = {2}
  Tags = {t1}
  AuthorizeFirst = {TRUE, FALSE}
  AuthorizeRemote = {TRUE, FALSE}
  StopOnInvalid = {TRUE}
  UserStatuses = {"Preparing"}
  Attended = {2}
  Reservable = {2}
  Ranges <- MCRanges
  MaxTx = 2
  MaxWaiting = 2
SPECIFICATION FairSpec
INVARIANTS
  StopOnce
  WatchdogMatches
  ReservedIsHeld
  ActiveIsShown
  IdsStayLocal
PROPERTIES
  AvailabilityDeferred
  StartsUnpark
CHECK_DEADLOCK FALSE
