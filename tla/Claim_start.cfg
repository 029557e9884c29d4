CONSTANTS
  Connectors = {1}
  AutoReset = {1}
  Tags = {t1}
  AuthorizeFirst = {TRUE}
  AuthorizeRemote = {FALSE}
  StopOnInvalid = {TRUE}
  UserStatuses = {}
  Attended = {}
  Reservable = {}
  Ranges <- MCRanges
  MaxTx = 2
  MaxWaiting = 2
SPECIFICATION Spec
PROPERTY ActiveStaysIntact
CHECK_DEADLOCK FALSE
