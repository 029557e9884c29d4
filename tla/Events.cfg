SPECIFICATION Spec
CONSTANTS
  Connectors = {1}
  AutoReset = {}
  AuthorizeFirst = {FALSE, TRUE}
  UserStatuses <- MCUserStatuses
  RawStatuses <- MCRawStatuses
  Targets = {"Inoperative"}
  MaxTx = 2
  MaxParked = 1
  MaxEvents = 4
  MaxRestarts = 2
INVARIANTS NumbersRun EndedIsLast RowIsCurrent
