CONSTANTS
  UserCalls = {"StartTransaction", "Heartbeat"}
  TriggerCalls = {"BootNotification"}
  BootReplies = {"Accepted", "Pending", "Rejected"}
  FanOut = 1
  LateFrames = FALSE
  MaxCalls = 4
  MaxIds = 8
SPECIFICATION Spec
INVARIANTS
  OneOutstanding
  EachCallOnce
  HandledOnce
  IssueOrder
  StoredDrained
PROPERTIES
  GateHonoured
  ImplementsDelivery
CHECK_DEADLOCK FALSE
