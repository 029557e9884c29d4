CONSTANTS
  UserCalls = {"StopTransaction"}
  TriggerCalls = {}
  BootReplies = {"Accepted", "Rejected"}
  FanOut = 0
  LateFrames = FALSE
  MaxCalls = 4
  Intervals = {0, 1}
SPECIFICATION FairBeatSpec
INVARIANTS
  HeartbeatKept
PROPERTIES
  SlotReleased
  RejectedRetries
  QueueDrains
CHECK_DEADLOCK FALSE
