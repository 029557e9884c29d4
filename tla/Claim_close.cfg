CONSTANTS
  UserCalls = {"StopTransaction"}
  TriggerCalls = {}
  BootReplies = {"Accepted"}
  FanOut = 1
  LateFrames = FALSE
  MaxCalls = 4
  MaxIds = 8
SPECIFICATION Spec
PROPERTY DurableSurvivesClose
CHECK_DEADLOCK FALSE
