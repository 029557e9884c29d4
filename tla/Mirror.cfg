SPECIFICATION FairSpec
CONSTANTS
  Views = {v1, v2}
  MaxChanges = 1
  MaxCalls = 4
  MaxDrops = 1
  MaxFailures = 1
INVARIANTS RoomFollows NothingMissed
PROPERTIES OnlySnapshotsGoBack GetsReady
CHECK_DEADLOCK FALSE
