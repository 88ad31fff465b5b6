SPECIFICATION FairSpec
CONSTANTS
  counter = counter
  kitchen = kitchen
  waiter = waiter
  None = None
  Devices = {counter, kitchen, waiter}
  Rank <- AllRanks
  Id <- AllIds
  Wan = {counter, kitchen}
  Steady = {counter}
  PushBatchMax = 2
  Scenarios <- AllScenes
INVARIANTS
  CheckpointInCloud
  LanCursorHeld
PROPERTIES
  FollowersNeverRelay
  LanRecovers
  OutboxesDrain
CHECK_DEADLOCK FALSE
