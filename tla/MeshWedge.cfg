SPECIFICATION FairSpec
CONSTANTS
  counter = counter
  kitchen = kitchen
  waiter = waiter
  None = None
  Devices = {counter, kitchen, waiter}
  Rank <- AllRanks
  Id <- AllIds
  Wan = {counter, kitchen}
  Steady = {counter}
  PushBatchMax = 2
  Scenarios <- TwoHeld
PROPERTIES
  OneHubOnceTheySee
CHECK_DEADLOCK FALSE
