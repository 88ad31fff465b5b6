SPECIFICATION NoticeSpec
CONSTANTS
  hub = hub
  waiter = waiter
  Devices = {hub, waiter}
  Relays = {hub}
  Ids = {1}
  MaxBreaks = 0
  MaxLosses = 1
INVARIANTS
  NoticeNeverLost
CHECK_DEADLOCK FALSE
