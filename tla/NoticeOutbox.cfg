SPECIFICATION NoticeFairSpec
CONSTANTS
  hub = hub
  waiter = waiter
  Devices = {hub, waiter}
  Relays = {hub}
  Ids = {1}
  MaxBreaks = 2
  MaxLosses = 2
INVARIANTS
  MarkedWereSent
PROPERTIES
  HolderIsTold
CHECK_DEADLOCK FALSE
