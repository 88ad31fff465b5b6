SPECIFICATION FairSpec
CONSTANTS
  till = till
  kds = kds
  Devices = {till, kds}
  Ticking = {till}
  MaxOwn <- TillAppendsTwo
  Batch = 2
  Page = 1
  MaxQueue = 2
  MaxDrops = 1
  MaxFaults = 2
PROPERTIES
  OutboxDrains
  SessionDelivers
INVARIANTS
  LogBacksCheckpoints
  CursorBelowBlock
  NothingSlips
CHECK_DEADLOCK FALSE
