SPECIFICATION FairSpec
CONSTANTS
  till = till
  kds = kds
  Devices = {kds}
  Ticking = {}
  MaxOwn <- EachAppendsOne
  Batch = 1
  Page = 1
  MaxQueue = 2
  MaxDrops = 0
  MaxFaults = 0
PROPERTIES
  EveryOutboxDrains
CHECK_DEADLOCK FALSE
