SPECIFICATION Spec
CONSTANTS
  till = till
  kds = kds
  Devices = {till, kds}
  Ticking = {till}
  MaxOwn <- TillAppendsFour
  Batch = 4
  Page = 2
  MaxQueue = 2
  MaxDrops = 0
  MaxFaults = 2
INVARIANTS
  NeverPassesBlockage
CHECK_DEADLOCK FALSE
