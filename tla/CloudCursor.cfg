SPECIFICATION Spec
CONSTANTS
  till = till
  kds = kds
  Devices = {till, kds}
  Ticking = {till}
  MaxOwn <- TillAppendsTwo
  Batch = 1
  Page = 1
  MaxQueue = 2
  MaxDrops = 0
  MaxFaults = 0
INVARIANTS
  CursorCoversHeld
CHECK_DEADLOCK FALSE
