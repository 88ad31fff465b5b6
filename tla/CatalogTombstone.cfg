SPECIFICATION Spec
CONSTANTS
  till = till
  kds = kds
  menu = menu
  config = config
  NoToken = NoToken
  Devices = {till, kds}
  HubClass = {till, kds}
  RelayClaim = {till}
  Artifacts = {menu, config}
  KeepsDeleted = {menu}
  Ids = {1, 2}
  PageSize = 1
  Ttl = 2
  RenewBelow = 1
  Changes <- SomeChanges
  Scenes <- Deletions
INVARIANTS
  NamesEveryRow
CHECK_DEADLOCK FALSE
