SPECIFICATION Spec
CONSTANTS
  till = till
  kds = kds
  menu = menu
  config = config
  NoToken = NoToken
  Devices = {till, kds}
  HubClass = {till, kds}
  RelayClaim = {till}
  Artifacts = {menu, config}
  KeepsDeleted = {menu}
  Ids = {1, 2}
  PageSize = 1
  Ttl = 2
  RenewBelow = 2
  Changes <- SomeChanges
  Scenes <- AllScenes
PROPERTIES
  FanOutServesPeers
CHECK_DEADLOCK FALSE
