SPECIFICATION Spec
CONSTANTS
  naan = naan
  dal = dal
  grill = grill
  screen = screen
  tandoor = tandoor
  None = None
  Lines = {naan, dal}
  Stations = {grill, tandoor, screen}
  Routed = {grill, tandoor}
  Menus <- ThreeMenus
  WriteOnly = FALSE
  MaxAttempts = 3
  Spools <- EmptySpool
  Bounds <- Voided
PROPERTIES
  ExitedNotSent
CHECK_DEADLOCK FALSE
