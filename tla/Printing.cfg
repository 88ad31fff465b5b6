SPECIFICATION FairSpec
CONSTANTS
  naan = naan
  dal = dal
  grill = grill
  screen = screen
  tandoor = tandoor
  None = None
  Lines = {naan, dal}
  Stations = {grill, tandoor, screen}
  Routed = {grill, tandoor}
  Menus <- ThreeMenus
  WriteOnly = FALSE
  MaxAttempts = 3
  Spools <- EitherSpool
  Bounds <- Troubles
INVARIANTS
  OneChitPerLine
  NothingSilent
PROPERTIES
  NeverSentAgain
  ChitsSettle
CHECK_DEADLOCK FALSE
