SPECIFICATION Spec
CONSTANTS
  till = till
  kds = kds
  k1 = k1
  k2 = k2
  bad = bad
  c1 = c1
  c2 = c2
  r1 = r1
  r2 = r2
  r3 = r3
  NoKey = NoKey
  NoRow = NoRow
  NoIssuer = NoIssuer
  Codes = {c1, c2}
  Devices = {till, kds}
  Keys = {k1, k2, bad}
  Unreadable = {bad}
  Requests = {r1, r2, r3}
  Ttl = 0
  Window = 1
  Cap = 1
  Repeats = TRUE
  MaxTime = 1
  MaxFaults = 1
SYMMETRY Alike
INVARIANTS

  CancelIsFinal
CHECK_DEADLOCK FALSE
