SPECIFICATION Spec
CONSTANTS
  t1 = t1
  t2 = t2
  pass = pass
  biryani = biryani
  raita = raita
  Devices = {t1, t2, pass}
  Lines = {biryani, raita}
  Price <- Prices
  MaxBill = 7
  Branches <- Aggregated
INVARIANTS
  AggregatorOwesTheBill
CHECK_DEADLOCK FALSE
