SPECIFICATION Spec
CONSTANTS
  t1 = t1
  t2 = t2
  pass = pass
  biryani = biryani
  raita = raita
  Devices = {t1, t2, pass}
  Lines = {biryani, raita}
  Price <- Prices
  MaxBill = 7
  Branches <- Apart
SYMMETRY TillSymmetry
INVARIANTS
  OneClose
CHECK_DEADLOCK FALSE
