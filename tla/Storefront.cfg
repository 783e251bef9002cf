SPECIFICATION StorefrontSpec
CONSTANTS
  t1 = t1
  t2 = t2
  a = a
  b = b
  Tabs = {t1, t2}
  Products = {a, b}
  Bundle <- Pair
  MaxCarts = 2
  MaxActs = 6
  MaxTrouble = 1
INVARIANTS
  StorefrontTypeOK
  ShownIsSold
SYMMETRY TabSymmetry
CHECK_DEADLOCK FALSE
