SPECIFICATION Spec
CONSTANTS
  N = 3
  Quantity <- MCQuantity
  Prices = {0, 1, 2}
  Coupons <- MCCoupons
  Fees = {1}
  FreeThreshold = 6
  c1 = c1  c2 = c2
  Claims = {c1, c2}
SYMMETRY Symmetric
CHECK_DEADLOCK FALSE
INVARIANTS
  DiscountIsSpread RefundsFollowUnits MoneyCoversUnits
