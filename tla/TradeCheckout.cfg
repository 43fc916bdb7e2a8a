SPECIFICATION Spec
CONSTANTS
  c1 = c1  d1 = d1  A = A  a = a  k = k  p1 = p1  p2 = p2
  NoCoupon = NoCoupon
  CartRequests = {c1}
  DirectRequests = {d1}
  Shops = {A}
  Skus = {a}
  ShopOf <- MCShopOf
  Coupons = {k}
  CouponShop <- MCCouponShop
  Payments = {p1, p2}
  OrderOf <- MCSameOrder
  Events <- MCEvents
  InitialStock <- MCStock
  Corrections <- MCCorrections
  MaxQuantity = 1
  MaxSupply = 2
  MaxQueries = 1
CHECK_DEADLOCK FALSE
INVARIANTS TypeOK PaidOnce LockedIsReserved StockConserved CouponSpentOnce
PROPERTIES SuccessIsFinal ExpiredIsResolved ImplementsOrderBook ImplementsCouponBook
