SPECIFICATION Spec
CONSTANTS
  u1 = u1  c1 = c1  d1 = d1  A = A  B = B  a1 = a1  b1 = b1  g1 = g1
  k1 = k1  k2 = k2  w1 = w1
  NoCoupon = NoCoupon
  Users = {u1}
  CartRequests = {c1}
  DirectRequests = {d1}
  BuyerOf <- MCBuyerOf
  Shops = {A, B}
  Skus = {a1, b1}
  ShopOf <- MCShopOf
  Campaigns = {g1}
  IssuerOf <- MCIssuer
  Total <- MCTotal
  PerUser <- MCPerUser
  Coupons = {k1, k2}
  CampaignOf <- MCCampaignOf
  OwnerOf <- MCOwnerOf
  Workers = {w1}
  Managed = {b1}
  MaxQuantity = 2
  Limit <- MCLimit
INVARIANT DiscountsWithinCampaign
PROPERTY CartLeavesAsOrdered
