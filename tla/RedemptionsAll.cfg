SPECIFICATION Spec
CONSTANTS
  c1 = c1
  o1 = o1
  o2 = o2
  h1 = h1
  h2 = h2
  Customers = {c1}
  Handlers = {h1, h2}
  Orders = {o1, o2}
  Subtotals = {3}
  Repriced <- SamePrice
  Offers = {0, 4}
  CouponValue = 1
  Limits <- LimitOne
  PointValue = 2
  MinRedeem = 1
  EarnRate = 1
  Unit = 1
  Wanted = {1, 3}
  Awards <- UpAndDown
  Ops <- Declines
  MaxPoints = 4
  MaxClaims = 2
  MaxCoupons = 1
  MaxCaptures = 1
SYMMETRY OrderSymmetry
INVARIANTS
  RedemptionTypeOK
  NeverOverspent
  OrdersWithinLimit
  PointsCarryTheirValue
CHECK_DEADLOCK FALSE
