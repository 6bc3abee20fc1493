SPECIFICATION Spec
CONSTANTS
  c1 = c1
  c2 = c2
  o1 = o1
  o2 = o2
  o3 = o3
  i1 = i1
  i2 = i2
  i3 = i3
  p1 = p1
  p2 = p2
  Customers = {c1, c2}
  Orders = {o1, o2, o3}
  Items = {}
  Proofs = {}
  Owner <- TwoOfThree
  Units <- NoGoods
  Pieces <- NoGoods
  InitialItems = {}
  InitialStock = 3
  Deltas = {}
  MaxStock = 3
  Offers = {"WELCOME", "COUPON"}
  MaxRedemptions = 2
  PerCustomerLimit = 1
  StaffTargets = {"CANCELLED"}
  Suspects = {}
  HandVerified = {c1}
  ListSize = 0
  MaxRequests = 2
  Nobody = Nobody
  NoOrder = NoOrder
INVARIANTS CouponCounterExact GiftHeldByItsOrder
CHECK_DEADLOCK FALSE
