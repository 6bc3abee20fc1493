SPECIFICATION Spec
CONSTANTS
  c1 = c1
  c2 = c2
  o1 = o1
  o2 = o2
  o3 = o3
  i1 = i1
  i2 = i2
  i3 = i3
  p1 = p1
  p2 = p2
  Customers = {c1}
  Orders = {o1, o2}
  Items = {i1, i2}
  Proofs = {p1}
  Owner <- OneCustomer
  Units <- OneItemEach
  Pieces <- OneAndTwo
  InitialItems = {}
  InitialStock = 3
  Deltas = {}
  MaxStock = 3
  Offers = {}
  MaxRedemptions = 0
  PerCustomerLimit = 0
  StaffTargets = {"PENDING_PAYMENT", "CANCELLED", "PAID", "DISPUTED"}
  Suspects = {}
  HandVerified = {}
  ListSize = 0
  MaxRequests = 2
  Nobody = Nobody
  NoOrder = NoOrder
SYMMETRY ItemSymmetry
INVARIANTS GoodsFollowOrder StockAccounted ApprovedProofIsThePayment
PROPERTIES DisabledStaysOut
CHECK_DEADLOCK FALSE
