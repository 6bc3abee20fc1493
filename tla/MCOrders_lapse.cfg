SPECIFICATION Spec
CONSTANTS
  c1 = c1
  c2 = c2
  o1 = o1
  o2 = o2
  o3 = o3
  i1 = i1
  i2 = i2
  i3 = i3
  p1 = p1
  p2 = p2
  Customers = {c1}
  Orders = {o1, o2}
  Items = {}
  Proofs = {p1}
  Owner <- OneCustomer
  Units <- NoGoods
  Pieces <- OneItemEach
  InitialItems = {}
  InitialStock = 2
  Deltas <- MinusOne
  MaxStock = 2
  Offers = {}
  MaxRedemptions = 0
  PerCustomerLimit = 0
  StaffTargets = {"PENDING_PAYMENT", "PROCESSING"}
  Suspects = {c1}
  HandVerified = {}
  ListSize = 1
  MaxRequests = 1
  Nobody = Nobody
  NoOrder = NoOrder
INVARIANTS TypeOK
PROPERTIES UnpaidOrdersLapse ImplementsContract
CHECK_DEADLOCK FALSE
