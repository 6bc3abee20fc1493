SPECIFICATION Spec
CONSTANTS
  o1 = o1
  l1 = l1
  l2 = l2
  i1 = i1
  i2 = i2
  i3 = i3
  i4 = i4
  w1 = w1
  w2 = w2
  a1 = a1
  Orders = {o1}
  Lines = {l1, l2}
  Items = {i1, i2, i3, i4}
  OrderOf <- OneOrder
  ProductOf <- BothSecrets
  Rank <- InTurn
  Quantity <- OneEach
  AutoLines = {l1, l2}
  ItemProduct <- Products
  ItemOrder <- SoldTo
  Workers = {w1, w2}
  Agents = {a1}
  StaffTargets = {"REFUNDED"}
  Withdrawn = {i1}
  MaxAttempts = 2
  MaxStalls = 1
  HandServed = {l2}
  Mortal = {w1}
  NoOrder = NoOrder
  NoLine = NoLine
  NoWorker = NoWorker
INVARIANTS TypeOK GoodsHandedOverOnce NoLineLeftWaiting NoticeFollowsDelivery
PROPERTIES HandedOverStays JobsEnd
CHECK_DEADLOCK FALSE
