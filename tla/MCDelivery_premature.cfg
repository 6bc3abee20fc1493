SPECIFICATION Spec
CONSTANTS
  o1 = o1
  l1 = l1
  l2 = l2
  i1 = i1
  i2 = i2
  i3 = i3
  i4 = i4
  w1 = w1
  w2 = w2
  a1 = a1
  Orders = {o1}
  Lines = {l1, l2}
  Items = {}
  OrderOf <- OneOrder
  ProductOf <- BothSecrets
  Rank <- InTurn
  Quantity <- OneEach
  AutoLines = {}
  ItemProduct <- Products
  ItemOrder <- SoldTo
  Workers = {w1}
  Agents = {a1}
  StaffTargets = {}
  Withdrawn = {}
  MaxAttempts = 2
  MaxStalls = 1
  HandServed = {l1, l2}
  Mortal = {}
  NoOrder = NoOrder
  NoLine = NoLine
  NoWorker = NoWorker
INVARIANTS DeliveredMeansEveryLine
CHECK_DEADLOCK FALSE
