CONSTANTS
  k1 = k1
  k2 = k2
  k3 = k3
  b1 = b1
  b2 = b2
  v1 = v1
  v2 = v2
  r1 = r1
  r2 = r2
  c1 = c1
  c2 = c2
  i1 = i1
  i2 = i2
  Claims = {k1, k2, k3}
  Checkouts = {b1, b2}
  Reviews = {v1, v2}
  Rewards = {r1, r2}
  Items = {i1, i2}
  Products <- AllProducts
  Customers = {c1, c2}
  Owner <- Senders
  InitialStock = 2
  maxGiftClaims = 2
  NoOrder = NoOrder
  NoItem = NoItem
  NoReward = NoReward
SPECIFICATION Spec
SYMMETRY ItemSymmetry
CHECK_DEADLOCK FALSE
INVARIANTS TypeOK GiftsCounted GiftKeepsItsItem UnitsAddUp
