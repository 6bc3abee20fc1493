SPECIFICATION Spec
CONSTANTS
  c1 = c1
  c2 = c2
  o1 = o1
  o2 = o2
  t1 = t1
  t2 = t2
  r1 = r1
  Customers = {c1, c2}
  Orders = {o1, o2}
  TopUps = {t1, t2}
  Receipts = {r1}
  Owner <- BothOfOne
  Total <- Prices
  TopUpAmounts = {1, 2}
  Adjustments = {1}
  Targets = {"PAYMENT_SUBMITTED", "CANCELLED", "REFUNDED"}
  MAX_PENDING_TOPUPS = 1
  MaxRequests = 2
  MaxLines = 1
  NoOrder = NoOrder
  NoTopUp = NoTopUp
  Nobody = Nobody
  NoReceipt = NoReceipt
INVARIANTS TypeOK LedgerAgrees ChargedWhenPaid CreditedWhenApproved
PROPERTY LedgerOnlyGrows
SYMMETRY Interchangeable
CHECK_DEADLOCK FALSE
