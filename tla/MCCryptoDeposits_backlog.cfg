SPECIFICATION Spec
CONSTANTS
  o1 = o1
  o2 = o2
  a1 = a1
  a2 = a2
  d1 = d1
  d2 = d2
  job = job
  button = button
  agent = agent
  NoOrder = NoOrder
  NoDeposit = NoDeposit
  NoAmount = NoAmount
  Nobody = Nobody
  Elsewhere = Elsewhere
  Orders = {o1}
  Amounts = {a1}
  Deposits = {d1, d2}
  Sweepers = {job, button}
  Job = job
  Reviewers = {}
  Mortal = {button}
  Targets = {"PAID", "CANCELLED"}
  MAX_EXTENSIONS = 1
  Batch = 2
  AlertBatch = 1
PROPERTIES NoDepositPassedOver ExactDepositSettles
CHECK_DEADLOCK FALSE
