CONSTANTS
  c1 = c1
  t1 = t1
  t2 = t2
  t3 = t3
  a1 = a1
  a2 = a2
  Customers = {c1}
  Threads = {t1, t2}
  Appeals = {a1}
  strikeWindow = 0
  firstSuspend = 1
  secondSuspend = 2
  banAfterStrikes = 3
  StaffHours = {1}
  MaxTime = 2
  MaxStrikes = 3
  MaxArms = 1
  NoThread = NoThread
  NoCustomer = NoCustomer
  NoAppeal = NoAppeal
SPECIFICATION Spec
SYMMETRY ThreadSymmetry
CHECK_DEADLOCK FALSE
INVARIANTS TypeOK LadderClimbs RestoredOnAcceptance OneTextPerArm
