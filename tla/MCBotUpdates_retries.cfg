CONSTANTS
  Updates = {u1}
  Users = {s1}
  Calls = {k1, k2}
  Workers = {w1, w2}
  NoUser = NoUser
  Group = Group
  NoUpdate = NoUpdate
  NoWorker = NoWorker
  FLOOD_MAX_UPDATES = 1
  MaxDeliveries = 2
  MaxMutes = 2
  MaxAttempts = 2
  MaxStalls = 1
SPECIFICATION Spec
CHECK_DEADLOCK FALSE
INVARIANTS TypeOK HandledAtMostOnce OneNoticePerMute
PROPERTIES QueueDrains
