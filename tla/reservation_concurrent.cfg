SPECIFICATION Spec
SYMMETRY Symmetry
CONSTANTS
  Ids = {r1, r2}
  Drivers = {d1}
  Keys = {k1, k2}
  Workers = {w1, w2}
  Cron = cron
  NumSpots = 1
  PaymentTimeout = 1
  HoldDuration = 2
  MaxTime = 2
  ConfirmPaths = {"gateway"}
  Faults = {}
  MaxFaults = 0
  None = none
INVARIANTS TypeOK NoDoubleBooking HoldLocked IdemTruthful LocksReturned
PROPERTIES Progress
CHECK_DEADLOCK FALSE
