SPECIFICATION FairSpec
CONSTANTS
  Ids = {r1, r2}
  Drivers = {d1}
  Keys = {k1, k2}
  Workers = {w1}
  Cron = cron
  NumSpots = 1
  PaymentTimeout = 1
  HoldDuration = 1
  MaxTime = 2
  ConfirmPaths = {"usecase"}
  Faults = {"crash", "drop"}
  MaxFaults = 1
  None = none
PROPERTIES OverdueResolved
CHECK_DEADLOCK FALSE
