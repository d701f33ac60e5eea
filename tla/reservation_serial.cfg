SPECIFICATION SerialSpec
SYMMETRY Symmetry
CONSTANTS
  Ids = {r1, r2}
  Drivers = {d1}
  Keys = {k1, k2}
  Workers = {w1}
  Cron = cron
  NumSpots = 2
  PaymentTimeout = 1
  HoldDuration = 2
  MaxTime = 3
  ConfirmPaths = {"gateway", "usecase"}
  Faults = {"crash", "drop", "lostReply"}
  MaxFaults = 1
  None = none
INVARIANTS OneSession
PROPERTIES Lifecycle
CHECK_DEADLOCK FALSE
