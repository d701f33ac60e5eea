SPECIFICATION PromptSpec
SYMMETRY Symmetry
CONSTANTS
  Ids = {r1, r2}
  Drivers = {d1}
  Keys = {k1, k2}
  Workers = {w1}
  Cron = cron
  NumSpots = 1
  PaymentTimeout = 1
  HoldDuration = 2
  MaxTime = 4
  ConfirmPaths = {"gateway"}
  Faults = {}
  MaxFaults = 0
  None = none
INVARIANTS NoSharedSpot
CHECK_DEADLOCK FALSE
