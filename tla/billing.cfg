SPECIFICATION FairSpec
CONSTANTS
  Reservations = {r1, r2}
  Keys = {k1, k2}
  Created = {k2}
  Creation = creation
  Workers = {w1, w2}
  Consumer = consumer
  Faults = {"crash", "drop"}
  MaxFaults = 1
  None = None
INVARIANTS TypeOK IdemTruthful ChargedOncePerPath
PROPERTIES Contract BilledDespiteOneFault
CHECK_DEADLOCK FALSE
