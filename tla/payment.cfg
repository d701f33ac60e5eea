SPECIFICATION FairSpec
CONSTANTS
  Orders = {o1, o2}
  Invoices = {i1}
  Keys = {k1}
  Workers = {w1, w2}
  Faults = {"crash", "drop"}
  MaxFaults = 1
  MaxEntries = 3
  None = None
INVARIANTS TypeOK IdemTruthful RememberedApplied PaidByMoney
PROPERTIES Contract Converges
CHECK_DEADLOCK FALSE
