SPECIFICATION FairSpec
CONSTANTS
  Callers = {c1, c2, c3, c4}
  MaxRequests = 3
  MinRequests = 5
  Interval = 1
  Timeout = 1
  MaxCount = 9
INVARIANTS TypeOK FailuresTolerated
PROPERTIES ClosedByProbes RestsAfterTrip Recovers
CHECK_DEADLOCK FALSE
