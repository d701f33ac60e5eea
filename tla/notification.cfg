SPECIFICATION FairSpec
CONSTANTS
  Events = {e1, e2, e3}
  Faults = {"crash", "disconnect", "noDatabase", "push", "insert"}
  MaxFaults = 3
  None = none
INVARIANTS TypeOK ToldOncePerFault ToldInOrder
PROPERTIES Contract HandledUnlessDeaf
CHECK_DEADLOCK FALSE
