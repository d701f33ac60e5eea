SPECIFICATION Spec
SYMMETRY Symmetry
CONSTANTS
  Keys = {k1, k2}
  Workers = {w1, w2}
  Faults = {"crash", "drop", "lostReply"}
  MaxFaults = 1
  None = none
INVARIANTS TypeOK AnsweredPayable NoHalfBooking
PROPERTIES Contract
CHECK_DEADLOCK FALSE
