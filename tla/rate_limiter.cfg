SPECIFICATION Spec
CONSTANTS
  Keys = {a, b}
  Limit = 2
  Window = 2
  MaxTime = 4
INVARIANTS TypeOK WithinLimit RefusedOnlyAtLimit
CHECK_DEADLOCK FALSE
