SPECIFICATION Spec
CONSTANTS
  Reservations = {r1}
  Keys = {k1}
  Created = {}
  Creation = creation
  Workers = {w1}
  Consumer = consumer
  Faults = {}
  MaxFaults = 0
  None = None
INVARIANTS OneInvoicePerSession
CHECK_DEADLOCK FALSE
