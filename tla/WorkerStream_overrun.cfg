CONSTANTS
  Size = 2
  MaxSeq = 4
  Requested <- AllMessages
  MaxRetries = 2
  MaxConns = 2
  Faults = {"drop"}
  MaxFaults = 1
  None = None
SPECIFICATION Spec
CHECK_DEADLOCK FALSE
INVARIANTS
  AckedIsReceived
