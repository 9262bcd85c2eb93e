CONSTANTS
  Size = 2
  MaxSeq = 2
  Requested = {}
  MaxRetries = 4
  MaxConns = 3
  Faults = {"offline_send", "drop"}
  MaxFaults = 2
  None = None
SPECIFICATION FairSpec
CHECK_DEADLOCK FALSE
PROPERTIES
  AckedIsDelivered
