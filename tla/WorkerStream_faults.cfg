CONSTANTS
  Size = 2
  MaxSeq = 4
  Requested = {2, 4}
  MaxRetries = 2
  MaxConns = 3
  Faults = {"drop", "broken_send", "offline_send", "offline_retry", "early_retry", "early_frame", "ack_error", "overlap"}
  MaxFaults = 2
  None = None
SPECIFICATION Spec
CHECK_DEADLOCK FALSE
INVARIANTS
  TypeOK
  WindowOK
  WindowAcksTruthful
  DeliveredOnce
