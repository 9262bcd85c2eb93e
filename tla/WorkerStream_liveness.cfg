CONSTANTS
  Size = 2
  MaxSeq = 3
  Requested = {1, 2}
  MaxRetries = 4
  MaxConns = 3
  Faults = {"drop", "broken_send", "offline_send"}
  MaxFaults = 2
  None = None
SPECIFICATION FairSpec
CHECK_DEADLOCK FALSE
PROPERTIES
  Delivery
  ImplementsOrderedDelivery
