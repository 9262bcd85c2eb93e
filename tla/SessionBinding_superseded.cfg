SPECIFICATION FairSpec
CONSTANTS
  MaxConns = 4  MaxCoros = 4
  Faults = {"break", "half_open"}
  MaxFaults = 1
PROPERTIES EventuallyBound
CHECK_DEADLOCK FALSE
