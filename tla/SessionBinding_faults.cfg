SPECIFICATION FairSpec
CONSTANTS
  MaxConns = 8  MaxCoros = 9
  Faults = {"break", "restart", "expired", "slow", "timeout"}
  MaxFaults = 2
INVARIANTS TypeOK BindingCoherent
PROPERTIES EventuallyBound
CHECK_DEADLOCK FALSE
