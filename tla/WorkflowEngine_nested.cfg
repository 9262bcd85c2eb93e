SPECIFICATION FairSpec
CONSTANTS
  Root = Root  None = None
  h = h  m1 = m1  m2 = m2  z = z  k = k  p = p  w = w  ki = ki
  Workflows <- NestedFlows
  MaxDispatches = 4  MaxCalls = 1
  Faults = {}  MaxFaults = 0
PROPERTIES RunTerminates
CHECK_DEADLOCK FALSE
