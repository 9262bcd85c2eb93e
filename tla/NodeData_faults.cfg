SPECIFICATION DSpec
CONSTANTS
  Root = Root  None = None
  h = h  m1 = m1  m2 = m2  z = z  k = k  p = p  w = w  ki = ki
  Workflows <- DataFlows
  MaxDispatches = 2  MaxCalls = 2
  Faults = {"failed", "skipped", "short_circuit", "error", "interrupted", "timeout", "cancel",
            "feedback", "late_feedback"}
  MaxFaults = 2
INVARIANTS TypeOK FramesCoherent DependentsWait ChainsCoherent DataCoherent
PROPERTIES RunStaysOver RunTerminates
CHECK_DEADLOCK FALSE
