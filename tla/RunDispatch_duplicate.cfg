CONSTANTS
  r1 = r1  r2 = r2
  a = a  b = b  c = c  x = x
  w1 = w1  w2 = w2
  None = None
  RunOf <- TwoRuns
  Run = {r1}
  Task = {a, b, c}
  Worker = {w1}
  Deps <- JoinDeps
  InvalidTask = {}
  MaxAttempts = 1
  Outcomes = {"succeeded"}
  Faults = {"repeated_result"}
  MaxFaults = 1
  MaxRequests = 4
  MaxDispatches = 4
SPECIFICATION Spec
CHECK_DEADLOCK FALSE
INVARIANTS
  JoinWaitsForAll
