CONSTANTS
  r1 = r1  r2 = r2
  a = a  b = b  c = c  x = x
  w1 = w1  w2 = w2
  None = None
  RunOf <- TwoRuns
  Run = {r1}
  Task = {a, b, c}
  Worker = {w1, w2}
  Deps <- JoinDeps
  InvalidTask = {}
  MaxAttempts = 2
  Outcomes = {"succeeded", "failed", "skipped"}
  Faults = {"cancel", "no_worker", "send_fail", "lost_frame", "worker_cancel"}
  MaxFaults = 2
  MaxRequests = 8
  MaxDispatches = 8
SPECIFICATION Spec
CHECK_DEADLOCK FALSE
INVARIANTS
  JoinsWaitAndRunOnce
PROPERTIES
  DoneStaysDone
