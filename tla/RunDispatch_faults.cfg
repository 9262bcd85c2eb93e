CONSTANTS
  r1 = r1  r2 = r2
  a = a  b = b  c = c  x = x
  w1 = w1  w2 = w2
  None = None
  RunOf <- TwoRuns
  Run = {r1, r2}
  Task = {a, c, x}
  Worker = {w1}
  Deps <- ChainDeps
  InvalidTask = {x}
  MaxAttempts = 1
  Outcomes = {"succeeded", "failed", "skipped", "cancelled"}
  Faults = {"cancel", "no_worker", "send_fail", "broken_send", "lost_frame", "lost_ack", "slow_ack", "early_ack", "early_report", "worker_cancel", "worker_error", "worker_crash", "repeated_result"}
  MaxFaults = 2
  MaxRequests = 7
  MaxDispatches = 7
SPECIFICATION Spec
CHECK_DEADLOCK FALSE
INVARIANTS
  TypeOK
  RollupCoherent
  AtMostOneLateFrame
PROPERTIES
  FinalRunFrozen
