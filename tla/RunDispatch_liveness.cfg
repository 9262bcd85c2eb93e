CONSTANTS
  r1 = r1  r2 = r2
  a = a  b = b  c = c  x = x
  w1 = w1  w2 = w2
  None = None
  RunOf <- TwoRuns
  Run = {r1}
  Task = {a, b, c}
  Worker = {w1}
  Deps <- JoinDeps
  InvalidTask = {}
  MaxAttempts = 1
  Outcomes = {"succeeded"}
  Faults = {"cancel", "no_worker", "send_fail", "broken_send", "lost_frame", "lost_ack", "slow_ack", "early_ack", "worker_cancel", "repeated_result"}
  MaxFaults = 2
  MaxRequests = 8
  MaxDispatches = 8
SPECIFICATION FairSpec
CHECK_DEADLOCK FALSE
INVARIANTS
  NoTaskForgotten
PROPERTIES
  RunsTerminate
