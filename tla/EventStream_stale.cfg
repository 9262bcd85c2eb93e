\* An answer overtaken by the events of a newer change.
SPECIFICATION Spec
CONSTANTS
  Runs = {mine, theirs}
  Own = {mine}
  NoRun = NoRun
  Capacity = 3
  MaxChanges = 3
  MaxNoise = 1
  Faults = {"stale_answer"}
  MaxFaults = 1
INVARIANT StatusShown
CHECK_DEADLOCK FALSE
