\* Replay, drops and restarts: what is shown is what is.
SPECIFICATION FairSpec
CONSTANTS
  Runs = {mine, theirs}
  Own = {mine}
  NoRun = NoRun
  Capacity = 3
  MaxChanges = 3
  MaxNoise = 1
  Faults = {"drop", "restart"}
  MaxFaults = 2
INVARIANTS TypeOK ShownIsTrue ResumesExactly
PROPERTY EndShown
CHECK_DEADLOCK FALSE
