SPECIFICATION FairSpec
CONSTANTS
  Size = 2
  Tasks = {dispatcher, task}
  dispatcher = dispatcher  task = task
  MaxSeq = 4
  MaxConns = 3
  Faults = {"drop", "fresh", "early_frame", "refused", "late_reader"}
  MaxFaults = 3
  None = None
INVARIANTS TypeOK CreditAccounted
PROPERTIES Flows
CHECK_DEADLOCK FALSE
