SPECIFICATION FairSpec
CONSTANTS
  Tabs = {"t1", "t2"}
  Hashes = {"t1"}
  Size = 3
  ChunkSize = 2
  Providers = {"local", "db"}
  MaxUploads = 4
  MaxResources = 4
  Faults = {"crash", "give_up", "corrupt", "delete", "expire"}
  MaxFaults = 1
INVARIANTS TypeOK RecordsKeepTheirWord DataHasAPlace
PROPERTIES Uploaded
CHECK_DEADLOCK FALSE
