CONSTANTS
  Scripts = {"setup", "force", "backup", "restore"}
  Faults = {}
  Rerun = TRUE
  MaxWrites = 3
  MaxOps = 4
  MaxDumps = 2
SPECIFICATION FairSpec
INVARIANT ReplicaIsPrefix
PROPERTY CatchesUp
CHECK_DEADLOCK FALSE
