CONSTANTS
  Scripts = {"setup", "backup", "restore"}
  Faults = {"busy"}
  Rerun = FALSE
  MaxWrites = 4
  MaxOps = 2
  MaxDumps = 1
SPECIFICATION Spec
INVARIANT ReplicaIsPrefix
CHECK_DEADLOCK FALSE
