CONSTANTS
  Scripts = {"setup", "force", "bootstrap", "backup", "sync", "deploy"}
  Faults = {"down", "kill", "sql"}
  Rerun = TRUE
  MaxWrites = 3
  MaxOps = 2
  MaxDumps = 1
SPECIFICATION Spec
INVARIANTS TypeOK ReplicaIsPrefix BackupSound
PROPERTY PairSpec
CHECK_DEADLOCK FALSE
