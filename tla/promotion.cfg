CONSTANTS
  Scripts = {"setup", "bootstrap", "promote", "deploy"}
  Faults = {"down", "kill", "sql", "meet"}
  Rerun = FALSE
  MaxWrites = 4
  MaxOps = 4
  MaxDumps = 0
SPECIFICATION Spec
INVARIANTS FailoverHolds CleanFork
CHECK_DEADLOCK FALSE
