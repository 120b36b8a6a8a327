CONSTANTS
  v1 = v1
  v2 = v2
  bad = bad
  Tags = {v1, v2, bad}
  BadTags = {bad}
  NoTag = NoTag
  ci = ci
  PipStatuses = {1}
  Operators = {ci}
  Retries = 2
  MaxHistory = 2
  MaxRuns = 4
  Exclusive = TRUE
  Faults = {}
  Kinds = {"deploy", "drill", "rollback"}
SPECIFICATION PFairSpec
INVARIANTS PTypeOK TrafficServed
PROPERTIES GateSpec VerdictTells SmokeRollbackLeaves EveryBuildEnds EveryRunEnds SwitchSettles
CHECK_DEADLOCK FALSE
