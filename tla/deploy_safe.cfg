CONSTANTS
  v1 = v1
  v2 = v2
  bad = bad
  Tags = {v1, v2, bad}
  BadTags = {bad}
  NoTag = NoTag
  Operators = {o1}
  Retries = 2
  MaxHistory = 2
  MaxRuns = 4
  Exclusive = TRUE
  Faults = {}
  Kinds = {"deploy", "drill", "rollback", "failover"}
SPECIFICATION Spec
INVARIANTS TypeOK LiveBuildIsGood
PROPERTY RollbackLeavesLive
CHECK_DEADLOCK FALSE
