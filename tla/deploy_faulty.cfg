CONSTANTS
  v1 = v1
  v2 = v2
  bad = bad
  Tags = {v1, v2, bad}
  BadTags = {bad}
  NoTag = NoTag
  Operators = {o1}
  Retries = 1
  MaxHistory = 2
  MaxRuns = 3
  Exclusive = TRUE
  Faults = {"cut", "reload", "restart"}
  Kinds = {"deploy", "drill", "rollback"}
SPECIFICATION Spec
INVARIANT ConfServes
PROPERTY ExitTellsTruth
CHECK_DEADLOCK FALSE
