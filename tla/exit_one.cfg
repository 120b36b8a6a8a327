CONSTANTS
  v1 = v1
  v2 = v2
  bad = bad
  Tags = {v1, bad}
  BadTags = {bad}
  NoTag = NoTag
  Operators = {o1}
  Retries = 1
  MaxHistory = 2
  MaxRuns = 2
  Exclusive = TRUE
  Faults = {}
  Kinds = {"deploy"}
SPECIFICATION Spec
PROPERTY ExitOneMeansRolledBack
CHECK_DEADLOCK FALSE
