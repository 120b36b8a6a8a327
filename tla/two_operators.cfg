CONSTANTS
  v1 = v1
  v2 = v2
  bad = bad
  Tags = {v1, bad}
  BadTags = {bad}
  NoTag = NoTag
  Operators = {o1, o2}
  Retries = 1
  MaxHistory = 2
  MaxRuns = 3
  Exclusive = FALSE
  Faults = {}
  Kinds = {"deploy", "drill", "rollback", "failover"}
SPECIFICATION HistorySpec
INVARIANT LedgerSound
PROPERTIES RunsAdvance SettledStays
SYMMETRY OperatorSymmetry
CHECK_DEADLOCK FALSE
