CONSTANTS
  ab = ab
  aB = aB
  cd = cd
  Threads = {t1, t2}
  Codes = {ab, aB, cd}
  Fold <- CaseFold
  Urls = {u1, u2}
  NoUrl = NoUrl
  Attempts = 2
  MaxRequests = 2
SPECIFICATION Spec
INVARIANT HealthGatesSchema
SYMMETRY Symmetry
CHECK_DEADLOCK FALSE
