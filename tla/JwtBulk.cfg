SPECIFICATION BulkFairSpec
CONSTANTS
  j1 = j1
  j2 = j2
  NoJti = NoJti
  r1 = r1
  b1 = b1
  Garbage = Garbage
  Jti = {j1, j2}
  Request = {r1}
  Batch = {b1}
  BulkRevokeMax = 2
  Lifetimes = {0, 1}
  MaxTime = 0
  Preissued = {j1}
INVARIANT BulkResultsTrue
PROPERTY RequestsEnd
