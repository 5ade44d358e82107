SPECIFICATION ListSpec
CONSTANTS
  j1 = j1
  j2 = j2
  j3 = j3
  NoJti = NoJti
  r1 = r1
  c1 = c1
  s1 = s1
  NoSub = NoSub
  Jti = {j1, j2, j3}
  Request = {r1}
  Caller = {c1}
  Subject = {s1}
  Lifetimes = {1}
  MaxTime = 3
  Leeway = 1
  Limits = {0, 3}
  MaxSize = 2
  Preissued = {}
INVARIANTS
  BearerLive
  ListedStatusTrue
  WalkSeesAll
SYMMETRY Interchangeable
CONSTRAINT Focus
