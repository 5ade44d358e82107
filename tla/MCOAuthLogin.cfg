SPECIFICATION OAuthSpec
CONSTANTS
  Sid = {s1, s2}
  NoRow = NoRow
  Caller = {c1}
  Ttl = 1
  MaxTime = 2
  Login = {l1, l2}
  NoLogin = NoLogin
  Provider = {p1, p2}
  Flow = {f1, f2}
  StateMaxAge = 1
  ExpiresIn = {0, 2}
SYMMETRY InterchangeableLogins
INVARIANTS StateSingleUse SessionBoundToLogin
PROPERTIES SweepSparesConsumable
