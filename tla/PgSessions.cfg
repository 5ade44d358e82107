SPECIFICATION OAuthFairSpec
CONSTANTS
  Sid = {s1}
  NoRow = NoRow
  Caller = {c1, c2}
  Ttl = 2
  MaxTime = 3
  Login = {l1}
  NoLogin = NoLogin
  Provider = {p1}
  Flow = {f1}
  StateMaxAge = 1
  ExpiresIn = {0, 3}
INVARIANTS EndedNotServed LogoutOnce
PROPERTIES LifetimeAbsolute LiveOnlyLoggedOut ImplementsSessionLedger ExpiredSwept OrphanStatesSwept
