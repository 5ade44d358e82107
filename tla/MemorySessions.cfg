SPECIFICATION MemoryFairSpec
CONSTANTS
  Sid = {s1, s2}
  NoRow = NoRow
  Caller = {c1, c2}
  Ttl = 1
  MaxTime = 1
INVARIANTS EndedNotServed
PROPERTIES LiveOnlyLoggedOutOrLost ImplementsSessionLedger ExpiredCollected
