SPECIFICATION DiscoveryFairSpec
CONSTANTS
  c1 = c1
  c2 = c2
  Caller = {c1, c2}
  OptedIn = {c2}
  MaxVersion = 3
  Usable = {1}
  PlainHttp = {2}
  Ttl = 2
  Timeout = 1
  MaxRetries = 3
  MaxTime = 3
INVARIANTS UsedDocRecent OnlyValidatedServed
PROPERTY FetchComesBack
