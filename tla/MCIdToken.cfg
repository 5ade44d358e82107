SPECIFICATION IdTokenSpec
CONSTANTS
  p1 = p1
  p2 = p2
  c1 = c1
  c2 = c2
  Provider = {p1, p2}
  CacheTtl <- TwoTtls
  KeyAlg <- Algs
  Floor = 1
  Caller = {c1, c2}
  MaxVersion <- Versions
  Timeout = 1
  Skew = 1
  MaxTime = 3
INVARIANT AcceptedTokenSound
PROPERTY JoinersServed
