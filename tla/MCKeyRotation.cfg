SPECIFICATION RotationSpec
CONSTANTS
  r1 = r1
  r2 = r2
  v1 = v1
  v2 = v2
  k1 = k1
  k2 = k2
  Kid = {k1, k2}
  Replica = {r1, r2}
  Verifier = {v1}
  Legacy = {v2}
  CacheAge = 1
  MaxKey = 3
  Lifetime = 2
  Grace = 4
  Rollout = 1
  MaxTime = 6
SYMMETRY Interchangeable
INVARIANTS KidRoutingHarmless InFlightTokensVerify DownstreamCatchesUp
