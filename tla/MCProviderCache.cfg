CONSTANTS
  k1 = k1
  k2 = k2
  Keys <- MCKeys
  Timeout = 2
  CacheTTL = 3
  CacheMax = 1
  FailureTTL = 3
  Window = 2
  RateMax = 2
  CircuitWindow = 3
  CircuitFailures = 2
  CircuitOpen = 2
  MaxTime = 7
  MaxRequests = 5

SYMMETRY MCSymmetry

SPECIFICATION Spec

INVARIANTS
  RateBounded
  OneInFlight
  CircuitFollowsFailures

CHECK_DEADLOCK FALSE
