SPECIFICATION FairSpec
CONSTANTS
  Debounce = 1
  MaxWait = 2
  Cooldown = 3
  Fallback = 3
  Timeout = 1
  MaxRuns = 2
  LagCap = 7
  CacheMaxAge = 2
  CacheLagCap = 7
INVARIANTS
  NoOverlap
  StalenessIsBounded
PROPERTIES
  RequestsAreServed
