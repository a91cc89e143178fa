SPECIFICATION FairSpec
CONSTANTS
  Mints = {m1, m2}
  Pools = {p, q}
  Results = {r1, r2}
  Windows = {2}
  CohortLimit = 1
  MaxQueue = 1
  AdmitBy = 2
  SelectBy = 1
  BaselineBy = 2
  Grace = 1
  Soon = 1
  Later = 2
  SixHours = 3
  RateDelays = {2}
  PollEvery = 1
  MaxAge = 4
  MaxLate = 1
  MaxEvents = 2
  MaxFaults = 2
  None = None
  Never = Never
INVARIANTS
  CohortIsBounded
  RefreshIsCurrent
PROPERTIES
  PoolIsProspective
