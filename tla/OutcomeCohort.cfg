SPECIFICATION FairSpec
CONSTANTS
  Mints = {m1, m2}
  Pools = {p}
  Results = {r1}
  Windows = {2}
  CohortLimit = 2
  MaxQueue = 1
  AdmitBy = 2
  SelectBy = 1
  BaselineBy = 2
  Grace = 1
  Soon = 1
  Later = 2
  SixHours = 2
  RateDelays = {2}
  PollEvery = 1
  MaxAge = 3
  MaxLate = 1
  MaxEvents = 2
  MaxFaults = 2
  None = None
  Never = Never
PROPERTY DueIsRefreshed
