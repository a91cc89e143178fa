SPECIFICATION FairSpec
CONSTANTS
  Mints = {1, 2}
  Factors = {c, d}
  Core = {c}
  CohortLimit = 2
  SampleSize = 1
  MaxQueue = 1
  MaxAttempts = 2
  AdmitBy = 1
  InitialDelay = 1
  RetryDelay = 1
  RetryAfters = {0, 2}
  PollEvery = 1
  MaxRevision = 2
  MaxLate = 0
  MaxFaults = 2
  Never = Never
INVARIANTS
  AttemptsAreBounded
PROPERTIES
  EvidenceIsKept
  LaunchesAreSettled
