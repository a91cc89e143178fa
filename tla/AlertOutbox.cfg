SPECIFICATION FairSpec
CONSTANTS
  Keys = {k1, k2}
  MaxAttempts = 2
  Throttle = 1
  RetryBase = 1
  RetryCap = 2
  RateDelays = {3}
  PollEvery = 2
  MaxLate = 1
  MaxFaults = 1
  None = None
INVARIANTS
  OneSendAtATime
  SendsAreBounded
  StatusIsHonest
PROPERTIES
  ImplementsDelivery
  QueuedIsSettled
