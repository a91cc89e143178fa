SPECIFICATION FairFeedsSpec
CONSTANTS
  FeedSockets = {f1, f2, f3}
  CalloutSockets = {b1, b2}
  MaxBackoff = 2
  NoSocket = NoSocket
INVARIANTS
  OneSocketEach
PROPERTIES
  AttemptsEnd
