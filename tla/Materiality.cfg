SPECIFICATION FairSpec
CONSTANTS
  Mints = {m1, m2}
  Creators = {c}
  Levels = {1, 2, 4}
  Times = {1, 2}
  Identifiers = {x}
  Limit = 2
  Step = 2
  Noticed = {m1}
  MaxAnswers = 2
  MaxFrames = 2
  MaxFaults = 1
  None = None
  Gone = Gone
INVARIANTS
  OncePerAnswer
  CrossedIsTold
PROPERTIES
  ChangesAreTold
  OwedIsTold
