SPECIFICATION Spec
CONSTANTS
  None = None
  s = s
  t = t
  Secrets = {s, t}
  Backups = {b1, b2}
  Drill = Drill
  Databases <- LiveAtFirst
  Artifacts <- ArtifactsAtFirst
  MaxRows = 1
  MaxFaults = 1
SYMMETRY Symmetry
INVARIANTS
  BackupsAreWhole
  ServingIsPrepared
PROPERTIES
  NeverReplaced
  MigrationIsForward
  PurgeFailsClosed
