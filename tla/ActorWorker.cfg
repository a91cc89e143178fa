SPECIFICATION FairSpec
CONSTANTS
    Mint = "mint"
    Pump = "pump"
    None = None
    Ledger <- Transactions
    MaxActors = 2
    MaxTokenAmount = 3
    EarlyWindow = 2
    BurstWindow = 1
    MinimumEvents = 2
    MinimumActors = 2
    Mints = {m1, m2}
    Busy = m1
    Signed <- SignedBy
    CohortLimit = 2
    Offsets = {1, 2}
    AdmitBy = 1
    TransactionLimit = 2
    Retention = 3
    MaxRows = 2
    MaxRevision = 2
    MaxFaults = 1
    Gone = Gone
INVARIANTS
  SettledIsSummarised
  EvidenceIsCurrent
  ObservationsAreAttributed
PROPERTIES
  FirstSightIsKept
  LaunchesAreAttempted
