SPECIFICATION RecordSpec
CONSTANTS
  Nothing = Nothing
  Launch = 1
  Horizons = {8, 12}
  ClockSkew = 10
  MaxCreationDelay = 2
  SelectionDeadline = 4
  Interval = 2
  MaxStaleness = 3
  MaxBaselineLag = 4
  HistoryLimit = 16
  MaxRevisions = 1
  MaxRatio = 3
  Offers <- OfferedPools
  Answers <- ProviderAnswers
  Times = {7, 14}
  Delays = {0, 2}
  PageSize = 3
  MaxPages = 2
  ProviderAhead = 1
  States <- AllStates
PROPERTIES
  RecordsAreAccepted
  ResultsAreHonest
  FirstResultIsKept
CHECK_DEADLOCK FALSE
