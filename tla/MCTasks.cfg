SPECIFICATION TasksSpec
CONSTANTS
  Runs = {r1, r2}
  HardLimit = 5
  RecordedLimit = 5
  Grace = 1
  Runners = {u1}
  Threshold = 3
  SenderMayDie = TRUE
  Symbols = {1, 2, 3}
  Concurrency = 2
  MaxRetries = 1
  Patience = 3
  MaxWork = 2
  HistoryDays = 42
  MaxClosure = 3
  MaxMissed = 1
  MinDates = 15
  AssessedDays = {1, 2}
  Probabilities = {20, 90}
  Returns <- PoorReturns
  WindowSize = 3
  MinSamples = 2
  MinSamplesWatch = 3
  MinRowsPerHalf = 1
  MaxSettled = 4
  Regimes = {"bull", "bear"}
  Configs <- StudyConfigs
  Bands <- StudyBands
  SampleDays <- StudyDays
  Panels <- StudyPanels
  Lopsided <- StudyLopsided
  Outcomes <- StudyOutcomes
  MinCoverage = 2
  FullCoverage = 3
INVARIANTS  NoLiveRunReconciled PendingMatchesHealth OnlyTheFirstCloseLeaks VerdictFollowsDays BestIsJudged
PROPERTIES  RowsGetOutcome PersistentOutagePaged
CHECK_DEADLOCK FALSE
