SPECIFICATION JobsSpec
CONSTANTS
  Stocks = {"a", "z"}
  GroupZ = {"z"}
  MaxDay = 5
  Holidays = {3}
  Prices = {201, 221}
  PriceUnits = 2
  Volume <- MCVolume
  InitialCash = 1000
  MinCash = 100
  SizePct = 30
  MaxPositions = 2
  MaxHolding = 3
  StopPct = 5
  TakePct = 9
  FeePct = 2
  SlipPct = 1
  Workers = {"w1", "w2"}
  Kinds = {"digest", "open"}
  Subscribers = {"u1"}
  Reminders = {"m1"}
  LastDate = 2
  TradingDays = {1}
  NoticeRetries = 1
  NoticeFaults = 1
  HeavyWorkers = {"h1", "h2"}
  LightWorkers = {"l1"}
  Started = {"append", "settlement", "pipeline", "fetch", "analysis", "training"}
  MaxStarted = 2
  MaxFaults = 1
  LastDay = 2
  OpenDays = {2}
  Enabled = {"CSE"}
  RealQuotes <- PaidQuotes
  MadeQuotes <- MadeUpQuotes
  Syncers = {"s1", "s2"}
  MarketInterval = 1
  OffInterval = 1
  AnalysisInterval = 1
  Outages <- MayAnswer
  Oldest = 5
  CalendarDays = 7
  HolidayPages <- NoticePages
  MaxRevisions = 1
  NoticeRuns = {"task", "command"}
  Notices <- DseNotices
  MaxChanges = 1
  MaxEvents = 4
  Codes = {"a", "b"}
  Directories <- DseDirectories
  Processes = {"p1", "p2"}
  SyncInterval = 2
  SlowInterval = 4
  ScanEvery = 3
  AlertCooldown = 4
  AbsentAfter = 4
  FailureStreak = 3
  AppendAt = {2, 8}
  CloseAt = 13
  SettledBy = 14
  LastBeat = 21
  MaxSwitches = 2
  MaxMishaps = 1
INVARIANTS  BooksBalance  PagesCopied  CalendarServes 
PROPERTIES SettlementRespected OverwritesRecorded
CHECK_DEADLOCK FALSE
