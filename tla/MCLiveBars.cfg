SPECIFICATION JobsSpec
CONSTANTS
  Stocks = {"a", "z"}
  GroupZ = {"z"}
  MaxDay = 1
  Holidays = {}
  Prices = {201, 221}
  PriceUnits = 2
  Volume <- MCVolume
  InitialCash = 1000
  MinCash = 100
  SizePct = 30
  MaxPositions = 2
  MaxHolding = 3
  StopPct = 5
  TakePct = 9
  FeePct = 2
  SlipPct = 1
  Workers = {"w1"}
  Kinds = {"digest", "open"}
  Subscribers = {"u1", "u2"}
  Reminders = {"m1"}
  LastDate = 1
  TradingDays = {1}
  NoticeRetries = 0
  NoticeFaults = 0
  HeavyWorkers = {"h1", "h2"}
  LightWorkers = {"l1"}
  Started = {}
  MaxStarted = 0
  MaxFaults = 0
  LastDay = 2
  OpenDays = {1, 2}
  Enabled = {"DSE", "CSE"}
  RealQuotes <- PaidQuotes
  MadeQuotes = {}
  Syncers = {"s1", "s2"}
  MarketInterval = 1
  OffInterval = 2
  AnalysisInterval = 2
  Outages <- MayAnswer
  Oldest = 5
  CalendarDays = 8
  HolidayPages <- NoticePages
  MaxRevisions = 0
  NoticeRuns = {"task", "command"}
  Notices <- DseNotices
  MaxChanges = 0
  MaxEvents = 5
  Codes = {"a", "b"}
  Directories <- DseDirectories
  Processes = {"p1", "p2"}
  SyncInterval = 2
  SlowInterval = 4
  ScanEvery = 3
  AlertCooldown = 4
  AbsentAfter = 4
  FailureStreak = 3
  AppendAt = {2, 8}
  CloseAt = 13
  SettledBy = 14
  LastBeat = 1
  MaxSwitches = 0
  MaxMishaps = 0
INVARIANTS LiveBarsAreReal
CHECK_DEADLOCK FALSE
