SPECIFICATION ForecastsSpec
CONSTANTS
  Stocks = {1}
  Liquid = {1}
  LastDay = 3
  NextTradingDay <- MCNextTradingDay
  Versions = {v1}
  NoVersion = "none"
  MinSettles = 2
  Patience = 1
  MaxIncidents = 1
  History <- SomeHistory
  MaxVersions = 3
  MaxAssessments = 1
  MaxActs = 1
  Shares = {"a", "b"}
  TradeSizes = {1, 3}
  TradePrices = {26, 51}
  TradeFees = {7}
  MaxTrades = 3
  SomeQuotes <- Quoted
  Precision = 1000
INVARIANTS LearnedAtMostOnce SnapshotIsForecast OnlyAllowedIsServed ProfitIsCashFlow
PROPERTIES EvidenceFrozen DueGetsSettled
CHECK_DEADLOCK FALSE
