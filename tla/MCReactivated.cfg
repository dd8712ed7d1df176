SPECIFICATION ForecastsSpec
CONSTANTS
  Stocks = {1}
  Liquid = {1}
  LastDay = 3
  NextTradingDay <- MCNextTradingDay
  Versions = {v1}
  NoVersion = "none"
  MinSettles = 2
  Patience = 1
  MaxIncidents = 0
  History <- SomeHistory
  MaxVersions = 3
  MaxAssessments = 2
  MaxActs = 1
  Shares = {"a"}
  TradeSizes = {1, 3}
  TradePrices = {26, 51}
  TradeFees = {7}
  MaxTrades = 0
  SomeQuotes <- Quoted
  Precision = 1000
INVARIANTS ReactivatedIsServed
CHECK_DEADLOCK FALSE
