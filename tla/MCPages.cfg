SPECIFICATION PagesSpec
CONSTANTS
  a1 = a1
  a2 = a2
  u1 = u1
  r1 = r1
  p1 = p1
  p2 = p2
  c1 = c1
  c2 = c2
  t1 = t1
  t2 = t2
  Users = {a1, a2, u1}
  Start <- AdminsAndVisitor
  Requests = {r1}
  Ops = {"activate", "deactivate", "promote", "demote", "delete", "reset", "change_password", "edit_profile"}
  Items = {"f1"}
  Posts = {p1, p2}
  ReporterRole <- FromUsers
  AccountIssues = {}
  Asked = {"resolved"}
  Earlier = {"resolved"}
  MaxRetries = 1
  MaxFaults = 1
  Clients = {c1, c2}
  MaxRows = 3
  MaxImport = 2
  Quantities = {1}
  Dates = {1, 2}
  BuyEnabled = TRUE
  Universe = {"a", "b"}
  LastSession = 5
  MaxGaps = 1
  Bars <- SomeBars
  InitialCash = 100
  SizePct = 60
  MaxPositions = 1
  HoldSessions = 2
  TargetPct = 10
  StopPct = 5
  AdversePct = 1
  FeePct = 2
  LiquidityPct = 10
  MinVolume = 20
  EntryAttempts = 2
  Tabs = {t1, t2}
  MaxPortfolios = 3
  Rules = {"r"}
  Signals = {"BUY", "HOLD"}
  Evaluators = {"e1", "e2"}
  Cooldown = 2
  AlertFaults = 1
  BackupRuns = {"b1", "b2"}
  PruneKeep = 1
  MaxBackups = 2
  MaxWrites = 1
  MaxTrouble = 1
INVARIANTS AnAdminRemains ApprovedHasPassword QuietItemConsistent  LoneRequestKeepsDefault SignalTold
PROPERTIES BreaksOnlyUnchecked ResultIsAttainable LastGoodStays
SYMMETRY Interchangeable
CHECK_DEADLOCK FALSE
