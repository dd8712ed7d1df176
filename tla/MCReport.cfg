SPECIFICATION FairSpec
CONSTANTS
  BeatTasks = {b1, b2}
  ManualTasks = {m1}
  ForcedTasks = {}
  Chunks <- Varying
  MaxChunk = 3
  MaxRetries = 1
  MaxFaults = 2
  Free = free
  Dead = dead
INVARIANTS RepeatsNeedFaults SentIsReceived
PROPERTIES ReportIsSent
CHECK_DEADLOCK FALSE
