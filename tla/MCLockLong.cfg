SPECIFICATION Spec
CONSTANTS
  Workers <- MCWorkers
  Processes <- MCProcesses
  ProcessOf <- MCProcessOf
  Jobs <- MCJobs
  Serves <- MCServes
  Timeout <- LongTimeout
  Blocking <- MCBlocking
  Margin = 2
  HardLimit <- LongLimit
  OwnKey <- MCOwnKey
  OwnTtl <- LongOwnTtl
  Keys <- MCKeys
  MarketWrite = "market-write"
  NoKey = "none"
  NoJob = "nojob"
  Nobody = "nobody"
INVARIANTS MutualExclusion 
PROPERTIES ImplementsSingleWriter
