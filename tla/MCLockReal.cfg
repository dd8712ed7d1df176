SPECIFICATION Spec
CONSTANTS
  Workers <- DeployWorkers
  Processes <- MCProcesses
  ProcessOf <- DeployProcessOf
  Jobs <- MCJobs
  Serves <- DeployServes
  Timeout <- RealTimeout
  Blocking <- MCBlocking
  Margin = 1
  HardLimit <- RealLimit
  OwnKey <- MCOwnKey
  OwnTtl <- RealOwnTtl
  Keys <- MCKeys
  MarketWrite = "market-write"
  NoKey = "none"
  NoJob = "nojob"
  Nobody = "nobody"
INVARIANTS MutualExclusion
