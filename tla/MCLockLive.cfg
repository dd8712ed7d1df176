SPECIFICATION FairSpec
CONSTANTS
  Workers <- MCWorkers
  Processes <- MCProcesses
  ProcessOf <- MCProcessOf
  Jobs <- MCJobs
  Serves <- FewServes
  Timeout <- ShortTimeout
  Blocking <- MCBlocking
  Margin = 1
  HardLimit <- ShortLimit
  OwnKey <- MCOwnKey
  OwnTtl <- ShortOwnTtl
  Keys <- MCKeys
  MarketWrite = "market-write"
  NoKey = "none"
  NoJob = "nojob"
  Nobody = "nobody"
PROPERTIES OnlyOwnerReleases NothingLastsForEver
