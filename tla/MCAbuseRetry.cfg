SPECIFICATION FairSpec
CONSTANTS
  w1 = w1
  w2 = w2
  api1 = api1
  api2 = api2
  ip1 = ip1
  key1 = key1
  Worker <- OneWorker
  Api <- OneApi
  Ip <- OneIp
  ApiKey <- NoKeys
  Requests <- Failing
  Threshold <- FirstErrorBlocks
  Window <- ShortWindows
  BlockTtl <- ShortBlocks
  EscalationThreshold = 2
  EscalatedTtl = 1
  PermanentThreshold = 3
  PermanentWindow = 3
  MaxAttempts = 2
  MaxStalls = 1
  Readiness <- BothReadiness
  MaxTime = 3
  MaxJobs = 4
  MaxWaiting = 1
  MaxFailures = 1
INVARIANTS TypeOK PermanentOnce BlocksEnd
PROPERTIES BlockIsEarned PermanentStays JobsEnd
CHECK_DEADLOCK FALSE
