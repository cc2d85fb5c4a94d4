SPECIFICATION Spec
CONSTANTS
  w1 = w1
  w2 = w2
  api1 = api1
  api2 = api2
  ip1 = ip1
  key1 = key1
  Worker <- TwoWorkers
  Api <- TwoApis
  Ip <- OneIp
  ApiKey <- OneKey
  Requests <- FailingOrKeyed
  Threshold <- FirstErrorBlocks
  Window <- ShortWindows
  BlockTtl <- ShortBlocks
  EscalationThreshold = 2
  EscalatedTtl = 2
  PermanentThreshold = 3
  PermanentWindow = 4
  MaxAttempts = 2
  MaxStalls = 1
  Readiness <- BothReadiness
  MaxTime = 4
  MaxJobs = 3
  MaxWaiting = 1
  MaxFailures = 0
INVARIANTS BlocksEnd
PROPERTIES PermanentIsEarned
SYMMETRY Symmetry
CHECK_DEADLOCK FALSE
