SPECIFICATION GatewaySpec
CONSTANTS
  r1 = r1
  r2 = r2
  a1 = a1
  key1 = key1
  key2 = key2
  Request <- TwoRequests
  Admin <- OneAdmin
  Max429 = 2
  WindowSeconds = 2
  BlockSeconds = 2
  Second = 1
  MaxLag = 1
  Expiries <- OnlyForever
  MaxTime = 3
  MaxHits = 3
  MaxEvents = 0
  MaxCrashes = 1
  ApiKey <- TwoKeys
  Limit <- KeyAndIpRules
  MaxRequests = 3
  MaxFailures = 1
INVARIANTS GatewayTypeOK RepliesAreTracked
PROPERTIES ChargedAsAnswered AuditMatchesReplies
SYMMETRY Symmetry
