SPECIFICATION FairSpec
CONSTANTS
  r1 = r1
  r2 = r2
  r3 = r3
  a1 = a1
  a2 = a2
  Request <- TwoRequests
  Admin <- OneAdmin
  Max429 = 3
  WindowSeconds = 2
  BlockSeconds = 3
  Second = 2
  MaxLag = 1
  Expiries <- OnlyForever
  MaxTime = 5
  MaxHits = 5
  MaxEvents = 0
  MaxCrashes = 1
INVARIANTS RepeatersAreBlocked
PROPERTIES BlockNeedsBurst RepeatsAreBlocked
