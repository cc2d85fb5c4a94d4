SPECIFICATION Spec
CONSTANTS
  r1 = r1
  r2 = r2
  r3 = r3
  a1 = a1
  a2 = a2
  Request <- OneRequest
  Admin <- TwoAdmins
  Max429 = 3
  WindowSeconds = 2
  BlockSeconds = 3
  Second = 2
  MaxLag = 1
  Expiries <- OnlyForever
  MaxTime = 4
  MaxHits = 0
  MaxEvents = 2
  MaxCrashes = 0
SYMMETRY Symmetry
INVARIANTS UnblockedIsFree
CHECK_DEADLOCK FALSE
