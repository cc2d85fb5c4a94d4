SPECIFICATION Spec
CONSTANTS
  r1 = r1
  r2 = r2
  r3 = r3
  a1 = a1
  a2 = a2
  Request <- OneRequest
  Admin <- TwoAdmins
  Max429 = 1
  WindowSeconds = 2
  BlockSeconds = 2
  Second = 2
  MaxLag = 1
  Expiries <- ForeverOr4
  MaxTime = 4
  MaxHits = 1
  MaxEvents = 2
  MaxCrashes = 1
SYMMETRY Symmetry
INVARIANTS BlockInv BlockJustified NoGhostBlock LoneEventIsEnforced
