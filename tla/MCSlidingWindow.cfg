SPECIFICATION Spec
CONSTANTS
  p1 = p1
  p2 = p2
  Proc = {p1, p2}
  Window = 3
  Limit = 2
  Draws = {0}
  MaxLag = 1
  MaxTime = 9
  MaxRequests = 6
SYMMETRY Symmetry
INVARIANTS DensityBounded DensityInv RetryHonoured
PROPERTIES RefusalJustified
CHECK_DEADLOCK FALSE
