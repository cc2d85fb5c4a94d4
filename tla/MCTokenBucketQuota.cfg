SPECIFICATION Spec
CONSTANTS
  p1 = p1
  p2 = p2
  Proc = {p1, p2}
  Capacity = 4
  Cost = 2
  Second = 3
  MaxLag = 2
  MaxTime = 11
SYMMETRY Symmetry
INVARIANTS EnforcesQuota
