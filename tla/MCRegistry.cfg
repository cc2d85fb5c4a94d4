SPECIFICATION Spec
CONSTANTS
  a1 = a1
  a2 = a2
  p1 = p1
  n1 = n1
  n2 = n2
  Admin <- TwoAdmins
  Process <- OneProcess
  Name <- TwoNames
  FirstName = n1
  Scope = {"ip", "api"}
  Limit = {1, 2}
  MaxCalls = 3
  MaxFailures = 1
  e1 = e1
  Newcomer <- OneNewcomer
  TenantBody <- TenantBodies
  UserBody <- UserBodies
  ApiBody <- ApiBodies
  TokenLife = 1
  MaxLag = 1
  MaxTime = 2
INVARIANTS TypeOK NamesAreUnique RotationKeepsKey OneRulePerScope CacheReflectsRules AuthorityIsRecent BootstrapIsWhole
PROPERTIES RevocationIsFinal
SYMMETRY Symmetry
