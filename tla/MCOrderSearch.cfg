SPECIFICATION Spec
CONSTANTS
  o1 = o1
  o2 = o2
  o3 = o3
  client = client
  Unset = Unset
  Order = {o1, o2, o3}
  Token = {client}
  TenantOf <- MCTenantOf
  UserOf <- MCUserOf
  TotalOf <- MCTotalOf
  Request <- MCRequest
  DefaultLimit = 2
  Life = 2
  MaxTtl = 1
  MaxTime = 3
  RedisConfigured = TRUE
SYMMETRY Sym
INVARIANTS
  TypeOK
  MissedHasCause
  RepeatedHasCause
PROPERTIES
  RevokedRefused
