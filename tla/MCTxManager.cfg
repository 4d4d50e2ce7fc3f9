SPECIFICATION FairSpec
CONSTANTS
  request = request
  system = system
  tenantA = tenantA
  Proc = {request, system}
  Conn = {c1}
  NoConn = NoConn
  Tenant = {tenantA}
  NoTenant = NoTenant
  TenantOf <- MCTenantOf
  MaxDepth = 3
  MaxStmts = 3
  NestedTimeouts = FALSE
INVARIANTS
  TypeOK
  AllOrNothing
  OwnTenantOnly
  PoolClean
PROPERTIES
  ImplementsUnitOfWork
  EveryCallReturns
CHECK_DEADLOCK FALSE
