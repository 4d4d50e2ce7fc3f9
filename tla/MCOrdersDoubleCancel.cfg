SPECIFICATION Spec
CONSTANTS
  o1 = o1
  cancel1 = cancel1
  cancel2 = cancel2
  stranger = stranger
  reader = reader
  tenantA = tenantA
  tenantB = tenantB
  Order = {o1}
  Canceller = {cancel1, cancel2}
  Reader = {reader}
  NoCall = NoCall
  Target <- MCTarget
  TenantOf <- MCTenantOf
  LineCount = 2
  RiverConfigured = TRUE
  RowSecurity = TRUE
INVARIANTS
  CancelledOnce
CHECK_DEADLOCK FALSE
