SPECIFICATION FairResilience
CONSTANTS
  Caller = {c1, c2}
  Policies <- MCPolicies
  RetriesRateLimits = TRUE
  MaxFaults = 3
INVARIANTS
  TypeOK
  OpensOnFailuresOnly
  ReturnsTruthfully
PROPERTIES
  Recovers
