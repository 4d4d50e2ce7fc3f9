SPECIFICATION FairSpec
CONSTANTS
  n1 = n1
  n2 = n2
  f1 = f1
  f2 = f2
  f3 = f3
  w1 = w1
  Node = {n1, n2}
  Fetch = {f1, f2, f3}
  Writer = {w1}
  NodeOf <- MCNodeOf
  NoFetch = NoFetch
  L2 = L2
INVARIANTS
  StaleHasCause
  OneComputation
PROPERTIES
  EventuallyFresh
