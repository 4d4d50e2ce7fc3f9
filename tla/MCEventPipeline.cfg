SPECIFICATION FairSpec
CONSTANTS
  e1 = e1
  e2 = e2
  w1 = w1
  w2 = w2
  Event = {e1, e2}
  Worker = {w1, w2}
  NoEvent = NoEvent
  MaxAttempts = 2
  MaxRetries = 1
  FaultKinds <- AllFaults
  MaxFaults = 2
INVARIANTS
  TypeOK
  HandledAtMostOnce
PROPERTIES
  SettledUnlessStruck
  PendingDrains
CHECK_DEADLOCK FALSE
