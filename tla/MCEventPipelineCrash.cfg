SPECIFICATION FairSpec
CONSTANTS
  e1 = e1
  e2 = e2
  w1 = w1
  w2 = w2
  Event = {e1}
  Worker = {w1, w2}
  NoEvent = NoEvent
  MaxAttempts = 3
  MaxRetries = 1
  FaultKinds = {"worker"}
  MaxFaults = 1
PROPERTIES
  CrashLosesNothing
CHECK_DEADLOCK FALSE
