SPECIFICATION FairSpec
CONSTANTS
  r1 = r1
  j1 = j1
  t1 = t1
  Request = {r1}
  Job = {j1}
  Task = {t1}
  Pause = 1
  HttpTimeout = 2
  WorkerTimeout = 3
  AsynqTimeout = 2
  FlushTimeout = 1
  Budget = 8
  MaxTime = 9
INVARIANTS
  NothingCutShort
  WithinBudget
PROPERTIES
  Exits
CHECK_DEADLOCK FALSE
