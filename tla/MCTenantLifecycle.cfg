SPECIFICATION FairSpec
CONSTANTS
  ann1 = ann1
  ann2 = ann2
  address = address
  Registration = {ann1, ann2}
  Purge = {purge1, purge2}
  Blob = {b1}
  Email <- MCEmail
  StorageConfigured = TRUE
  RowSecurity = TRUE
  MaxAttempts = 2
INVARIANTS
  TypeOK
  EmailUnique
  RegisterTruthful
  ScrubComplete
  StoragePurged
PROPERTIES
  EveryCallEnds
CHECK_DEADLOCK FALSE
