SPECIFICATION Spec
CONSTANTS
  ann1 = ann1
  ann2 = ann2
  address = address
  Registration = {ann1, ann2}
  Purge = {purge1}
  Blob = {b1}
  Email <- MCEmail
  StorageConfigured = TRUE
  RowSecurity = TRUE
  MaxAttempts = 1
INVARIANTS
  NoPiiLeft
CHECK_DEADLOCK FALSE
