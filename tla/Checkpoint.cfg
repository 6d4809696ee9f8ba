CONSTANTS
  Run = "run"
  Request = {"r1"}
  MaxWork = 2
  MaxRequests = 2
  MaxDeletes = 1
  MaxCrashes = 1
  Foreign = TRUE
  Failing = {"insert", "update"}
  NULL = NULL
SPECIFICATION Spec
PROPERTIES
  ImplementsRegister
  MigrationLossless
CHECK_DEADLOCK FALSE
