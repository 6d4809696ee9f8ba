CONSTANTS
  Run = "run"
  Request = {"r1"}
  MaxWork = 2
  MaxRequests = 2
  MaxDeletes = 0
  MaxCrashes = 0
  Foreign = FALSE
  Failing = {}
  NULL = NULL
SPECIFICATION Spec
INVARIANTS
  SavedIsStored
CHECK_DEADLOCK FALSE
