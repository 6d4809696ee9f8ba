CONSTANTS
  Node <- GateNode
  Kind <- GateKind
  Edges <- GateEdges
  START_NODE_ID = "START"
  END_NODE_ID = "END"
  NULL = NULL
  MaxRetries = 2
  ReviewModes = {FALSE, TRUE}
  MaxIterations = 7
  CheckpointEvery = 5
  MayFail = {"a"}
  Guarded = {"c"}
  Adaptive = {}
  SaveMayFail = FALSE
  Requests = {"pause"}
  MaxRequests = 1
  MaxCrashes = 1
  MaxReplays = 0
SPECIFICATION Spec
INVARIANTS
  RetryWithinBudget
  GateHolds
  NeverHitsSafetyLimit
  RetryNotDeadlock
CHECK_DEADLOCK FALSE
