CONSTANTS
  Node <- ReviewNode
  Kind <- ReviewKind
  Edges <- ReviewEdges
  START_NODE_ID = "START"
  END_NODE_ID = "END"
  NULL = NULL
  MaxRetries = 1
  ReviewModes = {FALSE}
  MaxIterations = 12
  CheckpointEvery = 5
  MayFail = {"a1"}
  Guarded = {}
  Adaptive = {}
  SaveMayFail = FALSE
  Requests = {}
  MaxRequests = 0
  MaxCrashes = 0
  MaxReplays = 0
SPECIFICATION Spec
INVARIANTS
  FailureHoldsBack
CHECK_DEADLOCK FALSE
