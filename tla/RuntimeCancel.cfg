CONSTANTS
  Node <- ReviewNode
  Kind <- ReviewKind
  Edges <- ReviewEdges
  START_NODE_ID = "START"
  END_NODE_ID = "END"
  NULL = NULL
  MaxRetries = 2
  ReviewModes = {FALSE}
  MaxIterations = 12
  CheckpointEvery = 2
  MayFail = {"a1", "check2"}
  Guarded = {}
  Adaptive = {}
  SaveMayFail = TRUE
  Requests = {"cancel_request", "cancel"}
  MaxRequests = 1
  MaxCrashes = 1
  MaxReplays = 1
SPECIFICATION Spec
PROPERTIES
  NoDispatchAfterCancel
CHECK_DEADLOCK FALSE
