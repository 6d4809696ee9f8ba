CONSTANTS
  Node <- LoopNode
  Kind <- LoopKind
  Edges <- LoopEdges
  START_NODE_ID = "START"
  END_NODE_ID = "END"
  NULL = NULL
  MaxRetries = 3
  ReviewModes = {FALSE}
  MaxIterations = 2
  CheckpointEvery = 2
  MayFail = {"last", "q"}
  Guarded = {"last", "loop"}
  Adaptive = {"body"}
  SaveMayFail = TRUE
  Requests = {"pause"}
  MaxRequests = 1
  MaxCrashes = 1
  MaxReplays = 0
SPECIFICATION FairSpec
INVARIANTS
  NotTwice
PROPERTIES
  QuiescentSave
  Stops
CHECK_DEADLOCK FALSE
