CONSTANTS
  Node <- ReviewNode
  Kind <- ReviewKind
  Edges <- ReviewEdges
  START_NODE_ID = "START"
  END_NODE_ID = "END"
  NULL = NULL
  MaxRetries = 2
  ReviewModes = {FALSE}
  MaxIterations = 12
  CheckpointEvery = 2
  MayFail = {}
  Guarded = {}
  Adaptive = {"a1", "a2"}
  SaveMayFail = FALSE
  Requests = {"pause"}
  MaxRequests = 2
  MaxCrashes = 2
  MaxReplays = 0
SPECIFICATION Spec
INVARIANTS
  RunsOnce
  EndsWell
  CausalOrder
  LossBounded
  CompletedMeansDone
PROPERTIES
  HumanGate
CHECK_DEADLOCK FALSE
