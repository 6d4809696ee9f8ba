CONSTANTS
  Node <- DiamondNode
  Kind <- DiamondKind
  Edges <- DiamondEdges
  START_NODE_ID = "START"
  END_NODE_ID = "END"
SPECIFICATION FairSpec
INVARIANTS
  JoinSafe
PROPERTIES
  ImplementsDag
  ReleasedNodesRun
CHECK_DEADLOCK FALSE
