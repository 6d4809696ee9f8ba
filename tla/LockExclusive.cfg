CONSTANTS
  Instance = {"i1", "i2", "i3"}
  Task = {"i1", "i2", "i3"}
  InstanceOf <- OneEach
  HEARTBEAT_INTERVAL = 1
  STALE_AFTER = 4
  MaxBeatDelay = 1
  MaxElapsed = 1
  Mortal = {"i1", "i2"}
  Failing = {}
  NULL = NULL
SPECIFICATION Spec
INVARIANTS
  MutualExclusion
PROPERTIES
  NeverDisplaced
CHECK_DEADLOCK FALSE
