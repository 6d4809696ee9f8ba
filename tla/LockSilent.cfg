CONSTANTS
  Instance = {"i1", "i2"}
  Task = {"i1", "i2"}
  InstanceOf <- OneOfTwo
  HEARTBEAT_INTERVAL = 1
  STALE_AFTER = 3
  MaxBeatDelay = 2
  MaxElapsed = 1
  Mortal = {"i1"}
  Failing = {"beat", "confirm", "insert", "release"}
  NULL = NULL
SPECIFICATION FairSpec
PROPERTIES
  SilentRowReplaced
CHECK_DEADLOCK FALSE
