CONSTANTS
  Launch = {"l1", "l2"}
  Natural = {"n1"}
  Answer = {"a1", "a2"}
  MaxCrashes = 2
  NULL = NULL
  Casts = {{"l1", "l2", "n1"}, {"l1", "l2", "a1"}, {"l1", "n1", "a1"}, {"l1", "a1", "a2"}, {"n1", "a1", "a2"}}
SPECIFICATION CastSpec
INVARIANTS
  OneLaunch
  OneRunner
PROPERTY
  RunningEnds
CHECK_DEADLOCK FALSE
