\* Three workers, an owner that enqueues and may shut down at any time.
CONSTANTS
  Workers = {w1, w2, w3}
  Tasks = {x1, x2}
  NoTask = NoTask
  MaxQueue = 3
SPECIFICATION PoolSpec
INVARIANTS PoolTypeOK NoLostWakeup JoinedIsDrained
PROPERTIES TasksAreRun ShutdownEnds
CHECK_DEADLOCK FALSE
