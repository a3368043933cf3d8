SPECIFICATION FairSpec
CONSTANTS
  Workers = {w1, w2}
  Producers = {p1, p2}
  QueueSizes = {0, 1}
  MaxTasks = 3
INVARIANTS
  NobodyOversleeps
  TasksKept
PROPERTIES
  StopReturns
  QueuedTaskStarts
CHECK_DEADLOCK FALSE
