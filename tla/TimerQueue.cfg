SPECIFICATION Spec
CONSTANTS
  MaxTimers = 2
  MaxTime = 4
  MaxPending = 2
  Intervals = {0, 1}
INVARIANTS
  EarliestArmed
  OneEntryEach
  KeptBatchIsSafe
PROPERTY
  StartsOnlyDueTimers
CHECK_DEADLOCK FALSE
