SPECIFICATION FairThreadSpec
CONSTANTS
  LoopThread = loopThread
  Threads = {owner}
  Functors = {f1, f2}
  Channels = {ch}
  WakeupChannel = wakeupChannel
  NoCallback = none
  MaxCounter = 2
  Owner = owner
INVARIANTS
  NothingDangles
PROPERTIES
  StartLoopReturns
  DestructorReturns
CHECK_DEADLOCK FALSE
