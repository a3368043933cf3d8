SPECIFICATION FairSpec
CONSTANTS
  LoopThread = loopThread
  Threads = {t1, t2}
  Functors = {f1, f2, f3}
  Channels = {ch}
  WakeupChannel = wakeupChannel
  NoCallback = none
  MaxCounter = 2
INVARIANTS
  NoLostWakeup
PROPERTIES
  ImplementsFunctorQueue
  QuitEndsLoop
  QueuedFunctorRuns
CHECK_DEADLOCK FALSE
