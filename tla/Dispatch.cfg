SPECIFICATION FairSpec
CONSTANTS
  Channels = {1, 2, 3}
  Fds = {0, 1, 2}
  Events = {"IN", "OUT"}
  kInitEventListSize = 1
INVARIANTS
  SafeDispatch
PROPERTIES
  ImplementsPoller
  ReadyIsHandled
CHECK_DEADLOCK FALSE
