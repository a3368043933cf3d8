SPECIFICATION FairSpec
CONSTANTS
  Peers = {p1, p2}
  ThreadNums = {0, 2}
  MaxFds = 3
  MaxOthers = 2
INVARIANTS
  EndIsClean
PROPERTIES
  ClosedIsFreed
  PeersServed
CHECK_DEADLOCK FALSE
