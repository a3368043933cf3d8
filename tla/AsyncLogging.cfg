SPECIFICATION FairSpec
CONSTANTS
  Capacity = 2
  MaxToWrite = 2
  MaxLines = 5
  null = null
  RollSize = 2
  Period = 2
  FlushInterval = 0
  Times = {1, 2, 3}
  MaxFailures = 1
INVARIANTS
  BuffersGoRound
  LinesInOrder
  FilesRoll
PROPERTIES
  StopReturns
  LineIsWritten
CHECK_DEADLOCK FALSE
