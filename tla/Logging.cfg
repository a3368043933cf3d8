SPECIFICATION LoggerSpec
CONSTANTS
  t1 = t1
  t2 = t2
  Threads <- MCThreads
  Instants <- MCInstants
  Zones <- MCZones
  ZoneData <- MCZoneData
  Messages <- MCMessages
  Header <- MCHeader
  Location <- MCLocation
  kSmallBuffer = 14
  kMaxNumericSize = 3
VIEW View
SYMMETRY Symmetry
INVARIANTS
  TimesReadBack
PROPERTIES
  StampsTellTime
  LinesWhole
CHECK_DEADLOCK FALSE
