SPECIFICATION Spec
CONSTANTS
  kCheapPrepend = 2
  kInitialSize = 1
  ExtraSize = 2
  Base = 2
  Widths = {1, 2}
  MaxLength = 2
  MaxReadable = 3
VIEW
  View
INVARIANTS
  RoomKept
PROPERTIES
  ImplementsByteQueue
CHECK_DEADLOCK FALSE
