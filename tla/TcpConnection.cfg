CONSTANTS
  Users = {"u1"}
  Applications <- Everything
  MaxMessages = 2
  MessageLength = 2
  HighWaterMark = 2
  MaxQueue = 1
  MaxCloses = 2
SPECIFICATION Spec
INVARIANTS NothingFails DestroyedClean BytesInOrder ShutdownAfterFlush WritingIffPending
