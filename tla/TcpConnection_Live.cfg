CONSTANTS
  Users = {}
  Applications <- LoopOnly
  MaxMessages = 1
  MessageLength = 2
  HighWaterMark = 2
  MaxQueue = 2
  MaxCloses = 2
SPECIFICATION FairSpec
PROPERTIES PeerCloseDestroys DisconnectingEnds
