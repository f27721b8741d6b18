SPECIFICATION Spec
CONSTANTS
  MaxMsgs = 2
  MaxIn = 1
  MaxNotify = 0
  Parts = 1
  DiscoveryAttempts = 2
PROPERTIES LinkEnds NothingStranded
CHECK_DEADLOCK FALSE
