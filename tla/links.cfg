SPECIFICATION Spec
CONSTANTS
  MaxMsgs = 2
  MaxIn = 2
  MaxNotify = 1
  Parts = 2
  DiscoveryAttempts = 2
INVARIANTS PacketsSound MessagesWhole ClosedIsClean
PROPERTY ClosedIsQuiet
CHECK_DEADLOCK FALSE
