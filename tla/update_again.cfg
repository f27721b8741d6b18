SPECIFICATION Spec
CONSTANTS
  NImages = 1
  Hashes <- Files
  Version <- FileVersion
  None = None
  DisconnectGrace = 1
  ApplyPollInterval = 1
  ApplyTimeout = 2
  Scenarios <- Plainly
  MaxRounds = 2
  MaxDrops = 1
  MaxReboots = 1
  SendFaults = FALSE
  MayCancel = TRUE
  Repeats = FALSE
  RestartInCallback = FALSE
INVARIANT EndsTruly
CHECK_DEADLOCK FALSE
