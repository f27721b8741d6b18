SPECIFICATION FairSpec
CONSTANTS
  NImages = 2
  Hashes <- Files
  Version <- FileVersion
  None = None
  DisconnectGrace = 1
  ApplyPollInterval = 1
  ApplyTimeout = 2
  Scenarios <- PackageAsked
  MaxRounds = 1
  MaxDrops = 1
  MaxReboots = 0
  SendFaults = FALSE
  MayCancel = TRUE
  Repeats = FALSE
  RestartInCallback = FALSE
PROPERTY UpdateEnds
CHECK_DEADLOCK FALSE
