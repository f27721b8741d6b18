SPECIFICATION Spec
CONSTANTS
  NImages = 2
  Hashes <- Files
  Version <- FileVersion
  None = None
  DisconnectGrace = 1
  ApplyPollInterval = 1
  ApplyTimeout = 2
  Scenarios <- Every
  MaxRounds = 1
  MaxDrops = 1
  MaxReboots = 1
  SendFaults = TRUE
  MayCancel = TRUE
  Repeats = FALSE
  RestartInCallback = FALSE
INVARIANTS EndsTruly RefusedUntouched TrialReported NoIllegalEvent
PROPERTY ConfirmsRightly
CHECK_DEADLOCK FALSE
