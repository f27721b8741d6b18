SPECIFICATION FairSpec
CONSTANTS
  ImageSize = 3
  ChunkSize = 1
  MaxRetries = 1
  MaxRestarts = 1
  MaxNoProgress = 1
  MaxAttempts = 1
  MaxWire = 2
  CheckEnabled = FALSE
  FlashFaults = FALSE
  SourceFaults = TRUE
  LinkDrops = TRUE
  ForcedOffsets = {0, 1, 2}
PROPERTIES
  UploadEnds
CHECK_DEADLOCK FALSE
