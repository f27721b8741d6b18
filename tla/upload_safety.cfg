SPECIFICATION Spec
CONSTANTS
  ImageSize = 2
  ChunkSize = 1
  MaxRetries = 1
  MaxRestarts = 1
  MaxNoProgress = 1
  MaxAttempts = 2
  MaxWire = 2
  CheckEnabled = TRUE
  FlashFaults = TRUE
  SourceFaults = TRUE
  LinkDrops = TRUE
  ForcedOffsets = {}
INVARIANTS
  DoneOnce
  NeverStranded
  FirstPacketRule
  StoredAsReported
CHECK_DEADLOCK FALSE
