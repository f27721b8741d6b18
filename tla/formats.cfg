SPECIFICATION Spec
CONSTANTS
  ChunkMin = 32
  ChunkMax = 512
  DefaultBudget = 256
  SmpHeader = 8
  Budgets <- MCBudgets
  FirstFields <- MCFields
  MaxFrame = 11
  MaxPacket = 11
  Packets <- MCPackets
  Losses = {1, 4, 12}
  Reads = {1, 99}
  HeaderSize = 3
  MaxPayload = 4
  MaxBuffer = 6
  MaxDrops = 1
  MaxQueued = 2
  Fragments = {0, 2, 4, 99}
  Scripts <- MCScripts
  MaxKey = 31
  TextLength <- MCTextLength
  MaxEcho = 128
  MaxBootloaderName = 32
  MaxStatName = 64
  MaxSettingName = 64
  MaxSettingValue = 256
  MaxVersion = 32
  MaxHash = 64
  MaxReason = 128
  MaxImages = 2
  MaxSlots = 2
  MaxStatGroups = 2
  MaxStatFields = 2
  U32Max = 3
  I32Max = 1
  RcSpan = 4
  Sizes <- MCSizes
  Nestings = {4, 5}
  Replies <- MCReplies
  Chain = 3
  MaxAwaits = 3
  Images <- MCImages
  HeaderMin = 1
  MaxImage = 18
  InfoMagic = 6
  ProtMagic = 7
  HashTypes = {5, 9}
  HashLength <- MCHashLength
  MaxTlvs = 3
  DeviceHash = 5
  DependencyType = 4
  DependencySize = 2
  Archives <- MCArchives
  Boards = {"x"}
  LocalSize = 1
  CentralSize = 2
  EndSize = 1
  MaxPackage = 31
  MaxEntries = 5
  MaxName = 1
  MaxImageIndex = 2
INVARIANTS
  EveryPacketFits SerialSound StreamSound CallsSound CoroutinesSound ImageReadSound PackageSound
CHECK_DEADLOCK FALSE
