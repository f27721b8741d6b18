CONSTANTS
  MaxTicks = 7
  MaxLinks = 3
  MaxCalls = 3
  MaxUpdates = 2
  Tools <- MCTools
SPECIFICATION FairSpec
INVARIANTS ResumesRightly SleepsOwingNothing ReconnectsInTime StubOutlivesItsUsers ExitTellsTruth
PROPERTY ToolEnds
CHECK_DEADLOCK FALSE
