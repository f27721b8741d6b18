SPECIFICATION FairSpec
CONSTANTS
  MaxInFlight = 2
  SeqSpace = 3
  MaxRetired = 1
  Keys = {k1}
  NoKey = NoKey
  Timeouts <- MCTimeouts
  MaxRequests = 2
  MaxLinks = 2
PROPERTIES EveryRequestCompletes ImplementsLifecycle
