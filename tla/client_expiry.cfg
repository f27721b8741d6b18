SPECIFICATION Spec
CONSTANTS
  MaxInFlight = 2
  SeqSpace = 3
  MaxRetired = 1
  Keys = {k1}
  NoKey = NoKey
  Timeouts <- MCTimeouts
  MaxRequests = 4
  MaxLinks = 1
PROPERTY TimeoutsDue
