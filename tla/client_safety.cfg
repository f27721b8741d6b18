SPECIFICATION Spec
CONSTANTS
  MaxInFlight = 2
  SeqSpace = 2
  MaxRetired = 1
  Keys = {k1, k2}
  NoKey = NoKey
  Timeouts <- MCTimeouts
  MaxRequests = 3
  MaxLinks = 2
INVARIANTS
  TypeOK ExactlyOnce SeqsSound AnswersAreOwn HandlesInert NoneOutlivesItsLink
SYMMETRY Symmetry
