SPECIFICATION FairSpec
CONSTANTS
  a = a
  b = b
  Client <- TwoClients
  None = None
  MaxAsk = 2
  MaxChunk = 2
  NFrame = 2
  MayInterrupt = TRUE
INVARIANTS
  RepliesInTurn
  AssertOnlyAfterQuit
  BlockedOnlyBySignal
PROPERTIES
  CommandAnswered
  EndsOrSticks
CHECK_DEADLOCK FALSE
