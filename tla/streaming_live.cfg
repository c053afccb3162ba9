SPECIFICATION FairSpec
CONSTANTS
  None = None
  Handler = handler
  t1 = t1
  t2 = t2
  Tasks = {handler, t1, t2}
  Mode = "streaming"
  AuthOff = FALSE
  MaxBufferedChunks = 1
  MaxBufferedBytes = 1
  MaxPending = 1
  ChunkSizes = {1}
  Inputs = {"hello", "bad token", "cancel", "chunk", "end", "bad chunk", "malformed", "over event limit", "undecodable chunk"}
  MaxMessages = 5
  MaxOut = 0
INVARIANTS NoAudioBeforeAuth
PROPERTIES
  CancelledTurnEnds
  CleanupEndsTurns
  FedTurnEnds
CHECK_DEADLOCK FALSE
