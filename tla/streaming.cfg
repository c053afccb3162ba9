SPECIFICATION Spec
CONSTANTS
  None = None
  Handler = handler
  t1 = t1
  t2 = t2
  t3 = t3
  Tasks = {handler, t1, t2, t3}
  Mode = "streaming"
  AuthOff = TRUE
  MaxBufferedChunks = 1
  MaxBufferedBytes = 1
  MaxPending = 2
  ChunkSizes = {1}
  Inputs = {"cancel", "chunk", "end", "adapter raises"}
  MaxMessages = 5
  MaxOut = 1
INVARIANTS
  LiveTurnOwnsSession
  PendingCountsQueuedChunks
PROPERTIES
  AudioHeardOnceInOrder
  CancelledTurnStaysSilent
  ClientSeesProtocol
CHECK_DEADLOCK FALSE
