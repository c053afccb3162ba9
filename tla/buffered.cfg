SPECIFICATION FairSpec
CONSTANTS
  None = None
  Handler = handler
  t1 = t1
  t2 = t2
  t3 = t3
  Tasks = {handler, t1, t2, t3}
  Mode = "buffered"
  AuthOff = FALSE
  MaxBufferedChunks = 2
  MaxBufferedBytes = 3
  MaxPending = 1
  ChunkSizes = {1, 2}
  Inputs = {"hello", "cancel", "chunk", "end", "over audio limit", "limiter raises", "adapter raises"}
  MaxMessages = 5
  MaxOut = 1
INVARIANTS
  BufferAccounting
  TurnsAccounted
  GaplessOrder
PROPERTIES
  AudioHeardOnceInOrder
  ClientSeesProtocol
  HandlerReturnsToLoop
CHECK_DEADLOCK FALSE
