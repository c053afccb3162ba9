SPECIFICATION Spec
CONSTANTS
  None = None
  Handler = handler
  t1 = t1
  t2 = t2
  Tasks = {handler, t1, t2}
  Mode = "buffered"
  AuthOff = TRUE
  MaxBufferedChunks = 1
  MaxBufferedBytes = 1
  MaxPending = 1
  ChunkSizes = {1}
  Inputs = {"chunk", "bad chunk", "undecodable chunk", "end", "malformed"}
  MaxMessages = 3
  MaxOut = 0
PROPERTIES
  MessageNeverEndsSession
CHECK_DEADLOCK FALSE
