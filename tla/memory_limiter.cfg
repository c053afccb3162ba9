SPECIFICATION Spec
CONSTANTS
  Identities = {i1}
  window_seconds = 2
  event_limit = 2
  audio_bytes_limit = 3
  ChunkSizes = {1, 2}
  MaxTime = 4
INVARIANTS WindowsConsistent
PROPERTIES ImplementsSlidingWindows
CHECK_DEADLOCK FALSE
