SPECIFICATION Spec
CONSTANTS
  s1 = s1
  s2 = s2
  Servers <- TwoServers
  Identities = {i1}
  None = None
  window_seconds = 2
  event_limit = 2
  audio_bytes_limit = 3
  ChunkSizes = {2}
  Epoch <- OneHost
  RoundTrip = 2
  MaxFailures = 1
  MaxTime = 3
SYMMETRY Symmetry
INVARIANTS FixedWindowLimit RefusalsJustified KeysExpire
CHECK_DEADLOCK FALSE
