SPECIFICATION FairSpec
CONSTANTS
  None = None
  Sessions = {s1, s2}
  Workers = {w1}
  Timeout = 2
  MaxAsks = 3
INVARIANTS
  PoolConsistent
  OneRequestPerSession
PROPERTIES
  NothingSentForTheGone
  SilenceIsTimeout
  AskEnds
CHECK_DEADLOCK FALSE
