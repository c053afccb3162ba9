SPECIFICATION FairSpec
CONSTANTS
  MaxSockets = 3
  MaxCaptures = 2
INVARIANTS
  HelloComesFirst
  ListeningMeansCapturing
  DisconnectCancelsRetry
PROPERTIES
  LostTransportIsRetried
CHECK_DEADLOCK FALSE
