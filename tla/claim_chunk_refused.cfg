SPECIFICATION Spec
CONSTANTS
  MaxSockets = 2
  MaxCaptures = 1
INVARIANTS TurnsAreAccepted
CHECK_DEADLOCK FALSE
