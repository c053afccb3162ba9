SPECIFICATION SmokeSpec
CONSTANTS
  Unset = Unset
  NotANumber = NotANumber
  Refused = Refused
  Conns = {script, other}
  Script = script
  Environments <- MCEnvironments
  Arguments <- MCArguments
  HelloBytes = 380
  AudioBytes = 11
  MaxRuns = 2
  Schemeless = {"", "gateway.local"}
  MaxAudio = 2
INVARIANTS
  ReadyMeansServing
  FallbackCoversKokoro
  SmokePassMeansServed
PROPERTIES
  
  SmokeEnds
CHECK_DEADLOCK FALSE
