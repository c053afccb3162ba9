SPECIFICATION Spec
CONSTANTS
  Unset = Unset
  NotANumber = NotANumber
  Refused = Refused
  Conns = {c1, c2}
  Environments <- MCEnvironments
  Labels = {"unknown", "browser", "cli"}
  MintArgs <- MCMintArgs
  Forgeries <- MCForgeries
  Leeway = 1
  Skews <- MCSkews
  MaxTime = 2
  MaxTokens = 2
  MaxMessages = 4
SYMMETRY ConnSymmetry
INVARIANTS
  NoConfigErrorAfterStart
  AuthenticatedMeansMinted
  PunctualTokenAccepted
  LateTokenRefused
  OnlyHoldersSpend
CHECK_DEADLOCK FALSE
