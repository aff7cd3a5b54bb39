SPECIFICATION Spec
CONSTANTS
  Users = {"u1", "u2"}
  InitialRow <- MCNine
  InitialConfig <- MCConfig
  InitialTokens <- MCTokens
  InitialCreds <- MCCreds
  InitialStore <- MCStore
  Assertions <- MCAssertions
  Slots = 2
  MaxRequests = 3
  MaxTime = 2
  MaxFaults = 1
  LockUnit = 2
  ChallengeTTL = 1
  SessionTTL = 1
  CodeTTL = 1
  TokenTTL = 2
  SamlTTL = 3
INVARIANTS OneTimeOnce ParallelGuesses LogoutHolds
CHECK_DEADLOCK FALSE
