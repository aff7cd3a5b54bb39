SPECIFICATION Spec
CONSTANTS
  NumRecords = 2
  Relays = {p1, p2}
  MaxAttempts = 2
  BatchLimit = 2
  NotifyCap = 1
  MaxPublishErrors = 2
  MaxFaults = 1
SYMMETRY RelaySymmetry
INVARIANTS PublishedIsDelivered DeadIsExhausted ClaimsAreExclusive
PROPERTIES TerminalRowsStay ImplementsContract
