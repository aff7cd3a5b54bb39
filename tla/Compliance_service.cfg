SPECIFICATION FairSpec
CONSTANTS
  NumMessages = 3
  Poison = {2}
  BatchSize = 2
  NumReports = 2
  Signing = "yes"
  Capacity = 1
  MaxFaults = 2
  MaxCrashes = 1
INVARIANTS  StatusExplained
PROPERTIES ReadyStays LaunchedFinishes
CHECK_DEADLOCK FALSE
