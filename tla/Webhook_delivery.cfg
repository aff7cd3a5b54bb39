SPECIFICATION FairSpec
CONSTANTS
  LastMsg = 3
  Malformed = {2}
  Slots = 2
  MaxAttempts = 2
  MaxFaults = 1
INVARIANTS RowsTellTheTruth DuplicatesNeedFaults
PROPERTIES EveryMessageSettles
CHECK_DEADLOCK FALSE
