SPECIFICATION Spec
CONSTANTS
  Events <- MCEvents
  Logs <- MCLogs
  InitialKeys <- MCKeys
  InitialWindow <- MCWindow
  MaxAttempts = 2
  Mean = 1
  Stddev = 0
  Fallback = 3
  OffStart = 1
  OffEnd = 0
  DayLength = 2
  WindowSize = 1
  Hour = 2
  PasswordTTL = 2
  InHoursTTL = 2
  MaxTime = 1
  MaxFaults = 2
  Slots = 2
  MaxTries = 2
INVARIANTS CommittedAfterSuccess OneAlertPerWindow TakeoverAlerted AnnouncedOnce 
CHECK_DEADLOCK FALSE
