SPECIFICATION FairSpec
CONSTANTS
  NumRecords = 2
  Relays = {p1}
  MaxAttempts = 2
  BatchLimit = 1
  NotifyCap = 1
  MaxPublishErrors = 2
  MaxFaults = 2
PROPERTIES EverySettles EveryPublished
