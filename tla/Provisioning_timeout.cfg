SPECIFICATION SagaFairSpec
CONSTANTS
  Users = {u1}
  Watchers = {w1}
  MaxAdmin = 0
  MaxFaults = 0
PROPERTIES ActiveUsersDoNotTimeOut
CHECK_DEADLOCK FALSE
