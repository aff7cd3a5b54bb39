SPECIFICATION SagaFairSpec
CONSTANTS
  Users = {u1, u2}
  Watchers = {w1, w2}
  MaxAdmin = 1
  MaxFaults = 1
INVARIANTS CompensatedOnce InitializingIsWatched
PROPERTIES EveryRegistrationEnds
CHECK_DEADLOCK FALSE
