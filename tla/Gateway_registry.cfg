SPECIFICATION Spec
CONSTANTS
  Ids = {"c"}
  IdemKeys = {"k"}
  Instances = {i1, i2}
  Slots = {s1, s2}
  Burst = 1
  Cost = 2
  Window = 4
  IdleTime = 1
  CacheTTL = 2
  IdempotencyTTL = 2
  MaxRequests = 3
  MaxTime = 4
  MaxFaults = 1
SYMMETRY MCSymmetry
INVARIANTS RevokedIsRefused KeyNotLost RateBound
CHECK_DEADLOCK FALSE
