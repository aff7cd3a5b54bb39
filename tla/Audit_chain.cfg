SPECIFICATION FairSpec
CONSTANTS
  c1 = c1
  c2 = c2
  o1 = o1
  o2 = o2
  NoOrg = NoOrg
  Consumers = {c1, c2}
  Log <- BusyLog
  Orgs = {o1, o2}
  BatchSize = 2
  MaxTries = 2
  MaxFaults = 1
INVARIANTS ChainsNeverFork SequenceFollowsChain SequencesDisjoint
PROPERTIES EveryEventStored AppendOnly
CHECK_DEADLOCK FALSE
