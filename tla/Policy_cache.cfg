SPECIFICATION Spec
CONSTANTS
  Policies = {"p1", "p2"}
  Logics <- MCLogics
  Subjects <- MCSubjects
  Rows = {"a1", "a2"}
  Grants <- MCGrants
  Questions <- MCQuestions
  Evaluators = {e1, e2}
  Refreshers = {r1}
  InitialDB <- MCInitialDB
  MaxAsks = 3
  MaxChanges = 1
  MaxTime = 3
  MaxFaults = 1
  CacheTTL = 2
  StaleWindow = 1
  Timeout = 1
INVARIANTS AnswersWereTrue BoundedStaleness InvalidationMisses
SYMMETRY Symmetry
CHECK_DEADLOCK FALSE
