SPECIFICATION SessionsSpec
CONSTANTS
  Users = {"u1"}
  NumFamilies = 2
  NumTokens = 4
  Exchanges = {q1, q2, q3}
  MaxFaults = 1
SYMMETRY RequestSymmetry
INVARIANTS SessionsTypeOK SessionsAreNotCloned SessionsLast
PROPERTIES FamiliesEnd
CHECK_DEADLOCK FALSE
