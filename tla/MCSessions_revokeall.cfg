CONSTANTS
  User = {u1, u2}
  Request = {r1, r2}
  Lifetime = 2
  MaxTokens = 3
  MaxTime = 4
SYMMETRY Symmetry
SPECIFICATION Spec
PROPERTY RevokeAllLeavesOnlyCaller
CHECK_DEADLOCK FALSE
