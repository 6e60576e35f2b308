CONSTANTS
  User = {u1, u2}
  Request = {r1, r2}
  Lifetime = 2
  MaxTokens = 2
  MaxTime = 3
SPECIFICATION FairSpec
INVARIANT TypeOK
PROPERTIES RevokedStaysRevoked ExpiredRowGoes
CHECK_DEADLOCK FALSE
