CONSTANTS
  IP = {a, b}
  Request = {r1, r2}
  NoRequest = NoRequest
  PerIPFailures = 2
  GlobalFailures = 3
  Window = 2
  BaseLockout = 2
  MaxLockout = 4
  EscalationReset = 2
  MaxShift = 1
  Second = 1
  MaxTime = 5
SPECIFICATION FairSpec
INVARIANTS TypeOK NoLoginWhileDenied FailureRateBounded RetryAfterIsExact
PROPERTIES Escalates EveryLoginAnswered
