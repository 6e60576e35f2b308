CONSTANTS
  k1 = k1 k2 = k2 s1 = s1 c1 = c1
  Child = {k1}
  Service = {s1}
  Client = {c1}
  MaxGrants = 1
  MaxTime = 3
  MaxHandles = 4
  Durations = {1, 2}
  Requests <- MCRequests
  UIEdits = {}
SPECIFICATION FairTimerSpec
INVARIANTS TimerTypeOK EntryDueAtEnd
PROPERTIES LiveGrantHasTimer TimersSuffice
