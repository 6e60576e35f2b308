CONSTANTS
  k1 = k1 k2 = k2 s1 = s1 c1 = c1 c2 = c2
  Child = {k1, k2}
  Service = {s1}
  Client = {c1, c2}
  MaxGrants = 2
  MaxTime = 2
  Durations = {1}
  Requests <- MCRequests
  UIEdits = {"block", "unblock", "delete"}
SPECIFICATION Spec
INVARIANTS TypeOK NoStrandedUnblock
PROPERTIES NeverReblockHeld NoUnblockWithoutGrant KeepsPromise
