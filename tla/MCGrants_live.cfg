CONSTANTS
  k1 = k1 k2 = k2 s1 = s1 c1 = c1 c2 = c2
  Child = {k1, k2}
  Service = {s1}
  Client = {c1}
  MaxGrants = 2
  MaxTime = 2
  Durations = {1}
  Requests <- MCRequests1Device
  UIEdits = {"block", "global", "delete", "add"}
SPECIFICATION FairSpec
PROPERTIES OverdueReverted DriftRepaired
