CONSTANTS
  Client = {c1, c2}
  Service = {s1}
  Name = {n1, n2}
  Form = {f1}
  Tap = {t1}
  Nobody = Nobody
  MaxChildren = 2
  MaxGrants = 2
  MaxEdits = 3
  UIEdits = {"block", "unblock", "global", "list", "delete", "add"}
SYMMETRY Symmetry
SPECIFICATION FullListSpec
INVARIANTS TypeOK JoinedDeviceBlocks OpenIsExplained
PROPERTIES AdoptionOnlyAdds
CHECK_DEADLOCK FALSE
