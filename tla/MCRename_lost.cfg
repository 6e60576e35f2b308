CONSTANTS
  Device = {d1, d2}
  Name = {n1, n2, n3}
  Child = {k1, k2}
  NoName = NoName
  MaxEvents = 1
  MaxRequests = 1
  Faults = {"lost"}
SYMMETRY Symmetry
SPECIFICATION Spec
INVARIANT OpenDeviceIsKnown
CHECK_DEADLOCK FALSE
