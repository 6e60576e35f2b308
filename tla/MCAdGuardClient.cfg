CONSTANTS
  Name = {n1, n2}
  Service = {s1}
  Id = {i1, i2}
  Engine = Engine
  Tab = {t1}
  None = None
  Nobody = Nobody
  MaxCalls = 2
  MaxEvents = 2
SYMMETRY Symmetry
SPECIFICATION Spec
INVARIANTS TypeOK MigrationHolds CallsNeverStick
PROPERTIES CallsAreAtomic
CHECK_DEADLOCK FALSE
