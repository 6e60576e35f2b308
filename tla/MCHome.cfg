CONSTANTS
  Client = {c1}
  Tag = {g1}
  MaxChildren = 2
  MaxButtons = 3
  MaxCrashes = 1
  MaxEvents = 2
  Tab = {t1}
  MaxItems = 2
SPECIFICATION Spec
INVARIANTS TypeOK SchemaMatchesRecord MappingSurvives ServesOnlyCurrent ButtonsAreOnePut ButtonIdsFresh
PROPERTIES EventuallyServes HealthCatchesUp
CHECK_DEADLOCK FALSE
