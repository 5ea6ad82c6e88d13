SPECIFICATION Spec
CONSTANTS
  Objects <- MCObjects
  Tables <- MCTables
  SensorMax = 3
  RowPattern <- MockRows
  HasCache = FALSE
  BootValue <- MCBootValue
  Requests <- BulkRequests
  MaxVarbinds = 6
  MaxRepeating = 2
  OutCap = 70
  MaxRequests = 1
INVARIANTS
  TypeOK
  WalkSkipsNothing
  RoundsAreComplete
  ReadsAreCounted
PROPERTIES
  EveryBulkConcludes
CHECK_DEADLOCK FALSE
