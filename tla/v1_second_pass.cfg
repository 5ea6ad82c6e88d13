SPECIFICATION Spec
CONSTANTS
  Objects <- MCObjects
  Tables <- MCTables
  SensorMax = 3
  RowPattern <- MockRows
  HasCache = FALSE
  BootValue <- MCBootValue
  Requests <- ReadRequests
  OutCap = 100
  MaxRequests = 1
  SkipGuard = 64
INVARIANTS
  V1SecondPassSucceeds
CHECK_DEADLOCK FALSE
