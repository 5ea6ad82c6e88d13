SPECIFICATION Spec
CONSTANTS
  Objects <- MCObjects
  Tables <- MCTables
  SensorMax = 3
  RowPattern <- OneSensor
  HasCache = TRUE
  BootValue <- MCBootValue
  Requests <- AtomicRequests
  OutCap = 90
  MaxRequests = 2
  SkipGuard = 64
PROPERTIES
  ActsAtomically
  EveryRequestConcludes
CHECK_DEADLOCK FALSE
