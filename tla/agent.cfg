SPECIFICATION Spec
CONSTANTS
  Objects <- MCObjects
  Tables <- MCTables
  SensorMax = 3
  RowPattern <- MockRows
  HasCache = FALSE
  BootValue <- MCBootValue
  Requests <- AllRequests
  OutCap = 60
  MaxRequests = 1
  SkipGuard = 64
INVARIANTS
  TypeOK
  EchoesRequest
  V2cAnswersWereTrue
  V1NeverSeesCounter64
  ReadsAreCounted
  SetErrorNamesFirstFailure
  SetWritesPrefix
  SetIsAnswered
PROPERTIES
  OnlyValidatedSetsWrite
CHECK_DEADLOCK FALSE
