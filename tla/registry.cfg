SPECIFICATION Spec
CONSTANTS
  Objects <- MCObjects
  Tables <- MCTables
  Modules <- MCModules
  TableArray <- MCTableArray
  ColumnArray <- MCColumnArray
  RowCounts <- MCRowCounts
  Targets <- MCTargets
INVARIANTS
  TypeOK
  ExactAnswerWasTrue
  NextAnswerWasTrue
PROPERTIES
  LookupEnds
