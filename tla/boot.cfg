SPECIFICATION Spec
CONSTANTS
  MaxRetry = 10
  MaxClock = 3
  MaxModels = 4
  MaxModules = 4
  MaxTables = 4
  VarbindSize = 224
  TrapVarbinds = 50
  Cursors = 16
  Stack <- Stacks
INVARIANTS
  BootTypeOK
  BootOutcomeIsRight
  NeverIdleWithRetriesLeft
  ServesOnlyWhenRegistered
PROPERTIES
  BootConcludes
  ReportedChangeHappened
CHECK_DEADLOCK FALSE
