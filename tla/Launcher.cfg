SPECIFICATION LauncherSpec
CONSTANTS
  Scripts <- MCScripts
  LocalTasks = {1, 2}
  MaxFaults = 1
  MaxOthers = 1
  MayCrash = TRUE
INVARIANTS
  LostHandleIsReported
  FailedUnitIsStopped
  LocalOutcomeIsTrue
  ExitDrains
PROPERTIES
  RowsAreOwn
  ExitReturns
CHECK_DEADLOCK FALSE
