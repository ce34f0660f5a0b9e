SPECIFICATION UnitSpec
CONSTANTS
  MaxAttempts = 2
  Outputs <- MCOutputs
  Checkpoint = "checkpoint"
  MaxFaults = 1
  MaxStops = 1
INVARIANTS
  UnitTypeOK
  CompletedSurvivesStop
  CompletedIsTrue
  PausedIsOver
CHECK_DEADLOCK FALSE
