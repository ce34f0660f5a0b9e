SPECIFICATION UnitSpec
CONSTANTS
  MaxAttempts = 2
  Outputs <- MCOutputs
  Checkpoint = "checkpoint"
  MaxFaults = 0
  MaxStops = 0
INVARIANT FailedIsTrue
CHECK_DEADLOCK FALSE
