SPECIFICATION UnitSpec
CONSTANTS
  MaxAttempts = 2
  Outputs <- MCOutputs
  Checkpoint = "checkpoint"
  MaxFaults = 0
  MaxStops = 1
INVARIANT StoppedIsNotQueued
CHECK_DEADLOCK FALSE
