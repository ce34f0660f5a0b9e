SPECIFICATION UnitSpec
CONSTANTS
  MaxAttempts = 2
  Outputs <- MCOutputs
  Checkpoint = "checkpoint"
  MaxFaults = 1
  MaxStops = 0
INVARIANT QueuedIsAlive
CHECK_DEADLOCK FALSE
