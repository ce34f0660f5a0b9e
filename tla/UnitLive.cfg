SPECIFICATION UnitLiveSpec
CONSTANTS
  MaxAttempts = 2
  Outputs <- MCOutputs
  Checkpoint = "checkpoint"
  MaxFaults = 0
  MaxStops = 0
PROPERTY WaiterReturns
CHECK_DEADLOCK FALSE
