SPECIFICATION LiveSpec
CONSTANTS
  MaxAttempts = 2
  Outputs <- MCOutputs
  Checkpoint = "checkpoint"
  MaxFaults = 1
PROPERTIES
  StopEndsJob
  StopEndsPayload
  PauseIsRelayed
CHECK_DEADLOCK FALSE
