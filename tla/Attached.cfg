SPECIFICATION AttachedLiveSpec
CONSTANTS
  MaxAttempts = 2
  Outputs <- MCOutputs
  Checkpoint = "checkpoint"
  MaxFaults = 1
INVARIANTS
  VerifiedResume
  SuccessIsEarned
  VerdictIsSettled
PROPERTIES
  SuccessorWaits
  ImplementsSupervised
  StopEndsAttached
CHECK_DEADLOCK FALSE
