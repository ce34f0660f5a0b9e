SPECIFICATION Spec
CONSTANTS
  MaxAttempts = 3
  Outputs <- MCOutputs
  Checkpoint = "checkpoint"
  MaxFaults = 2
INVARIANTS
  TypeOK
  AtMostOnce
  VerifiedResume
  ArtifactsAreNewest
  CompletedIsWhole
  ReceiptsLead
  StopIsFinal
PROPERTY ImplementsChain
CHECK_DEADLOCK FALSE
