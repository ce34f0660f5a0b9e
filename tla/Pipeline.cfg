SPECIFICATION PipelineSpec
CONSTANTS
  Me <- MCMe
  MyNames <- MCMyNames
  MyUser <- MCMyUser
  Requests <- MCRequests
  Environments <- MCEnvironments
  Configuration <- MCConfiguration
  InText <- MCInText
  MaxAttempts = 2
  MaxTasks = 4
  MaxChanges = 1
INVARIANTS
  ArgvLayering
  EnvLayering
  TaskReadsItsOwn
  SnapshotRunsTheSame
  PlacedWhereItRuns
  HeaderMatches
  StatusIsTrue
PROPERTIES
  GridAnswersAreTrue
CHECK_DEADLOCK FALSE
