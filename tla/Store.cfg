SPECIFICATION StoreSpec
CONSTANTS
  Threads = {"p1", "p2", "c1"}
  Process <- MCProcess
  Scripts <- MCScripts
  MaxVersion = 2
  MaxFaults = 1
INVARIANTS
  FuturesGetTheirOwn
  StoredByContent
  AnswersAreStaged
PROPERTIES
  FuturesResolve
CHECK_DEADLOCK FALSE
