SPECIFICATION FairSpec
CONSTANTS
  t1 = t1
  t2 = t2
  Tasks <- MCTasks
  Remote <- MCRemote
  LinesOf <- MCLinesOf
  Declared <- MCDeclared
  Deadline = 1
  PageSize = 1
  MaxFaults = 1
INVARIANTS IInv OutcomeTrue SkipsOnlyTwins LogsBeforeOutcome EventsTell ArtifactsAgree RecordsInv
PROPERTIES RunningEnds ImplementsWorkers
CHECK_DEADLOCK FALSE
