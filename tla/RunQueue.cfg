SPECIFICATION FairSpec
CONSTANTS
  NumNodes = 1
  MaxRuns = 2
  Targeted = {}
  MaxFaults = 2
  FaultKinds = {"scheduler_db", "crash"}
INVARIANT OneRunAtATime
INVARIANT QuietInv
PROPERTY NoOvertaking
PROPERTY QueuedRunsLeave
