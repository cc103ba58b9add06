SPECIFICATION Spec
CONSTANTS
  NumNodes = 3
  MaxRuns = 1
  Targeted = {2}
  MaxFaults = 2
  FaultKinds = {"scheduler_db", "task_lost", "crash", "remote_race"}
INVARIANT IInv
INVARIANT DependencyOrder
INVARIANT SuccessMeansAll
PROPERTY NodeFinality
PROPERTY ImplementsWorkers
