SPECIFICATION Spec
CONSTANTS
  NumNodes = 2
  MaxRuns = 1
  Targeted = {}
  MaxFaults = 1
  FaultKinds = {"crash"}
INVARIANT RunningMeansActive
