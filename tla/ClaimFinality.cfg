SPECIFICATION Spec
CONSTANTS
  NumNodes = 2
  MaxRuns = 1
  Targeted = {}
  MaxFaults = 0
  FaultKinds = {}
PROPERTY RunFinality
