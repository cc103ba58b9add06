SPECIFICATION FairSpec
CONSTANTS
  NumNodes = 3
  MaxRuns = 1
  Targeted = {2}
  MaxFaults = 0
  FaultKinds = {}
INVARIANT SettledAtEnd
INVARIANT VerdictAgrees
PROPERTY ImplementsDag
PROPERTY PickedRunsConclude
