SPECIFICATION FairSpec
CONSTANTS
  Names = {a, b, c}
  MaxNodes = 3
  MaxDeps = 2
  Inputs <- Lists
INVARIANT IInv
INVARIANT TypeOK
INVARIANT DependenciesEarlier
INVARIANT EveryNodeOnce
INVARIANT CyclesRefused
PROPERTY Terminates
CHECK_DEADLOCK FALSE
