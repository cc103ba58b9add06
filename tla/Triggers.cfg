SPECIFICATION FairSpec
CONSTANTS
  Jobs = {j1, j2}
  Versions <- MCVersions
  AtFirst <- MCAtFirst
  Due <- MCDue
  Lookback = 2
  MaxTime = 5
  MaxRequests = 1
  MaxEdits = 1
  MaxFaults = 1
INVARIANT IInv
INVARIANT CronOnce
INVARIANT RequestsValidated
PROPERTY DueTimesServed
