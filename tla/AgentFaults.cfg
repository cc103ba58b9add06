SPECIFICATION Spec
CONSTANTS
  Agents = {a1, a2}
  Tasks = {t1, t2}
  NoTask = none
  MaxFaults = 2
  FaultKinds = {"poll_lost", "report_lost", "silent", "delete", "agent_crash", "restart"}
SYMMETRY Symmetry
INVARIANT IInv
INVARIANT ExecutedOnce
INVARIANT OutcomeHonest
PROPERTY ImplementsWorkers
