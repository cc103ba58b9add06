SPECIFICATION FairSpec
CONSTANTS
  Agents = {a1, a2}
  Tasks = {t1, t2}
  NoTask = none
  MaxFaults = 2
  FaultKinds = {"report_lost", "agent_crash"}
PROPERTY AbandonedNodesEnd
PROPERTY OutcomeRecorded
PROPERTY LostReportAbsorbed
