--------------------------- MODULE MCRunScheduler ----------------------------
(***************************************************************************)
(* RunScheduler for TLC, with statements of the documentation that the     *)
(* program does not keep, each checked by a run that expects the violation.*)
(***************************************************************************)
EXTENDS RunSchedulerInv

(* implementation-policy.md 2-5: no transition leaves a terminal status of *)
(* a run.  The UPDATE of cancel_run names the id only.                     *)
RunFinality ==
  [][\A r \in Runs : jobStatus[r] \in JobTerminal => jobStatus'[r] = jobStatus[r]]_vars

(* implementation-policy.md 2-13: cancellation goes through                *)
(* cancel_requested and arrives at canceled.  A run canceled while queued  *)
(* is no longer in the scheduler's query, and stays in cancel_requested    *)
(* for ever without ever having had a node.                                *)
QueuedCancelCompletes ==
  \A r \in Runs :
    jobStatus[r] = "cancel_requested" /\ (\A n \in Nodes : nodeStatus[r][n] = NoRow)
      ~> jobStatus[r] \in JobTerminal

(* implementation-policy.md 2-2: a running run has a node executing, or    *)
(* its scheduling is in progress.  After a restart nobody takes up the run *)
(* that was being executed.                                                *)
RunningMeansActive ==
  \A r \in Runs : jobStatus[r] = "running" =>
    cur = r \/ \E n \in Nodes : <<r, n>> \in executing
=============================================================================
