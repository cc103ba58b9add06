--------------------------- MODULE RunSchedulerInv ---------------------------
(***************************************************************************)
(* The inductive invariant of RunScheduler: what ties the scheduler's      *)
(* memory and the workers to the tables, and its refinements of            *)
(* DagExecution and RemoteWorkers.  RunSchedulerProofs and FaultFreeProofs *)
(* prove them.                                                             *)
(***************************************************************************)
EXTENDS RunScheduler

(* The scheduler has a run exactly when it is not idle; the run exists,    *)
(* and it has left the queue by the time its nodes are scheduled.          *)
CurrentRun ==
  /\ pc = "idle" <=> cur = 0
  /\ cur # 0 => jobStatus[cur] # NoRow
  /\ InLoop => jobStatus[cur] # "queued"

(* Before its nodes are scheduled, a run has at most pending nodes. *)
Unstarted ==
  \A r \in Runs :
    jobStatus[r] \in {NoRow, "queued"} \/ (cur = r /\ pc \in {"load", "ensure"})
      => \A n \in Nodes : nodeStatus[r][n] \in {NoRow, "pending"}

(* The loop starts with no memory and, where the walk of ensure_nodes has  *)
(* passed, with every row.                                                 *)
Prepared ==
  /\ pc = "ensure" => \A n \in Nodes : n < idx => nodeStatus[cur][n] = "pending"
  /\ pc \in {"load", "ensure"} =>
       results = NothingKnown /\ runningNodes = {} /\ stopScheduling = FALSE
  /\ pc = "load" => idx = 1

(* In the loop, the maps of execute_run agree with the rows of its run. *)
MemoryAgrees ==
  InLoop => \A n \in Nodes :
    /\ results[n] # Unknown /\ n \notin Overwritable => nodeStatus[cur][n] = results[n]
    /\ n \in runningNodes => Launched(cur, n)
    /\ ~Known(n) => nodeStatus[cur][n] = "pending"

(* What the loop waits for it does not know to have ended. *)
Apart == InLoop => \A n \in runningNodes : results[n] = Unknown

(* A worker executes only what was queued, and nothing that has ended. *)
WorkersAgree ==
  \A r \in Runs, n \in Nodes : <<r, n>> \in executing => nodeStatus[r][n] = "running"

(* Scheduling stops, and nodes are skipped, only for something that keeps  *)
(* the verdict from being success.                                         *)
Spoiled == canceling \/ \E n \in Nodes : results[n] \in NodeUnsuccessful
StopIsRecorded ==
  InLoop => (stopScheduling \/ (\E n \in Nodes : results[n] = "skipped") => Spoiled)

(* A pass leaves a node unresolved only behind a node that is running: in  *)
(* a list ordered by dependencies, nothing waits for a later node.         *)
PassProgress ==
  /\ pc = "pass" => \A n \in Nodes : n < idx =>
       results[n] # Unknown \/ \E m \in runningNodes : m <= n
  /\ pc = "final" => \A n \in Nodes : results[n] # Unknown

(* The inductive invariant, whatever fails. *)
IInv ==
  /\ TypeOK /\ CurrentRun /\ Unstarted /\ Prepared /\ MemoryAgrees /\ Apart /\ WorkersAgree
  /\ StopIsRecorded /\ PassProgress
  /\ DependencyOrder /\ SuccessMeansAll

-----------------------------------------------------------------------------
(* Runs exist from the first on, only of an existing one was cancellation  *)
(* requested, and nothing that is queued has been passed over.             *)
QueueOrder ==
  /\ \A r \in Runs : jobStatus[r] # "created"
  /\ \A r \in cancelPending : jobStatus[r] # NoRow
  /\ \A r \in Runs : jobStatus[r] # NoRow => \A q \in 1..(r-1) : jobStatus[q] # NoRow
  /\ pc \in {"load", "ensure"} => \A q \in 1..(cur-1) : jobStatus[q] # "queued"

Unplanned(r) == \A n \in Nodes : nodeStatus[r][n] = NoRow
Settled(r)   == \A n \in Nodes : nodeStatus[r][n] \in NodeTerminal

(* A run the scheduler has not begun with, or has done with. *)
AtRest(r) ==
  \/ Unplanned(r) /\ jobStatus[r] \in {NoRow, "queued", "cancel_requested", "failed"}
  \/ Settled(r) /\ jobStatus[r] \in {"cancel_requested"} \cup JobTerminal

(* While nothing has failed: the runs the scheduler does not have are at   *)
(* rest, the rows of its own run are as far as it has come, and what it    *)
(* knows of them is true, whoever executes them.                           *)
FaultFree ==
  faults = 0 =>
    /\ \A r \in Runs : r # cur \/ pc = "record" => AtRest(r)
    /\ pc \in {"load", "ensure", "abort"} => jobStatus[cur] \in {"queued", "cancel_requested"}
    /\ pc \in {"load", "abort"} => Unplanned(cur)
    /\ pc = "ensure" => \A n \in Nodes : n >= idx => nodeStatus[cur][n] = NoRow
    /\ pc \in {"load", "ensure"} => ~canceling
    /\ InLoop =>
         /\ jobStatus[cur] \in {"running", "cancel_requested"}
         /\ \A n \in Nodes : results[n] # Unknown => nodeStatus[cur][n] = results[n]
         /\ canceling => jobStatus[cur] = "cancel_requested" \/ Ended("canceled")

(* Inductive together with IInv. *)
QuietInv == QueueOrder /\ FaultFree /\ VerdictAgrees

-----------------------------------------------------------------------------
Dag == INSTANCE DagExecution

(* Without faults, every change of a row made by the scheduler, a worker   *)
(* or a handler is one DagExecution allows: nodes are queued, skipped and  *)
(* refused only for a reason the rows show, and a run ends only when all   *)
(* its nodes have, with the status they call for.                          *)
ImplementsDag == Dag!Spec

-----------------------------------------------------------------------------
(* node_runs as RemoteWorkers sees it: one table, in which a row that is   *)
(* not there yet is pending.                                               *)
Rows     == Runs \X Nodes
Shown(s) == IF s = NoRow THEN "pending" ELSE s
Table    == [t \in Rows |-> Shown(nodeStatus[t[1]][t[2]])]
Workers  == INSTANCE RemoteWorkers WITH
              Tasks <- Rows, nodeStatus <- Table, disturbed <- Runs \X Overwritable

(* Whatever fails, the row of a node changes only as RemoteWorkers allows: *)
(* it is queued, started and ended in this order and by whoever started    *)
(* it, or it is skipped or refused; only a remote race writes it after it  *)
(* has ended.                                                              *)
ImplementsWorkers == Workers!Spec
=============================================================================
