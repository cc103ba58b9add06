---------------------------- MODULE DagExecution -----------------------------
(***************************************************************************)
(* What the server promises of a job run, told by the tables alone: no     *)
(* scheduler, no memory, no order between runs.  Each step is one change   *)
(* of a row, allowed only for a reason the rows themselves show.           *)
(* RunScheduler implements this specification as long as nothing fails     *)
(* around it.                                                              *)
(***************************************************************************)
EXTENDS Integers, RunTables

CONSTANTS NumNodes, MaxRuns, Targeted

Nodes == 1..NumNodes
Runs  == 1..MaxRuns
Definitions == {d \in [Nodes -> SUBSET Nodes] : \A n \in Nodes : d[n] \subseteq 1..(n-1)}

VARIABLES jobStatus, nodeStatus, deps

vars == <<jobStatus, nodeStatus, deps>>

Init ==
  /\ jobStatus  = [r \in Runs |-> NoRow]
  /\ nodeStatus = [r \in Runs |-> [n \in Nodes |-> NoRow]]
  /\ deps       = [r \in Runs |-> [n \in Nodes |-> {}]]

Unplanned(r) == \A n \in Nodes : nodeStatus[r][n] = NoRow
Settled(r)   == \A n \in Nodes : nodeStatus[r][n] \in NodeTerminal
Active(r)    == jobStatus[r] \in {"running", "cancel_requested"}
Some(r, s)   == \E n \in Nodes : nodeStatus[r][n] = s

JobStep(r, from, to) ==
  /\ jobStatus[r] \in from
  /\ jobStatus' = [jobStatus EXCEPT ![r] = to]
  /\ UNCHANGED <<nodeStatus, deps>>

NodeStep(r, n, from, to) ==
  /\ nodeStatus[r][n] = from
  /\ nodeStatus' = [nodeStatus EXCEPT ![r][n] = to]
  /\ UNCHANGED <<jobStatus, deps>>

Submit(r) == JobStep(r, {NoRow}, "queued")

(* The definition is read once, before the run has any node. *)
Load(r) ==
  /\ jobStatus[r] # NoRow /\ Unplanned(r)
  /\ \E d \in Definitions : deps' = [deps EXCEPT ![r] = d]
  /\ UNCHANGED <<jobStatus, nodeStatus>>

Reject(r) == Unplanned(r) /\ JobStep(r, {"queued", "cancel_requested"}, "failed")

Plan(r, n) == jobStatus[r] \notin JobTerminal /\ NodeStep(r, n, NoRow, "pending")

Begin(r) == /\ \A n \in Nodes : nodeStatus[r][n] = "pending"
            /\ JobStep(r, {"queued"}, "running")

(* A request counts from its UPDATE.  The handler has read the status      *)
(* before, so the run may have ended since: AnswerLate overwrites it.      *)
RequestCancel(r) == JobStep(r, {"queued", "running"}, "cancel_requested")
AnswerLate(r)    == JobStep(r, JobTerminal, "cancel_requested")

(* A node is queued, or refused, when all it depends on has succeeded. *)
Launch(r, n) ==
  /\ Active(r)
  /\ \A m \in deps[r][n] : nodeStatus[r][m] = "success"
  /\ \/ NodeStep(r, n, "pending", "queued")
     \/ n \in Targeted /\ NodeStep(r, n, "pending", "failed")

(* A node is skipped because of a dependency, because another node of the  *)
(* run went wrong, or because the run is being canceled.                   *)
Skip(r, n) ==
  /\ Active(r)
  /\ \/ \E m \in deps[r][n] : nodeStatus[r][m] \in NodeTerminal \ {"success"}
     \/ \E m \in Nodes : nodeStatus[r][m] \in NodeUnsuccessful
     \/ jobStatus[r] = "cancel_requested"
  /\ NodeStep(r, n, "pending", "skipped")

Start(r, n) == Active(r) /\ NodeStep(r, n, "queued", "running")

Finish(r, n) ==
  /\ Active(r)
  /\ \E s \in NodeReported :
       /\ s = "canceled" => n \in Targeted
       /\ NodeStep(r, n, "running", s)

Lose(r, n) ==
  /\ Active(r) /\ n \in Targeted
  /\ NodeStep(r, n, "queued", "failed") \/ NodeStep(r, n, "running", "failed")

(* A run ends when all its nodes have, with the gravest status among them; *)
(* a canceled run whose nodes all succeeded may end either way.            *)
Conclude(r) ==
  /\ Settled(r)
  /\ \/ Some(r, "timed_out") /\ JobStep(r, {"running", "cancel_requested"}, "timed_out")
     \/ /\ Some(r, "failed") /\ ~Some(r, "timed_out")
        /\ JobStep(r, {"running", "cancel_requested"}, "failed")
     \/ /\ ~Some(r, "failed") /\ ~Some(r, "timed_out")
        /\ \/ JobStep(r, {"cancel_requested"}, "canceled")
           \/ Some(r, "canceled") /\ JobStep(r, {"running"}, "canceled")
     \/ /\ \A n \in Nodes : nodeStatus[r][n] = "success"
        /\ JobStep(r, {"running", "cancel_requested"}, "success")

Next ==
  \E r \in Runs :
    \/ Submit(r) \/ Load(r) \/ Reject(r) \/ Begin(r)
    \/ RequestCancel(r) \/ AnswerLate(r) \/ Conclude(r)
    \/ \E n \in Nodes : \/ Plan(r, n) \/ Launch(r, n) \/ Skip(r, n)
                        \/ Start(r, n) \/ Finish(r, n) \/ Lose(r, n)

Spec == Init /\ [][Next]_vars
=============================================================================
