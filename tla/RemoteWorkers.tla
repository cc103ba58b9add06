---------------------------- MODULE RemoteWorkers ----------------------------
(***************************************************************************)
(* The life of a row of node_runs, without scheduler, agents, requests or  *)
(* heartbeats: what the scheduler relies on for the nodes it gives away,   *)
(* and the workers for those they are given.  RunScheduler, AgentProtocol  *)
(* and NodeTasks implement it, each with what it knows of a node.          *)
(***************************************************************************)
EXTENDS RunTables

CONSTANT
  Tasks         \* the node runs

VARIABLES
  nodeStatus,   \* node_runs.status
  executing,    \* the nodes somebody is working on
  disturbed     \* those whose row may change after they have ended

vars == <<nodeStatus, executing, disturbed>>

Init ==
  /\ nodeStatus = [t \in Tasks |-> "pending"]
  /\ executing = {}
  /\ disturbed \subseteq Tasks

Move(t, from, to) ==
  nodeStatus[t] = from /\ nodeStatus' = [nodeStatus EXCEPT ![t] = to]

Queue(t)  == Move(t, "pending", "queued") /\ UNCHANGED executing
Refuse(t) == Move(t, "pending", "failed") /\ UNCHANGED executing
Skip(t)   == Move(t, "pending", "skipped") /\ UNCHANGED executing

Start(t) == Move(t, "queued", "running") /\ executing' = executing \cup {t}

Finish(t) ==
  /\ t \in executing
  /\ \E s \in NodeReported : Move(t, "running", s)
  /\ executing' = executing \ {t}

(* The agent is declared lost. *)
Lose(t) ==
  /\ Move(t, "queued", "failed") \/ Move(t, "running", "failed")
  /\ executing' = executing \ {t}

Rewrite(t) ==
  /\ t \in disturbed /\ nodeStatus[t] \in NodeReported
  /\ \/ \E s \in NodeReported : Move(t, nodeStatus[t], s) /\ UNCHANGED executing
     \/ Move(t, nodeStatus[t], "running") /\ executing' = executing \cup {t}

(* What disturbs a node need not change its row. *)
Next ==
  /\ disturbed \subseteq disturbed'
  /\ \/ UNCHANGED nodeStatus /\ executing' \subseteq executing
     \/ \E t \in Tasks : \/ Queue(t) \/ Refuse(t) \/ Skip(t) \/ Start(t)
                         \/ Finish(t) \/ Lose(t) \/ Rewrite(t)

Spec == Init /\ [][Next]_vars
=============================================================================
