-------------------------- MODULE AgentProtocolInv --------------------------
(***************************************************************************)
(* Why a remote node is executed once and its row is honest: the inductive *)
(* invariant of AgentProtocol, and the refinement of RemoteWorkers.        *)
(***************************************************************************)
EXTENDS AgentProtocol

At(a, phases) == worker[a].phase \in phases

(* Whose process is gone, or was taken for gone. *)
Unheard(a) == a \notin alive \/ a \in silenced

(* A node is assigned once, and only when it leaves pending. *)
AssignedOnce ==
  /\ \A t \in Tasks, a, b \in Agents : t \in AssignedTo(a) /\ t \in AssignedTo(b) => a = b
  /\ \A t \in Tasks : nodeStatus[t] = "pending" => \A a \in Agents : t \notin AssignedTo(a)
  /\ \A t \in Tasks, a \in Agents : <<t, a>> \in chosen => nodeStatus[t] = "pending"

(* Only registered agents matter, and those that do not answer are gone or *)
(* were taken for gone.                                                    *)
AgentsFit ==
  \A a \in Agents :
    /\ a \in alive \cup stale => agentStatus[a] # NoRow
    /\ \A t \in Tasks : <<t, a>> \in assignedTo \cup chosen => agentStatus[a] # NoRow
    /\ a \in stale => Unheard(a)
    /\ agentStatus[a] = "offline" => Unheard(a)
    /\ a \notin alive => worker[a] = Resting

(* The nodes the monitor is about to fail belong to such agents, and one   *)
(* that has ended since then was ended by an agent that came back.         *)
VictimsFit ==
  \A t \in victims :
    /\ \E a \in Agents : t \in AssignedTo(a) /\ Unheard(a)
    /\ nodeStatus[t] \in NodeReported => t \in Disturbed

RowFits(t) ==
  /\ nodeStatus[t] \in {"pending", "queued", "running"} \cup NodeReported
  /\ executions[t] \in {0, 1}
  /\ executions[t] = 1 => nodeStatus[t] \notin {"pending", "queued"}
  /\ nodeStatus[t] \in NodeReported \ {"failed"} => actual[t] = nodeStatus[t]
  /\ lost[t] <= faults

(* Where an agent is with its task, and what may have happened to the row. *)
WorkerFits(a) ==
  LET t == worker[a].task IN
  /\ At(a, {"rest"}) => worker[a] = Resting
  /\ At(a, {"choosing"}) => worker[a] = [Resting EXCEPT !.phase = "choosing"]
  /\ ~At(a, {"rest", "choosing"}) => t \in Tasks /\ t \in AssignedTo(a)
  /\ At(a, {"marking"}) => nodeStatus[t] \in {"queued", "failed"}
  /\ At(a, {"answered", "executing"}) => nodeStatus[t] \in {"running", "failed"}
  /\ At(a, {"reporting", "writing"}) => nodeStatus[t] \in {"running"} \cup NodeReported
  /\ At(a, {"written"}) => nodeStatus[t] \in NodeReported
  /\ At(a, {"marking", "answered", "executing", "reporting", "writing"})
       => (nodeStatus[t] \in NodeReported => t \in Disturbed)
  /\ At(a, {"marking", "answered"}) => executions[t] = 0
  /\ At(a, {"marking", "answered", "executing"}) => ~worker[a].retry
  /\ At(a, {"reporting", "writing", "written"}) => worker[a].report \in {actual[t], "failed"} \cap Outcomes

(* The inductive invariant. *)
IInv ==
  /\ TypeOK /\ AssignedOnce /\ AgentsFit /\ VictimsFit
  /\ \A t \in Tasks : RowFits(t)
  /\ \A a \in Agents : WorkerFits(a)

-----------------------------------------------------------------------------
(* The agents that hold a task of theirs which is still running. *)
Holding(t) ==
  \E a \in Agents :
    worker[a].task = t /\ worker[a].phase \in {"answered", "executing", "reporting", "writing"}

Executing == {t \in Tasks : nodeStatus[t] = "running" /\ Holding(t)}

Workers == INSTANCE RemoteWorkers WITH disturbed <- Disturbed, executing <- Executing

(* The requests, heartbeats and faults of agents change the rows of their  *)
(* nodes only in the ways RunScheduler reckons with: every step is one of  *)
(* RemoteWorkers, and an ended row is rewritten only where it may be.      *)
ImplementsWorkers == Workers!Spec
=============================================================================
