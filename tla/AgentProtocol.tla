---------------------------- MODULE AgentProtocol ----------------------------
(***************************************************************************)
(* Remote agents: they register, poll for a task, execute it, report its   *)
(* result and send heartbeats over HTTP, while the scheduler assigns nodes *)
(* to them and the monitor declares silent agents offline.  A handler of   *)
(* the server is several database accesses with no transaction around      *)
(* them, each a step here.  Every agent is eligible for every task: which  *)
(* labels match is left to the choice of the scheduler.                    *)
(***************************************************************************)
EXTENDS Integers, FiniteSets, RunTables

CONSTANTS
  Agents,       \* registrations; an agent that restarts registers anew
  Tasks,        \* the node runs with a target
  NoTask,       \* no task
  MaxFaults,    \* bound: how many faults happen
  FaultKinds    \* which of the faults below may happen

ASSUME AgentsAssumption == NoTask \notin Tasks
ASSUME FaultsAssumption ==
  /\ MaxFaults \in Nat
  /\ FaultKinds \subseteq {"poll_lost", "report_lost", "silent", "delete",
                           "agent_crash", "restart"}

VARIABLES
  \* the tables
  agentStatus,  \* agents.status, or no row before and after registration
  stale,        \* the agents whose last_heartbeat_at is over 60 seconds old
  nodeStatus,   \* node_runs.status
  assignedTo,   \* node_runs.assigned_agent_id, as the set of <<task, agent>>
  \* the scheduler
  chosen,       \* the task and agent between assign_to_agent's SELECT and
                \* the UPDATE to queued: at most one pair
  \* the agents, with the handler of the request each is waiting for
  alive,        \* the agents whose process is running
  worker,       \* the position of each agent's poll_loop
  beating,      \* the agents whose heartbeat handler has authenticated them
  \* the monitor
  monitor,      \* what it does next
  victims,      \* the nodes it has selected to fail
  \* history
  executions,   \* how often each task has been executed
  actual,       \* how its last execution ended
  lost,         \* how many of its reports broke
  silenced,     \* the agents that were cut off while alive
  faults        \* how many faults have happened

tables  == <<agentStatus, stale, nodeStatus, assignedTo>>
agents  == <<alive, worker, beating>>
mon     == <<monitor, victims>>
history == <<executions, actual, lost, silenced>>
vars    == <<tables, chosen, agents, mon, history, faults>>

Deleted == "deleted"
Unknown == "unknown"

(* choosing, marking, answered: inside poll_task; reporting: the result is *)
(* about to be sent; writing, written: inside report_result.               *)
Phases == {"rest", "choosing", "marking", "answered", "executing",
           "reporting", "writing", "written"}
Outcomes == {"success", "failed", "timed_out"}

Resting == [phase |-> "rest", task |-> NoTask, report |-> Unknown, retry |-> FALSE]

TypeOK ==
  /\ agentStatus \in [Agents -> {NoRow, "online", "offline", Deleted}]
  /\ stale \subseteq Agents
  /\ nodeStatus \in [Tasks -> NodeStatuses]
  /\ assignedTo \subseteq Tasks \X Agents
  /\ chosen \subseteq Tasks \X Agents /\ Cardinality(chosen) <= 1
  /\ alive \subseteq Agents
  /\ worker \in [Agents -> [phase : Phases, task : Tasks \cup {NoTask},
                            report : Outcomes \cup {Unknown}, retry : BOOLEAN]]
  /\ beating \subseteq alive
  /\ monitor \in {"idle", "select", "fail"}
  /\ victims \subseteq Tasks /\ (victims # {} => monitor = "fail")
  /\ executions \in [Tasks -> Nat]
  /\ actual \in [Tasks -> Outcomes \cup {Unknown}]
  /\ lost \in [Tasks -> 0..MaxFaults] /\ silenced \subseteq Agents
  /\ faults \in 0..MaxFaults

Init ==
  /\ agentStatus = [a \in Agents |-> NoRow] /\ stale = {}
  /\ nodeStatus = [t \in Tasks |-> "pending"] /\ assignedTo = {}
  /\ chosen = {}
  /\ alive = {} /\ worker = [a \in Agents |-> Resting] /\ beating = {}
  /\ monitor = "idle" /\ victims = {}
  /\ executions = [t \in Tasks |-> 0] /\ actual = [t \in Tasks |-> Unknown]
  /\ lost = [t \in Tasks |-> 0] /\ silenced = {}
  /\ faults = 0

-----------------------------------------------------------------------------
Fault(kind) ==
  /\ kind \in FaultKinds /\ faults < MaxFaults
  /\ faults' = faults + 1

SetNode(t, s) == nodeStatus' = [nodeStatus EXCEPT ![t] = s]
Online == {a \in Agents : agentStatus[a] = "online"}
AssignedTo(a) == {t \in Tasks : <<t, a>> \in assignedTo}

Step(a, from, to) ==
  /\ worker[a].phase = from
  /\ worker' = [worker EXCEPT ![a].phase = to]

-----------------------------------------------------------------------------
(* The scheduler, for one pending node after the other. *)

(* assign_to_agent selects the online agents ... *)
ChooseAgent(t, a) ==
  /\ chosen = {} /\ nodeStatus[t] = "pending" /\ a \in Online
  /\ chosen' = {<<t, a>>}
  /\ UNCHANGED <<tables, agents, mon, history, faults>>

(* ... and later the node is assigned and queued, whatever has become of   *)
(* the agent.  Nobody looks at the assignment of a node not yet queued.    *)
QueueNode(t, a) ==
  /\ <<t, a>> \in chosen
  /\ assignedTo' = assignedTo \cup {<<t, a>>}
  /\ SetNode(t, "queued")
  /\ chosen' = {}
  /\ UNCHANGED <<agentStatus, stale, agents, mon, history, faults>>

RefuseNode(t) ==
  /\ chosen = {} /\ nodeStatus[t] = "pending" /\ Online = {}
  /\ SetNode(t, "failed")
  /\ UNCHANGED <<agentStatus, stale, assignedTo, chosen, agents, mon, history, faults>>

-----------------------------------------------------------------------------
(* Registration and deletion. *)

Register(a) ==
  /\ agentStatus[a] = NoRow
  /\ agentStatus' = [agentStatus EXCEPT ![a] = "online"]
  /\ alive' = alive \cup {a}
  /\ UNCHANGED <<stale, nodeStatus, assignedTo, chosen, worker, beating, mon, history, faults>>

DeleteAgent(a) ==
  /\ agentStatus[a] \in {"online", "offline"}
  /\ Fault("delete")
  /\ agentStatus' = [agentStatus EXCEPT ![a] = Deleted]
  /\ UNCHANGED <<stale, nodeStatus, assignedTo, chosen, agents, mon, history>>

-----------------------------------------------------------------------------
(* poll_loop, together with the handlers of the requests it sends. *)

(* authenticate_agent admits online agents only. *)
AdmitPoll(a) ==
  /\ a \in alive /\ a \in Online
  /\ Step(a, "rest", "choosing")
  /\ UNCHANGED <<tables, chosen, alive, beating, mon, history, faults>>

(* Mutant: the query does not ask for the nodes of this agent. *)
SelectTask_AnyAgent(a) ==
  /\ worker[a].phase = "choosing"
  /\ LET queued == {t \in Tasks : nodeStatus[t] = "queued"} IN
     \/ /\ queued = {}
        /\ worker' = [worker EXCEPT ![a] = Resting]
     \/ \E t \in queued :
          worker' = [worker EXCEPT ![a].phase = "marking", ![a].task = t]
  /\ UNCHANGED <<tables, chosen, alive, beating, mon, history, faults>>

(* One queued node of this agent; several may be equally old. *)
SelectTask(a) ==
  /\ worker[a].phase = "choosing"
  /\ LET queued == {t \in AssignedTo(a) : nodeStatus[t] = "queued"} IN
     \/ /\ queued = {}
        /\ worker' = [worker EXCEPT ![a] = Resting]
     \/ \E t \in queued :
          worker' = [worker EXCEPT ![a].phase = "marking", ![a].task = t]
  /\ UNCHANGED <<tables, chosen, alive, beating, mon, history, faults>>

(* Mutant: the node is handed out and left queued. *)
MarkRunning_LeavesQueued(a) ==
  /\ Step(a, "marking", "answered")
  /\ UNCHANGED <<tables, chosen, alive, beating, mon, history, faults>>

(* The UPDATE names the id of the node run only. *)
MarkRunning(a) ==
  /\ Step(a, "marking", "answered")
  /\ SetNode(worker[a].task, "running")
  /\ UNCHANGED <<agentStatus, stale, assignedTo, chosen, alive, beating, mon, history, faults>>

ReceiveTask(a) ==
  /\ Step(a, "answered", "executing")
  /\ executions' = [executions EXCEPT ![worker[a].task] = @ + 1]
  /\ UNCHANGED <<tables, chosen, alive, beating, mon, actual, lost, silenced, faults>>

(* run_process has ended and the outputs are checked. *)
EndProcess(a) ==
  /\ worker[a].phase = "executing"
  /\ \E s \in Outcomes :
       /\ worker' = [worker EXCEPT ![a].phase = "reporting", ![a].report = s]
       /\ actual' = [actual EXCEPT ![worker[a].task] = s]
  /\ UNCHANGED <<tables, chosen, alive, beating, mon, executions, lost, silenced, faults>>

(* Mutant: the second attempt is not made. *)
GiveUp_AtOnce(w) == Resting

(* When its report fails, execute_task returns an error; poll_loop then    *)
(* reports the task as failed, once, and ignores what comes of it.         *)
GiveUp(w) ==
  IF w.retry THEN Resting
  ELSE [w EXCEPT !.phase = "reporting", !.report = "failed", !.retry = TRUE]

(* Mutant: timed_out is missing from the statuses the API admits. *)
Admissible_NoTimeouts(a) ==
  /\ a \in Online /\ worker[a].task \in AssignedTo(a)
  /\ worker[a].report \in NodeReported \ {"timed_out"}

(* authenticate_agent, and the checks of report_result. *)
Admissible(a) ==
  /\ a \in Online /\ worker[a].task \in AssignedTo(a)
  /\ worker[a].report \in NodeReported

AdmitReport(a) ==
  /\ Admissible(a)
  /\ Step(a, "reporting", "writing")
  /\ UNCHANGED <<tables, chosen, alive, beating, mon, history, faults>>

(* Refused, as is report_logs before it when the agent is not online. *)
RefuseReport(a) ==
  /\ worker[a].phase = "reporting" /\ ~Admissible(a)
  /\ worker' = [worker EXCEPT ![a] = GiveUp(@)]
  /\ UNCHANGED <<tables, chosen, alive, beating, mon, history, faults>>

(* The UPDATE names the id of the node run only. *)
WriteResult(a) ==
  /\ Step(a, "writing", "written")
  /\ SetNode(worker[a].task, worker[a].report)
  /\ UNCHANGED <<agentStatus, stale, assignedTo, chosen, alive, beating, mon, history, faults>>

ReceiveOk(a) ==
  /\ worker[a].phase = "written"
  /\ worker' = [worker EXCEPT ![a] = Resting]
  /\ UNCHANGED <<tables, chosen, alive, beating, mon, history, faults>>

(* The connection breaks: the handler is dropped where it is. *)
LosePoll(a) ==
  /\ worker[a].phase \in {"choosing", "marking", "answered"}
  /\ Fault("poll_lost")
  /\ worker' = [worker EXCEPT ![a] = Resting]
  /\ UNCHANGED <<tables, chosen, alive, beating, mon, history>>

LoseReport(a) ==
  /\ worker[a].phase \in {"reporting", "writing", "written"}
  /\ Fault("report_lost")
  /\ worker' = [worker EXCEPT ![a] = GiveUp(@)]
  /\ lost' = [lost EXCEPT ![worker[a].task] = @ + 1]
  /\ UNCHANGED <<tables, chosen, alive, beating, mon, executions, actual, silenced>>

-----------------------------------------------------------------------------
(* heartbeat_loop and its handler. *)

AdmitBeat(a) ==
  /\ a \in alive /\ a \in Online /\ a \notin beating
  /\ beating' = beating \cup {a}
  /\ UNCHANGED <<tables, chosen, alive, worker, mon, history, faults>>

(* The UPDATE writes 'online' whatever the status is by then. *)
WriteBeat(a) ==
  /\ a \in beating
  /\ beating' = beating \ {a}
  /\ agentStatus' = [agentStatus EXCEPT ![a] = IF @ = Deleted THEN @ ELSE "online"]
  /\ stale' = stale \ {a}
  /\ UNCHANGED <<nodeStatus, assignedTo, chosen, alive, worker, mon, history, faults>>

(* Sixty seconds without a heartbeat: the process is gone, or cut off. *)
GoStale(a) ==
  /\ a \in Online \ stale
  /\ \/ a \notin alive /\ UNCHANGED <<silenced, faults>>
     \/ a \in alive /\ silenced' = silenced \cup {a} /\ Fault("silent")
  /\ stale' = stale \cup {a}
  /\ UNCHANGED <<agentStatus, nodeStatus, assignedTo, chosen, agents, mon,
                 executions, actual, lost>>

-----------------------------------------------------------------------------
(* check_agent_heartbeats. *)

QuietTick == monitor = "idle" /\ Online \cap stale = {} /\ UNCHANGED vars

MarkOffline ==
  /\ monitor = "idle" /\ Online \cap stale # {}
  /\ agentStatus' = [a \in Agents |->
       IF a \in Online \cap stale THEN "offline" ELSE agentStatus[a]]
  /\ monitor' = "select"
  /\ UNCHANGED <<stale, nodeStatus, assignedTo, chosen, agents, victims, history, faults>>

(* Mutant: nodes that are already running are not selected. *)
SelectVictims_QueuedOnly ==
  /\ monitor = "select"
  /\ victims' = {t \in Tasks :
       /\ nodeStatus[t] = "queued"
       /\ \E a \in Agents : t \in AssignedTo(a) /\ agentStatus[a] = "offline"}
  /\ monitor' = IF victims' = {} THEN "idle" ELSE "fail"
  /\ UNCHANGED <<tables, chosen, agents, history, faults>>

(* The nodes of every offline agent, those of earlier rounds included. *)
SelectVictims ==
  /\ monitor = "select"
  /\ victims' = {t \in Tasks :
       /\ nodeStatus[t] \in {"queued", "running"}
       /\ \E a \in Agents : t \in AssignedTo(a) /\ agentStatus[a] = "offline"}
  /\ monitor' = IF victims' = {} THEN "idle" ELSE "fail"
  /\ UNCHANGED <<tables, chosen, agents, history, faults>>

(* Mutant: the round ends after its first node. *)
FailVictim_OnlyOne ==
  /\ monitor = "fail"
  /\ \E t \in victims :
       /\ SetNode(t, "failed")
       /\ victims' = victims \ {t}
  /\ monitor' = "idle"
  /\ UNCHANGED <<agentStatus, stale, assignedTo, chosen, agents, history, faults>>

(* One UPDATE after the other, each by id only. *)
FailVictim ==
  /\ monitor = "fail"
  /\ \E t \in victims :
       /\ SetNode(t, "failed")
       /\ victims' = victims \ {t}
  /\ monitor' = IF victims' = {} THEN "idle" ELSE "fail"
  /\ UNCHANGED <<agentStatus, stale, assignedTo, chosen, agents, history, faults>>

-----------------------------------------------------------------------------
(* Faults of whole processes. *)

AgentCrash(a) ==
  /\ a \in alive
  /\ Fault("agent_crash")
  /\ alive' = alive \ {a} /\ beating' = beating \ {a}
  /\ worker' = [worker EXCEPT ![a] = Resting]
  /\ UNCHANGED <<tables, chosen, mon, history>>

(* The server restarts: handlers, the scheduler and the monitor are gone,  *)
(* and the agents see their requests fail.                                 *)
Restart ==
  /\ Fault("restart")
  /\ worker' = [a \in Agents |->
       IF worker[a].phase \in {"choosing", "marking", "answered"} THEN Resting
       ELSE IF worker[a].phase \in {"writing", "written"} THEN GiveUp(worker[a])
       ELSE worker[a]]
  /\ beating' = {} /\ chosen' = {} /\ monitor' = "idle" /\ victims' = {}
  /\ lost' = [t \in Tasks |->
       IF \E a \in Agents : worker[a].task = t /\ worker[a].phase \in {"writing", "written"}
       THEN lost[t] + 1 ELSE lost[t]]
  /\ UNCHANGED <<tables, alive, executions, actual, silenced>>

-----------------------------------------------------------------------------
PollLoop(a) ==
  \/ AdmitPoll(a) \/ SelectTask(a) \/ MarkRunning(a) \/ ReceiveTask(a) \/ EndProcess(a)
  \/ AdmitReport(a) \/ RefuseReport(a) \/ WriteResult(a) \/ ReceiveOk(a)

Monitor == QuietTick \/ MarkOffline \/ SelectVictims \/ FailVictim

Next ==
  \/ \E t \in Tasks : RefuseNode(t) \/ \E a \in Agents : ChooseAgent(t, a) \/ QueueNode(t, a)
  \/ \E a \in Agents :
       \/ Register(a) \/ DeleteAgent(a) \/ PollLoop(a) \/ LosePoll(a) \/ LoseReport(a)
       \/ AdmitBeat(a) \/ WriteBeat(a) \/ GoStale(a) \/ AgentCrash(a)
  \/ Monitor \/ Restart

Spec == Init /\ [][Next]_vars

(* The loops of the server and of the agents run on tickers, run_process   *)
(* ends by its timeout, and time passes for an agent that is gone.         *)
Fairness ==
  /\ WF_vars(Monitor)
  /\ \A a \in Agents :
       /\ WF_vars(PollLoop(a)) /\ WF_vars(WriteBeat(a))
       /\ WF_vars(a \notin alive /\ GoStale(a))

FairSpec == Spec /\ Fairness

-----------------------------------------------------------------------------
(* Properties. *)

(* Whose row may be written by somebody who read it before it changed: a   *)
(* silent agent comes back while the monitor fails its nodes, or a result  *)
(* is reported a second time.                                              *)
Disturbed ==
  {t \in Tasks : lost[t] > 0 \/ \E a \in silenced : t \in AssignedTo(a)}

(* No task is executed twice, whatever is lost, deleted or restarted: a    *)
(* node handed out by poll_task is never handed out again.                 *)
ExecutedOnce == \A t \in Tasks : executions[t] <= 1

(* A row never claims an outcome the process did not have, except failed:  *)
(* what is lost on the way ends as failed or stays running.                *)
OutcomeHonest ==
  \A t \in Tasks : nodeStatus[t] \in NodeReported \ {"failed"} => actual[t] = nodeStatus[t]

Abandoned(t) == \E a \in Agents : t \in AssignedTo(a) /\ a \notin alive

(* A node queued on, or running on, an agent whose process is gone does    *)
(* not stay so: the monitor's single look at the nodes of newly offline    *)
(* agents finds it (check_agent_heartbeats).  Not so a node queued after   *)
(* that look, which the scheduler had chosen the agent for before.         *)
AbandonedNodesEnd ==
  \A t \in Tasks :
    \/ nodeStatus[t] = "running" /\ Abandoned(t)
    \/ nodeStatus[t] = "queued" /\ \E a \in Online : t \in AssignedTo(a) /\ a \notin alive
    ~> nodeStatus[t] \in NodeTerminal

(* The outcome of a process is recorded as it was, unless its agent goes   *)
(* away first or a report breaks (execute_task, report_result).            *)
OutcomeRecorded ==
  \A t \in Tasks :
    actual[t] # Unknown ~> (nodeStatus[t] = actual[t] \/ Abandoned(t) \/ lost[t] > 0)

(* One broken report, whether the request or its answer is lost, does not  *)
(* leave the node running: the second attempt of poll_loop ends it.        *)
LostReportAbsorbed ==
  \A t \in Tasks :
    (\E a \in Agents : worker[a].phase = "executing" /\ worker[a].task = t)
      ~> (nodeStatus[t] \in NodeReported \/ lost[t] > 1 \/ Abandoned(t))
=============================================================================
