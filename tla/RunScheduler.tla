---------------------------- MODULE RunScheduler -----------------------------
(***************************************************************************)
(* The life of a job run inside the server: the HTTP handlers that create  *)
(* and cancel runs, the scheduler task that picks one queued run at a time *)
(* and drives the DAG of its nodes through the tables job_runs and         *)
(* node_runs, and the workers that start and finish the queued nodes.      *)
(* Every step is one access to the database, so the interleavings are      *)
(* those of the tasks of the server.                                       *)
(***************************************************************************)
EXTENDS Integers, FiniteSets, RunTables

CONSTANTS
  NumNodes,     \* nodes of a job definition
  MaxRuns,      \* bound: how many runs are ever created
  Targeted,     \* the nodes with a `target`, which remote agents execute
  MaxFaults,    \* bound: how many faults happen
  FaultKinds    \* which of the faults below may happen

ASSUME NodesAssumption  == NumNodes \in Nat \ {0}
ASSUME RunsAssumption   == MaxRuns \in Nat
ASSUME TargetAssumption == Targeted \subseteq 1..NumNodes
ASSUME FaultAssumption  ==
  /\ MaxFaults \in Nat
  /\ FaultKinds \subseteq {"scheduler_db", "task_lost", "crash", "remote_race"}

(* A node is its position in the resolved definition.nodes, which load     *)
(* leaves in topological order: dependencies come earlier in the list.     *)
Nodes == 1..NumNodes
Definitions == {d \in [Nodes -> SUBSET Nodes] : \A n \in Nodes : d[n] \subseteq 1..(n-1)}

(* A run is its id; ids and created_at grow together. *)
Runs == 1..MaxRuns

VARIABLES
  \* the tables
  jobStatus,      \* job_runs.status
  nodeStatus,     \* node_runs.status of each node of each run
  assigned,       \* the nodes of each run whose assigned_agent_id is set
  deps,           \* the dependencies of the definition each run last loaded
  \* the scheduler task, inside process_next_run
  pc,             \* what it does next
  cur,            \* the run it executes, 0 for none
  idx,            \* the position of its walk over definition.nodes
  results,        \* the nodes it knows to have ended, with their status
  runningNodes,   \* the nodes it has queued and waits for
  stopScheduling, \* its two flags
  canceling,
  scanned,        \* running nodes read since the last look at the cancel flag
  \* the other tasks
  executing,      \* the tasks workers are executing
  cancelPending,  \* cancel requests between their SELECT and their UPDATE
  faults          \* how many faults have happened

tables == <<jobStatus, nodeStatus, assigned, deps>>
memory == <<pc, cur, idx, results, runningNodes, stopScheduling, canceling, scanned>>
others == <<executing, cancelPending, faults>>
vars   == <<tables, memory, others>>

Unknown == "unknown"
NothingKnown == [n \in Nodes |-> Unknown]
Steps == {"idle", "load", "ensure", "check", "pass", "wait", "final", "record", "abort"}

(* The loop of execute_run that schedules nodes and waits for them. *)
InLoop == pc \in {"check", "pass", "wait", "final"}

TypeOK ==
  /\ jobStatus  \in [Runs -> JobStatuses \cup {NoRow}]
  /\ nodeStatus \in [Runs -> [Nodes -> NodeStatuses \cup {NoRow}]]
  /\ assigned   \in [Runs -> SUBSET Nodes]
  /\ deps       \in [Runs -> Definitions]
  /\ pc \in Steps
  /\ cur \in Runs \cup {0}
  /\ idx \in 1..(NumNodes + 1)
  /\ results \in [Nodes -> NodeTerminal \cup {Unknown}]
  /\ runningNodes \subseteq Nodes
  /\ stopScheduling \in BOOLEAN
  /\ canceling \in BOOLEAN
  /\ scanned \subseteq runningNodes
  /\ executing \subseteq Runs \X Nodes
  /\ cancelPending \subseteq Runs
  /\ faults \in 0..MaxFaults

Init ==
  /\ jobStatus  = [r \in Runs |-> NoRow]
  /\ nodeStatus = [r \in Runs |-> [n \in Nodes |-> NoRow]]
  /\ assigned   = [r \in Runs |-> {}]
  /\ deps       = [r \in Runs |-> [n \in Nodes |-> {}]]
  /\ pc = "idle" /\ cur = 0 /\ idx = 1
  /\ results = NothingKnown /\ runningNodes = {}
  /\ stopScheduling = FALSE /\ canceling = FALSE /\ scanned = {}
  /\ executing = {} /\ cancelPending = {} /\ faults = 0

-----------------------------------------------------------------------------
(* Writes shared by several handlers. *)

SetJob(r, s)     == jobStatus' = [jobStatus EXCEPT ![r] = s]
SetNode(r, n, s) == nodeStatus' = [nodeStatus EXCEPT ![r][n] = s]

(* The locals of execute_run are created, or dropped, with the call. *)
Locals(step, r) ==
  /\ pc' = step /\ cur' = r /\ idx' = 1
  /\ results' = NothingKnown /\ runningNodes' = {}
  /\ stopScheduling' = FALSE /\ canceling' = FALSE /\ scanned' = {}

Fault(kind) ==
  /\ kind \in FaultKinds /\ faults < MaxFaults
  /\ faults' = faults + 1

-----------------------------------------------------------------------------
(* HTTP handlers. *)

(* start_run, rerun_run, webhook_trigger and the cron scheduler insert the *)
(* row and its event in one transaction.                                   *)
CreateRun(r) ==
  /\ jobStatus[r] = NoRow
  /\ \A q \in 1..(r-1) : jobStatus[q] # NoRow
  /\ SetJob(r, "queued")
  /\ UNCHANGED <<nodeStatus, assigned, deps, memory, others>>

(* cancel_run reads the status outside any transaction ... *)
CancelRead(r) ==
  /\ jobStatus[r] \in {"queued", "running"}
  /\ cancelPending' = cancelPending \cup {r}
  /\ UNCHANGED <<tables, memory, executing, faults>>

(* ... and its UPDATE names the id only, whatever the status is by then. *)
CancelCommit(r) ==
  /\ r \in cancelPending
  /\ SetJob(r, "cancel_requested")
  /\ cancelPending' = cancelPending \ {r}
  /\ UNCHANGED <<nodeStatus, assigned, deps, memory, executing, faults>>

-----------------------------------------------------------------------------
(* The scheduler task. *)

Queued == {r \in Runs : jobStatus[r] = "queued"}

IdleTick == pc = "idle" /\ Queued = {} /\ UNCHANGED vars

(* Mutant: the ORDER BY is missing. *)
PickRun_AnyOrder ==
  /\ pc = "idle"
  /\ \E r \in Queued : Locals("load", r)
  /\ UNCHANGED <<tables, others>>

PickRun ==
  /\ pc = "idle"
  /\ \E r \in Queued : /\ \A q \in Queued : r <= q
                       /\ Locals("load", r)
  /\ UNCHANGED <<tables, others>>

LoadDefinition ==
  /\ pc = "load"
  /\ \E d \in Definitions : deps' = [deps EXCEPT ![cur] = d]
  /\ pc' = "ensure"
  /\ UNCHANGED <<jobStatus, nodeStatus, assigned, others, cur, idx, results,
                 runningNodes, stopScheduling, canceling, scanned>>

(* The file is gone or invalid, names another job, or needs a secret that  *)
(* cannot be resolved.                                                     *)
LoadFails ==
  /\ pc = "load"
  /\ pc' = "abort"
  /\ UNCHANGED <<tables, others, cur, idx, results, runningNodes,
                 stopScheduling, canceling, scanned>>

EnsureNode ==
  /\ pc = "ensure" /\ idx <= NumNodes
  /\ nodeStatus[cur][idx] = NoRow
  /\ SetNode(cur, idx, "pending")
  /\ idx' = idx + 1
  /\ UNCHANGED <<jobStatus, assigned, deps, others, pc, cur, results,
                 runningNodes, stopScheduling, canceling, scanned>>

(* A row left by an earlier attempt violates UNIQUE (job_run_id, node_id). *)
EnsureFails ==
  /\ pc = "ensure" /\ idx <= NumNodes
  /\ nodeStatus[cur][idx] # NoRow
  /\ Locals("abort", cur)
  /\ UNCHANGED <<tables, others>>

(* Mutant: the UPDATE to running without its status guard. *)
StartJob_Unguarded ==
  /\ pc = "ensure" /\ idx = NumNodes + 1
  /\ SetJob(cur, "running")
  /\ pc' = "check"
  /\ UNCHANGED <<nodeStatus, assigned, deps, others, cur, idx, results,
                 runningNodes, stopScheduling, canceling, scanned>>

(* transition_job to running is guarded by the status it expects; finding  *)
(* another one is no error.                                                *)
StartJob ==
  /\ pc = "ensure" /\ idx = NumNodes + 1
  /\ jobStatus' = [jobStatus EXCEPT ![cur] = IF @ = "queued" THEN "running" ELSE @]
  /\ pc' = "check"
  /\ UNCHANGED <<nodeStatus, assigned, deps, others, cur, idx, results,
                 runningNodes, stopScheduling, canceling, scanned>>

CheckCancel ==
  /\ pc = "check"
  /\ canceling' = (canceling \/ jobStatus[cur] = "cancel_requested")
  /\ pc' = "pass" /\ idx' = 1
  /\ UNCHANGED <<tables, others, cur, results, runningNodes, stopScheduling, scanned>>

(* Mutants: queued nodes forgotten; unresolved dependencies ignored. *)
Known_ForgetsQueued(n) == results[n] # Unknown
Waiting_Never(n) == FALSE

(* The conditions of one iteration of the pass, in the order of the code.  *)
Known(n)   == results[n] # Unknown \/ n \in runningNodes
Blocked(n) == \E m \in deps[cur][n] : results[m] \notin {Unknown, "success"}
Waiting(n) == \E m \in deps[cur][n] : results[m] = Unknown
Ready(n)   == ~Known(n) /\ ~Blocked(n) /\ ~Waiting(n)

AtNode == pc = "pass" /\ idx <= NumNodes

PassOver ==
  /\ AtNode
  /\ Known(idx) \/ (~Blocked(idx) /\ Waiting(idx))
  /\ idx' = idx + 1
  /\ UNCHANGED <<tables, others, pc, cur, results, runningNodes, stopScheduling,
                 canceling, scanned>>

SkipNode ==
  /\ AtNode
  /\ ~Known(idx)
  /\ Blocked(idx) \/ (~Waiting(idx) /\ (stopScheduling \/ canceling))
  /\ SetNode(cur, idx, "skipped")
  /\ results' = [results EXCEPT ![idx] = "skipped"]
  /\ idx' = idx + 1
  /\ UNCHANGED <<jobStatus, assigned, deps, others, pc, cur, runningNodes,
                 stopScheduling, canceling, scanned>>

(* assign_to_agent finds an agent and the node is queued for it.  The node *)
(* joins running_nodes at the end of the pass, which the rest of the pass  *)
(* cannot tell from joining at once: it looks up later nodes only.         *)
QueueNode ==
  /\ AtNode /\ Ready(idx) /\ ~stopScheduling /\ ~canceling
  /\ SetNode(cur, idx, "queued")
  /\ assigned' = [assigned EXCEPT ![cur] = @ \cup {idx}]
  /\ runningNodes' = runningNodes \cup {idx}
  /\ idx' = idx + 1
  /\ UNCHANGED <<jobStatus, deps, others, pc, cur, results, stopScheduling,
                 canceling, scanned>>

(* No online agent matches the target. *)
RefuseNode ==
  /\ AtNode /\ Ready(idx) /\ ~stopScheduling /\ ~canceling
  /\ idx \in Targeted
  /\ SetNode(cur, idx, "failed")
  /\ results' = [results EXCEPT ![idx] = "failed"]
  /\ stopScheduling' = TRUE
  /\ idx' = idx + 1
  /\ UNCHANGED <<jobStatus, assigned, deps, others, pc, cur, runningNodes,
                 canceling, scanned>>

(* Mutant: the loop is left as soon as scheduling has stopped. *)
EndPass_LeavesEarly ==
  /\ pc = "pass" /\ idx = NumNodes + 1
  /\ pc' = IF runningNodes = {} \/ stopScheduling THEN "final" ELSE "wait"
  /\ UNCHANGED <<tables, others, cur, idx, results, runningNodes,
                 stopScheduling, canceling, scanned>>

EndPass ==
  /\ pc = "pass" /\ idx = NumNodes + 1
  /\ pc' = IF runningNodes = {} THEN "final" ELSE "wait"
  /\ UNCHANGED <<tables, others, cur, idx, results, runningNodes,
                 stopScheduling, canceling, scanned>>

(* wait_for_any_node_completion: one SELECT per running node, in any order. *)
ReadUnfinished ==
  /\ pc = "wait"
  /\ \E n \in runningNodes \ scanned :
       /\ nodeStatus[cur][n] \notin NodeReported
       /\ scanned' = scanned \cup {n}
  /\ UNCHANGED <<tables, others, pc, cur, idx, results, runningNodes,
                 stopScheduling, canceling>>

(* Mutant: the set of nodes read outlives the removal of one of them. *)
ReadFinished_KeepsScan ==
  /\ pc = "wait"
  /\ \E n \in runningNodes \ scanned :
       LET status == nodeStatus[cur][n] IN
       /\ status \in NodeReported
       /\ runningNodes' = runningNodes \ {n}
       /\ results' = [results EXCEPT ![n] = status]
       /\ stopScheduling' = (stopScheduling \/ status \in NodeUnsuccessful)
       /\ canceling' = (canceling \/ status = "canceled")
       /\ scanned' = scanned \cup {n}
  /\ pc' = "check"
  /\ UNCHANGED <<tables, others, cur, idx>>

ReadFinished ==
  /\ pc = "wait"
  /\ \E n \in runningNodes \ scanned :
       LET status == nodeStatus[cur][n] IN
       /\ status \in NodeReported
       /\ runningNodes' = runningNodes \ {n}
       /\ results' = [results EXCEPT ![n] = status]
       /\ stopScheduling' = (stopScheduling \/ status \in NodeUnsuccessful)
       /\ canceling' = (canceling \/ status = "canceled")
  /\ scanned' = {} /\ pc' = "check"
  /\ UNCHANGED <<tables, others, cur, idx>>

(* Mutant: after the first scan the nodes are not read again. *)
ReadCancelFlag_ScansOnce ==
  /\ pc = "wait" /\ scanned = runningNodes
  /\ LET cancel == jobStatus[cur] = "cancel_requested" IN
     /\ pc' = IF cancel THEN "check" ELSE "wait"
     /\ stopScheduling' = (stopScheduling \/ cancel)
     /\ canceling' = (canceling \/ cancel)
  /\ UNCHANGED <<tables, others, cur, idx, results, runningNodes, scanned>>

(* With every node read, the cancel flag.  When set, the caller receives a *)
(* completion of the node "", which adds nothing to its maps that the flag *)
(* canceling does not already say; otherwise the scan starts over.         *)
ReadCancelFlag ==
  /\ pc = "wait" /\ scanned = runningNodes
  /\ LET cancel == jobStatus[cur] = "cancel_requested" IN
     /\ pc' = IF cancel THEN "check" ELSE "wait"
     /\ stopScheduling' = (stopScheduling \/ cancel)
     /\ canceling' = (canceling \/ cancel)
  /\ scanned' = {}
  /\ UNCHANGED <<tables, others, cur, idx, results, runningNodes>>

(* determine_job_status *)
Ended(s) == \E n \in Nodes : results[n] = s
(* Mutants: the skipped and canceled nodes of a stopped run forgotten; the *)
(* priorities swapped.                                                     *)
Verdict_OnlyTimeouts == IF Ended("timed_out") THEN "timed_out" ELSE "success"
Verdict_FailedFirst ==
  IF Ended("failed") THEN "failed"
  ELSE IF Ended("timed_out") THEN "timed_out"
  ELSE IF canceling \/ Ended("canceled") THEN "canceled"
  ELSE "success"

Verdict ==
  IF Ended("timed_out") THEN "timed_out"
  ELSE IF Ended("failed") THEN "failed"
  ELSE IF canceling \/ Ended("canceled") THEN "canceled"
  ELSE "success"

(* finalize_job: the UPDATE, whatever the status is, and then the event. *)
FinalizeRun ==
  /\ pc = "final"
  /\ SetJob(cur, Verdict)
  /\ pc' = "record"
  /\ UNCHANGED <<nodeStatus, assigned, deps, others, cur, idx, results,
                 runningNodes, stopScheduling, canceling, scanned>>

RecordVerdict ==
  /\ pc = "record"
  /\ Locals("idle", 0)
  /\ UNCHANGED <<tables, others>>

(* Mutant: the error is logged and the run left as it is. *)
AbortRun_OnlyLogs ==
  /\ pc = "abort"
  /\ Locals("idle", 0)
  /\ UNCHANGED <<tables, others>>

(* fail_run_before_start, whatever ended execute_run with an error. *)
AbortRun ==
  /\ pc = "abort"
  /\ SetJob(cur, "failed")
  /\ Locals("idle", 0)
  /\ UNCHANGED <<nodeStatus, assigned, deps, others>>

Scheduler ==
  \/ IdleTick \/ PickRun
  \/ LoadDefinition \/ LoadFails \/ EnsureNode \/ EnsureFails \/ StartJob
  \/ CheckCancel \/ PassOver \/ SkipNode \/ QueueNode \/ RefuseNode \/ EndPass
  \/ ReadUnfinished \/ ReadFinished \/ ReadCancelFlag
  \/ FinalizeRun \/ RecordVerdict \/ AbortRun

-----------------------------------------------------------------------------
(* The workers.  A node without target goes to the local worker; a node    *)
(* with one to an agent, which may report any status the API admits.       *)

(* Mutant: the SELECT of pick_local_task without its status. *)
WorkerStart_AnyAssigned(r, n) ==
  /\ n \in assigned[r]
  /\ SetNode(r, n, "running")
  /\ executing' = executing \cup {<<r, n>>}
  /\ UNCHANGED <<jobStatus, assigned, deps, memory, cancelPending, faults>>

(* The worker looks at node_runs only: the status of the run plays no part. *)
WorkerStart(r, n) ==
  /\ nodeStatus[r][n] = "queued" /\ n \in assigned[r]
  /\ SetNode(r, n, "running")
  /\ executing' = executing \cup {<<r, n>>}
  /\ UNCHANGED <<jobStatus, assigned, deps, memory, cancelPending, faults>>

Outcomes(n) == IF n \in Targeted THEN NodeReported ELSE NodeReported \ {"canceled"}

(* The UPDATE names the id of the node run only. *)
WorkerFinish(r, n) ==
  /\ <<r, n>> \in executing
  /\ \E s \in Outcomes(n) : SetNode(r, n, s)
  /\ executing' = executing \ {<<r, n>>}
  /\ UNCHANGED <<jobStatus, assigned, deps, memory, cancelPending, faults>>

(* check_agent_heartbeats fails the nodes of an agent that went silent.    *)
AgentLost(r, n) ==
  /\ n \in Targeted \cap assigned[r]
  /\ nodeStatus[r][n] \in {"queued", "running"}
  /\ SetNode(r, n, "failed")
  /\ executing' = executing \ {<<r, n>>}
  /\ UNCHANGED <<jobStatus, assigned, deps, memory, cancelPending, faults>>

-----------------------------------------------------------------------------
(* Faults. *)

(* A database error ends execute_run.  Between FinalizeRun and             *)
(* RecordVerdict it strikes a run whose verdict is already written.        *)
SchedulerError ==
  /\ pc \notin {"idle", "abort"}
  /\ Fault("scheduler_db")
  /\ Locals("abort", cur)
  /\ UNCHANGED <<tables, executing, cancelPending>>

(* The error handler's own UPDATE fails: the run keeps its status. *)
AbortError ==
  /\ pc = "abort"
  /\ Fault("scheduler_db")
  /\ Locals("idle", 0)
  /\ UNCHANGED <<tables, executing, cancelPending>>

(* A worker ends without reporting: execute_local_task returns an error    *)
(* that is only logged, or an agent never receives the answer to its poll. *)
TaskLost(r, n) ==
  /\ <<r, n>> \in executing
  /\ Fault("task_lost")
  /\ executing' = executing \ {<<r, n>>}
  /\ UNCHANGED <<tables, memory, cancelPending>>

(* The server restarts: its tasks are gone, the tables and the agents stay. *)
Crash ==
  /\ Fault("crash")
  /\ Locals("idle", 0)
  /\ executing' = {t \in executing : t[2] \in Targeted}
  /\ cancelPending' = {}
  /\ UNCHANGED tables

(* poll_task, report_result and check_agent_heartbeats update a node run   *)
(* some time after reading it, without looking again: a node of an agent   *)
(* may be written after it has ended.                                      *)
RemoteOverwrite(r, n) ==
  /\ n \in Targeted \cap assigned[r]
  /\ nodeStatus[r][n] \in NodeReported
  /\ Fault("remote_race")
  /\ \E s \in NodeReported \cup {"running"} :
       /\ SetNode(r, n, s)
       /\ executing' = IF s = "running" THEN executing \cup {<<r, n>>} ELSE executing
  /\ UNCHANGED <<jobStatus, assigned, deps, memory, cancelPending>>

-----------------------------------------------------------------------------
Next ==
  \/ Scheduler
  \/ \E r \in Runs : CreateRun(r) \/ CancelRead(r) \/ CancelCommit(r)
  \/ \E r \in Runs, n \in Nodes :
       \/ WorkerStart(r, n) \/ WorkerFinish(r, n) \/ AgentLost(r, n)
       \/ TaskLost(r, n) \/ RemoteOverwrite(r, n)
  \/ SchedulerError \/ AbortError \/ Crash

Spec == Init /\ [][Next]_vars

(* The scheduler task and the local worker loop forever on a ticker, and   *)
(* run_process ends by its timeout.  Nothing is assumed of agents, nor of  *)
(* the users' requests.                                                    *)
Fairness ==
  /\ WF_vars(Scheduler)
  /\ \A r \in Runs, n \in Nodes \ Targeted :
       WF_vars(WorkerStart(r, n)) /\ WF_vars(WorkerFinish(r, n))

FairSpec == Spec /\ Fairness

-----------------------------------------------------------------------------
(* Properties. *)

(* The nodes a remote race may rewrite after they have ended. *)
Overwritable == IF "remote_race" \in FaultKinds THEN Targeted ELSE {}

Launched(r, n) == nodeStatus[r][n] \in {"queued", "running"} \cup NodeReported

(* A node is handed to a worker only after every node it depends on has    *)
(* succeeded, and they stay so: the scheduler decides on its memory of     *)
(* statuses read earlier, while workers, restarts and aborted attempts     *)
(* change the rows (runner.rs, the pass of execute_run).                   *)
DependencyOrder ==
  \A r \in Runs, n \in Nodes : Launched(r, n) =>
    \A m \in deps[r][n] \ Overwritable : nodeStatus[r][m] = "success"

(* A run recorded as success has had every node of its definition succeed, *)
(* through any crash, database error or cancellation on the way            *)
(* (determine_job_status, finalize_job).                                   *)
SuccessMeansAll ==
  \A r \in Runs : jobStatus[r] = "success" =>
    \A n \in Nodes \ Overwritable : nodeStatus[r][n] = "success"

(* Without faults, a run is given its final status when none of its nodes  *)
(* can still change: nothing is left behind in a queue or in a worker.     *)
SettledAtEnd ==
  faults = 0 => \A r \in Runs : jobStatus[r] \in JobTerminal =>
    \A n \in Nodes : nodeStatus[r][n] \notin {"pending", "queued", "running"}

(* Without faults, the final status is the gravest of the nodes' rows,     *)
(* though the scheduler computes it from its own map (determine_job_status *)
(* and policy 2-6): timed_out over failed over canceled.  A run that never *)
(* got as far as its nodes has failed.                                     *)
VerdictAgrees ==
  faults = 0 => \A r \in Runs :
    LET Some(s) == \E n \in Nodes : nodeStatus[r][n] = s IN
    /\ jobStatus[r] = "timed_out" => Some("timed_out")
    /\ jobStatus[r] = "failed" =>
         \/ ~Some("timed_out") /\ Some("failed")
         \/ \A n \in Nodes : nodeStatus[r][n] = NoRow
    /\ jobStatus[r] = "canceled" => ~Some("timed_out") /\ ~Some("failed")

(* Without faults, nodes of two runs are never in the hands of workers at  *)
(* the same time: the next run is picked only when the last is settled.    *)
OneRunAtATime ==
  faults = 0 => \A r \in Runs, n \in Nodes :
    nodeStatus[r][n] \in {"queued", "running"} => cur = r

(* A node that has ended never changes again, whatever the scheduler still *)
(* holds in memory and whatever workers still execute (policy 2-4: no      *)
(* transition out of a terminal state).                                    *)
NodeFinality ==
  [][\A r \in Runs : \A n \in Nodes \ Overwritable :
       nodeStatus[r][n] \in NodeTerminal => nodeStatus'[r][n] = nodeStatus[r][n]]_vars

(* Runs start in the order they were created, also when the scheduler      *)
(* restarts between picking a run and starting it.                         *)
NoOvertaking ==
  [][\A r \in Runs : jobStatus[r] = "queued" /\ jobStatus'[r] = "running"
       => \A q \in 1..(r-1) : jobStatus[q] # "queued"]_vars

(* Nodes in the hands of an agent, which may keep them for ever. *)
WithAgent(r) == \E n \in Targeted : nodeStatus[r][n] \in {"queued", "running"}

(* A run the scheduler has picked reaches a final status, unless an agent  *)
(* keeps one of its nodes: the scheduler never waits for a node that has   *)
(* ended, and a cancel request does not make it wait for ever.  (At        *)
(* "record" the status is written, and a late cancel may have replaced it.) *)
PickedRunsConclude ==
  \A r \in Runs :
    cur = r /\ pc # "record" ~> (jobStatus[r] \in JobTerminal \/ WithAgent(r))

(* A queued run does not stay queued, even when the scheduler's database   *)
(* accesses fail or the server restarts at any moment: no run is picked,   *)
(* dropped and picked again for ever, and none blocks those behind it.     *)
QueuedRunsLeave ==
  \A r \in Runs : jobStatus[r] = "queued" ~> jobStatus[r] # "queued"
=============================================================================
