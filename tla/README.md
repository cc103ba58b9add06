# Formal verification of postjen

postjen is a job server in Rust: a job is a DAG of nodes (processes), a run of it
is recorded in SQLite, a scheduler task hands its nodes to workers (one in the
server, others on remote agents that talk HTTP), and the workers write back how
each node ended. This directory holds TLA+ models of that program, the TLC
configurations that check them and proofs for the TLA+ proof system.

Paths are relative to the repository; `runner.rs`, `http.rs`, `scheduler.rs`,
`agent_worker.rs` and `agent_client.rs` are in `crates/postjen-server/src/`,
`definition.rs` and `executor.rs` in `crates/postjen-core/src/`; "policy" is
`docs/implementation-policy.md`.

## 1. Inventory

All state that outlives a request is in SQLite tables (`db/schema.sql`). The
tasks of the server share nothing else: each `await` of a query is a point where
any other task may run, and almost no sequence of queries is in a transaction.
That is the source of nearly everything that is hard here.

| component | state | operations | correct when |
|---|---|---|---|
| **Run scheduler** (`runner.rs` `process_next_run`, `execute_run`, `RunContext`) | `job_runs.status`, `node_runs.status`, `assigned_agent_id`; in memory `results`, `running_nodes`, `stop_scheduling`, `canceling` | pick the oldest queued run, load its definition, insert its nodes, walk the DAG, wait for nodes, write the verdict, fail the run on any error | dependencies first; verdict agrees with the nodes; ended nodes stay ended; one run at a time, in order; every picked run concludes |
| **Run handlers** (`http.rs` `start_run`, `rerun_run`, webhook, `cancel_run`) | `job_runs` | insert a queued run; request cancellation | a request is neither lost nor applied to a run that has ended |
| **Local worker** (`runner.rs` `pick_local_task`, `execute_local_task`) | `node_runs.status` | pick one queued node per second, execute it in a task of its own | nothing is executed twice; each node gets its outcome |
| **Remote agents** (`http.rs` agent API, `agent_worker.rs`, `agent_client.rs`) | `agents`, `node_runs.status`; in the agent the current task | register, delete, poll, report logs/result, heartbeat | executed once; the recorded result is what happened; a lost message does not stick a node |
| **Heartbeat monitor** (`runner.rs` `check_agent_heartbeats`) | `agents.status`, `node_runs.status` | mark silent agents offline, fail their nodes | no node waits for ever for a dead agent; no ended node is rewritten |
| **Definition loading** (`definition.rs`) | none | validate, order topologically, resolve defaults | every node once, after its dependencies; every cycle refused |
| **Process executor** (`executor.rs`) | child process, two pipe readers | run, poll, kill at the deadline, check outputs | ends soon after the deadline; outcome matches the exit |
| **Run logs** (`runner.rs`, `http.rs` `report_logs`, `get_run_logs`) | `run_logs` | append with the next sequence number, page by `after_sequence` | a paging reader sees each line once |
| **Event log** | `run_events` | one row beside most status changes | the events of a run are a path of its states |
| **Cron scheduler** (`scheduler.rs`) | `last_triggered_at` | queue a run when a scheduled time has passed | one run per due time, none lost, none twice |
| **Registration, parameters, webhook, rerun** (`http.rs`) | `job_definitions`, `params_json` | read the file, insert or update the row; resolve, validate | a run has the parameters its definition asks for |
| **Artifacts** (`runner.rs`, `executor.rs`, `http.rs`) | files, `run_artifacts` | check, copy, upload, list, download | a listed file that exists can be downloaded |
| **Secrets, read APIs, SSE, web UI, start-up** | `secrets` | I/O and single statements | not modelled (section 8) |

How they interact: handlers, cron and webhook insert `queued` runs; the scheduler
turns one run after the other into `node_runs`; workers and agents find `queued`
nodes assigned to them, set them `running` and write a terminal status; the
scheduler polls these rows. Cancellation is a status of the run the scheduler
polls as well. The monitor writes `failed` to nodes of agents that went silent.

Where it is hard: read-then-write without a transaction (cancel, poll, report,
monitor, assignment); decisions on memory built from rows read earlier; restarts
that lose the memory and keep the rows; errors in the middle of a run; lost HTTP
answers; waiting loops that must end. `PROJECT.json` lists each such hazard at
its line with the property that covers it, and with what the property does not cover.

## 2. Modules, and how they correspond to the code

| module | what it is | extends / instantiates |
|---|---|---|
| `RunTables` | the status vocabulary of `job_runs` and `node_runs` | |
| `TopologicalOrder` | how a definition is validated and ordered | |
| `TopologicalOrderProofs` | its theorems and proofs | `TopologicalOrder`, `TLAPS` |
| `RunScheduler` | runs, their scheduler, the workers as the scheduler sees them | `RunTables` |
| `RunSchedulerInv` | the inductive invariants of `RunScheduler` and its refinements | `RunScheduler`; `DagExecution`, `RemoteWorkers` |
| `RunSchedulerProofs` | its theorems and proofs, whatever fails | `RunSchedulerInv`, `TLAPS` |
| `FaultFreeProofs` | the theorems of runs in which nothing fails, and the order of runs | `RunSchedulerProofs` |
| `DagExecution` | abstract: what the server promises of a run, by the rows alone | `RunTables` |
| `AgentProtocol` | agents, the handlers they call, the heartbeat monitor | `RunTables` |
| `AgentProtocolInv` | the inductive invariant of `AgentProtocol` and its refinement | `AgentProtocol`; `RemoteWorkers` |
| `AgentProtocolProofs` | its theorems and proofs | `AgentProtocolInv`, `TLAPS` |
| `RemoteWorkers` | abstract: the life of a row of `node_runs` | `RunTables` |
| `Executor` | `run_process`: child, deadline, pipes | |
| `NodeTasks` | everything a local or remote worker does with one node: log, outputs, outcome, events | `Executor`, `RunTables`; `RemoteWorkers` |
| `NodeTasksProofs` | its theorems and proofs: outcomes, log, refinement | `NodeTasks`, `TLAPS` |
| `RecordsProofs` | the theorems of events and artifacts | `NodeTasksProofs` |
| `Triggers` | registration, clients, webhook, rerun, the cron loop | |
| `TriggersProofs` | its theorems and proofs | `Triggers`, `TLAPS` |
| `MCRunScheduler` | the documented claims, for TLC | `RunSchedulerInv` |
| `MCAgentProtocol` | symmetry, for TLC | `AgentProtocolInv` |
| `MCTopologicalOrder`, `MCExecutor`, `MCNodeTasks`, `MCTriggers` | the instances, for TLC | the module |

How they fit together. `TopologicalOrder` ends in a list of nodes `RunScheduler`
takes as given (`Definitions`: dependencies point backwards, every node once).
`Triggers` ends in the INSERT of a queued run, `CreateRun` of `RunScheduler`. The
detailed modules meet in the table `node_runs`, and `RemoteWorkers` is what they
agree on: the life of a row, from pending to its end. `RunScheduler`,
`AgentProtocol` and `NodeTasks` are each proved to implement it. What is `WorkerStart`,
`WorkerFinish`, `AgentLost` and `RemoteOverwrite` in `RunScheduler` is `Start`, `Finish`,
`Lose` and `Rewrite` there, and the theorem `WorkersAdmitted` is the way back: whatever
`RemoteWorkers` allows for a node that is with an agent is a step of
`RunScheduler`, given that the faults it stands for (`remote_race`, `task_lost`) are
among those that may happen and the bound is not used up. So `AgentProtocol` changes
a row in no way the scheduler was not checked and proved against. `RemoteOverwrite`, a fault of `RunScheduler`, is what the races
between agents and the monitor amount to there; `disturbed` is the set of nodes it
may strike: the remote ones with `remote_race` among the faults in `RunScheduler`, those
with a broken report or an agent cut off in `AgentProtocol`, no local one in
`NodeTasks`.
`NodeTasks` looks at the same nodes from within: `WorkerStart` is its
`MarkRunning`, `WorkerFinish` its `WriteOutcome`, `TaskLost` a worker that is
`lost` before it.

### TopologicalOrder

One step is one turn of a loop: `Collect` of the filter that finds the first
nodes, `Place` of `while let Some(..) = queue.pop_front()`, `CountOff` of the
inner `for` over `outgoing`. `indegree`, `queue` and `order` are the locals of
`topological_order` with the same names; `todo` is the rest of the inner loop.
A dependency is an entry of `depends_on`, not a pair of names: an entry that is
written twice counts twice in `indegree` and is counted off twice. The checks of
`validate` on single fields (version, empty strings, timeouts) are one boolean.

### RunScheduler

One step is one access to the database; between two of them any task may run.
The variable `pc` is where the scheduler task is inside `process_next_run`:

| `pc` | code | actions |
|---|---|---|
| `idle` | ticker, `SELECT ... status = 'queued' ORDER BY` | `IdleTick`, `PickRun` |
| `load` | `execute_run` reads the definition file | `LoadDefinition`, `LoadFails` |
| `ensure` | `ensure_nodes`, then `transition_job` to running | `EnsureNode`, `EnsureFails`, `StartJob` |
| `check` | `is_cancel_requested` at the head of the loop | `CheckCancel` |
| `pass` | the `for` over `definition.nodes` | `PassOver`, `SkipNode`, `QueueNode`, `RefuseNode`, `EndPass` |
| `wait` | `wait_for_any_node_completion`, one SELECT per node, then the flag | `ReadUnfinished`, `ReadFinished`, `ReadCancelFlag` |
| `final` | the UPDATE of `finalize_job` | `FinalizeRun` |
| `record` | its event | `RecordVerdict` |
| `abort` | `fail_run_before_start` | `AbortRun` |

`results`, `runningNodes`, `stopScheduling` and `canceling` are the locals of
`execute_run` with the same names; `scanned` is the position of the scan in
`wait_for_any_node_completion`. `CreateRun` is every INSERT of a queued run.
`cancel_run` is two actions, its SELECT and its UPDATE, because other tasks run
in between; `cancelPending` is what it has read. `WorkerStart` and `WorkerFinish`
are `pick_local_task` with `execute_local_task` for nodes without target and an
agent's poll and report for the others.

Faults: `scheduler_db` (any query of the scheduler fails, that of the error
handler included), `task_lost` (a worker ends without writing an outcome),
`crash` (the server restarts and loses everything but the tables and the agents),
`remote_race` (a row of a remote node is written after the node ended).

### DagExecution

No scheduler and no memory: a node is queued, refused, skipped or ended only for
a reason the rows show, a run ends only when its nodes have, with the gravest of
their statuses. The mapping is the identity on `jobStatus`, `nodeStatus` and
`deps`; everything else of `RunScheduler` is hidden.

### AgentProtocol

An agent has two loops, and the request each is waiting for has a handler at the
server. `worker[a].phase` is the position of `poll_loop` and of its handler:

| phase | code |
|---|---|
| `rest` | between two polls |
| `choosing`, `marking`, `answered` | in `poll_task`: authenticated; task selected; task marked running |
| `executing` | `execute_task` runs the process and checks the outputs |
| `reporting` | the result is about to be sent |
| `writing`, `written` | in `report_result`: request admitted; row written |

When a report fails, `execute_task` returns an error and `poll_loop` reports the
task once more, as failed, and ignores what comes of it: `GiveUp`, with the flag
`retry`. `beating` holds the heartbeat handlers between authentication and
UPDATE. `monitor` and `victims` are the position of `check_agent_heartbeats` and
the rows it has selected. `chosen` is the scheduler between the SELECT of
`assign_to_agent` and the UPDATE to queued. `executions`, `actual`, `lost` and
`silenced` are history variables: no code has them, and nothing reads them but
the properties and the refinement mapping.

Faults: `poll_lost`, `report_lost` (the connection breaks before, inside or after
the handler), `silent` (a live agent is not heard for a minute), `delete` (a user
deletes an agent), `agent_crash`, `restart` (of the server).

### Executor and NodeTasks

`Executor` is one call of `run_process` for each task: `Spawn`; then, in each turn
of the loop, one look at the child: the deadline first (`Kill`, `TooLate`), then its
exit (`TryWait`), or else `Sleep` and `Wake`, an interval later; and `Drain`, the end
of both pipe readers. `WaitFails` is a look at which the system does not tell what has
become of the child: the `Err` arm of `try_wait`, or errors of `kill` and `wait` at the
deadline, which the code ignores; nobody knows then whether the child is gone. The child
closes its pipes or exits, and a process it has left behind lets go of the pipes,
when they like (`ClosesPipes`, `ChildExits`, `Release`: no steps of the program), also
while the call sleeps. `age` counts the intervals that are over, `quit` those that
were over when the child exited, and `blind` says that its end was not learned: the
last two are history.

`NodeTasks` has the whole way of a node from `queued` to the end. `work[t]` is
the worker of the task, local or remote:

| `at` | local (`runner.rs`) | remote (`http.rs`, `agent_worker.rs`) | actions |
|---|---|---|---|
| `idle`, `loading`, `picked`, `marked` | `pick_local_task` | `poll_task`, which reads the definition first | `Pick`, `LoadOutputs`, `MarkRunning`, `RecordPicked` |
| `loading`, `running` | `execute_local_task` up to `run_process` | `execute_task` | `LoadOutputs`, `Call`, `Return` |
| `numbering`, `storing` | the log | `report_logs` | `ReadSequence`, `StoreLine`, `LogStored` |
| `checking`, `inserting`, `uploading` | `check_outputs` and the copy, then the row of the artifact | `check_outputs`, `upload_artifact` | `CheckLocally`, `InsertArtifact`, `CheckRemotely`, `NothingToCheck`, `Upload` |
| `reporting`, `recording`, `listing` | UPDATE, event | `report_result`: UPDATE, event, artifacts | `WriteOutcome`, `RecordOutcome`, `ListArtifacts` |
| `lost` | the spawned task has ended with an error | nobody knows of the task | `DatabaseError` |

`ReadPage` is `get_run_logs` called by a client with `after_sequence`. Faults:
`database` (any query fails; an agent then reports `failed` once, `retry`),
`definition` (the file cannot be read again, so the node has no outputs), `copy` (of a
file), `grandchild` (a process keeps the pipes open), `wait` (`WaitFails`). `hits` is a history of them.

### Triggers

| code | actions |
|---|---|
| `register_job` | `Register`, `LoadForRow`, `Upsert` |
| `start_run`, `webhook_trigger` | `Start`, `LoadForRun`, `Insert` |
| `rerun_run` | `Rerun`, `InsertRerun` |
| `check_cron_triggers` | `Select`, `ReadClock`, then for each job `PassOver`, or `LoadForCron` and `Fire`; `EndRound`; an error is `RoundFails` |

`request` is the handler that is running and what it has read, `round` the cron
loop with the rows it has selected. The file of a job is in `file` and may change
at any moment (`Edit`). Time is counted in half seconds and a cron expression is
the set `Due` of its times: enough for what `last_triggered_at` loses when it is
written in whole seconds (`Seconds`). A run remembers the version of the file it
was decided on, and a cron run its scheduled time: history.

### Abstractions and assumptions

- In `RunScheduler` nodes are positions in `definition.nodes`, and dependencies point
  backwards: what `TopologicalOrder` is shown to deliver (section 6). Every definition
  over `NumNodes` nodes that has this form is explored, and a run may load a
  different one on every attempt, but of the same size and with the same remote nodes.
- `created_at, id` order is the order of run ids.
- A node with a `target` may also be assigned to the built-in agent of the server.
  Its steps are then those of the local worker, fewer than `Targeted` allows.
- Labels are not modelled: the scheduler may choose any online agent and may refuse
  a remote node at any time (`RunScheduler`), or only when none is online
  (`AgentProtocol`).
- A node that has been queued joins `runningNodes` at once, and not at the end of
  the pass as in the code: the rest of the pass looks at later nodes only, which
  are not in the set either way.
- A cancel request seen by `wait_for_any_node_completion` returns a completion of a
  node named `""`. It adds to `results` an entry no node looks up, and its status
  `canceled` acts on the verdict exactly as the flag `canceling` does.
- Authentication and the other reads at the head of `report_result` are one step.
  A handler is not overtaken by the next request of the same agent: an agent waits
  for an answer before it sends again, and a broken connection drops the handler.
- An agent that restarts registers again and has a new id, which is the code's
  behaviour; the old registration goes stale.
- Sleeps, tickers and the sizes of the connection pool are not modelled: a step may
  take any time. Times appear only as `stale`.
- `Executor` and `NodeTasks`: the callback `is_canceled`, which every
  caller passes as `|| false`, is left out. An interval is one sleep, and the deadline
  is reached after a whole number of them. A process writes the lines of
  `LinesOf` once it lets go of its pipes: one line stands for a stream, which the code stores as
  a single row. The scheduler's own event, of the change to
  queued, is left out; so is cancellation, which no worker looks at. What a restart
  does to a local worker is what an error at the same place does: it is `lost`.
  Each remote task has an agent of its own; several tasks of one agent,
  and agents that go away, are in `AgentProtocol`.
- `Triggers`: one parameter of each kind stands for the list. One client request is
  under way at a time, as no handler looks at what another is about to write; the
  cron loop runs beside it. Job ids in a round are taken in any order.

## 3. What the runs check

Passing runs:

| run | instance | properties | what it shows |
|---|---|---|---|
| `run_dag` | 3 nodes, 1 run, node 2 remote, no faults, fair | `SettledAtEnd`, `VerdictAgrees`, `ImplementsDag`, `PickedRunsConclude` | every DAG of three nodes, with every outcome and a cancellation at any moment, executes as `DagExecution` promises and comes to an end |
| `run_queue` | 1 node, 2 runs, 2 faults of the scheduler's database or restarts, fair | `OneRunAtATime`, `QuietInv`, `NoOvertaking`, `QueuedRunsLeave` | runs are taken in order, one at a time, and the queue moves through errors and restarts; the invariant of the fault-free proofs |
| `run_faults` | 3 nodes, 1 run, node 2 remote, 2 faults of all kinds | `IInv`, `DependencyOrder`, `SuccessMeansAll`, `NodeFinality`, `ImplementsWorkers` | safety survives errors, lost tasks, restarts and remote races, and every row lives as `RemoteWorkers` allows; the invariant the proofs use |
| `agent_tables` | 2 agents, 2 tasks, 2 of: broken report, agent crash; fair | `AbandonedNodesEnd`, `OutcomeRecorded`, `LostReportAbsorbed` | the nodes of a dead agent end, the queued ones included; an outcome is recorded unless its report broke; one broken report leaves no node running |
| `agent_faults` | 2 agents, 2 tasks, 2 faults of all kinds, symmetry | `IInv`, `ExecutedOnce`, `OutcomeHonest`, `ImplementsWorkers` | with everything that can go wrong no task is executed twice, no row claims an outcome nobody saw, and an ended row is rewritten only if a report broke or its agent was cut off while alive |
| `topological_order` | every list of up to 3 nodes over 3 names, up to 2 dependencies each; fair | `IInv`, `TypeOK`, `DependenciesEarlier`, `EveryNodeOnce`, `CyclesRefused`, `Terminates` | duplicated, unknown and own dependencies included, the order is sound and complete, exactly the cyclic lists are refused, and no counter goes below zero |
| `executor` | 2 calls, one child that writes to both streams and one that is silent; deadline 3 | `OutcomesTrue` | an outcome says what became of the child in its time; a timeout is nothing that was over at the last look before the deadline; nobody is left running unless asking for its exit failed |
| `node_tasks` | a local task that writes to both streams and a remote one, each with a required output; deadline 1, pages of 1, 1 fault; fair | `IInv`, `OutcomeTrue`, `SkipsOnlyTwins`, `LogsBeforeOutcome`, `EventsTell`, `ArtifactsAgree`, `RecordsInv`, `RunningEnds`, `ImplementsWorkers` | row, log, events and artifacts agree about each node, at every interleaving and with an error anywhere; a paging reader misses only twins; a running node ends unless a named cause keeps it; rows change as `RemoteWorkers` allows |
| `triggers` | 2 jobs, 4 versions of a file, times 2 and 4 of 5, one request, edit and fault each; fair | `IInv`, `CronOnce`, `RequestsValidated`, `DueTimesServed` | a scheduled time gives at most one run and is made up for; clients' runs carry their parameters |

`TypeOK` is the first conjunct of each `IInv`. Deadlock is checked in `RunScheduler`, `AgentProtocol` and `Triggers`: the idle
scheduler, the quiet monitor and the cron loop still tick, so a state without a
step would be a task stuck for ever. `TopologicalOrder` is a function that
returns, and in `Executor` and `NodeTasks` all work may be done: there it is not. Symmetry is used in
`agent_faults` only, which checks no liveness; agents and tasks are
interchangeable in every definition.

Why the bounds are enough. Three nodes give all the shapes that matter to the
pass: chains, forks, joins and independent nodes, with a node that is blocked
behind a failure, one skipped by it and one still running. Two runs let one wait
behind another in every state of it; three runs of one node (256 000 states) and
two runs of two nodes (748 000) hold as well but add no behaviour. A definition with more than
one remote node only lets more of the same steps happen. Two faults let a restart
follow an error, and two restarts strike the same run; that more faults change
nothing for safety, nor more nodes, runs, agents and tasks, is what the proofs say. Two agents and two
tasks let an agent hold one task while another is queued for it, or lost with it,
and let the monitor fail nodes of two agents in one round. Three nodes with two
dependencies each have cycles of every length up to three, beside duplicates. A
local and a remote task with three lines between them let both read
the same last number, so that numbers are shared, and pages of one line end between twins.
Three looks before the deadline let a child exit before the last of them, in the last
interval and after it; the calls share nothing, so two show that one does not disturb
the other. In `node_tasks` one look is enough, as what follows depends on the outcome only.
One fault in `node_tasks` strikes at every place, but a second one, of the report
that follows the first, is beyond the bound: `Abandoned` names it. Two faults are more
than five minutes of TLC (over 2 600 000 states): safety with any number of them is what the
theorems of `NodeTasksProofs` and `RecordsProofs` say, `RunningEnds` is checked with one. In `triggers` two scheduled times, with one
before, at and after the clock of a round, and a second job let a round meet
every combination of passed, broken and disabled; one request, edit and fault fall
between any two of its steps.

The bounds are `NumNodes`, `MaxRuns`, `MaxFaults` of `RunScheduler`; `Agents`,
`Tasks`, `MaxFaults` of `AgentProtocol`; `MaxNodes` and `MaxDeps` of
`MCTopologicalOrder`; `Tasks`, `Deadline` of `Executor`, with `PageSize` and `MaxFaults` of `NodeTasks`;
`MaxTime`, `MaxRequests`, `MaxEdits`, `MaxFaults` of `Triggers`. No other counter
needs one.

## 4. Fairness

`FairSpec` of `RunScheduler`: weak fairness of the scheduler task, whose loop runs
on a ticker and whose error handler continues; of the local worker picking a
queued node, on a ticker as well; of the end of a local process, because
`run_process` kills it at its deadline. The last assumes that the pipes of the process close, which
a grandchild may prevent (`executor.rs:83`; listed as a hazard). Nothing is assumed of
remote agents, hence the escape `WithAgent` in `PickedRunsConclude`, nor of users.

`FairSpec` of `AgentProtocol`: weak fairness of the monitor, of each agent's poll
loop with its handlers, of heartbeat handlers, and of time passing for an agent
that is gone. Nothing is assumed of registrations, assignments, the sending of
heartbeats or users, and no fault is ever obliged to happen.

`FairSpec` of `TopologicalOrder`: weak fairness of the loop, a function that runs
by itself. Of `NodeTasks`: weak fairness of `Work(t)` for each task, a spawned
task of the server or the poll loop of an agent. Nothing is assumed of the child,
which the deadline ends, nor of a grandchild, which nothing ends: that is the
escape `HeldUp` of `RunningEnds`, which has a second cause: a child that runs on
because its exit could not be asked for, and keeps its own pipes open. The other escape, `Abandoned`, names the
errors nobody repeats. `Triggers`: weak fairness of the cron loop (a ticker whose
errors are logged) and of the clock. Nothing is assumed of clients or editors.

## 5. Where the program and its documentation disagree

Three runs check a sentence of the documentation and find a behaviour of the code
against it.

| run | sentence | what happens |
|---|---|---|
| `claim_finality` | policy:490, no transition out of a terminal status of a run | `cancel_run` writes by id after reading; a run that ended meanwhile is `cancel_requested` for ever |
| `claim_queued_cancel` | policy:623, a cancellation arrives at `canceled` | a run canceled while queued is in no query of the scheduler any more |
| `claim_running` | policy:432, a running run has a node executing or being scheduled | after a restart nobody takes up the run |

Seen on the way and without a run of their own, each following from steps
the models contain:

- of starting nodes: a node queued in the same pass as the one that fails is started
  by `pick_local_task` (usage.md:229 says none is after a failure), and so it is after a
  cancellation (policy:544);
- of node status: when the answer to a report of success is lost, the retry writes `failed`
  over it (policy:478 says an ended node does not change); a
  pending node goes to `failed` directly when no agent matches (policy:457 lists no
  such transition);
- of agents: a restart between the monitor's two statements leaves the nodes of an
  agent declared offline as they are (usage.md:634 says those that run fail; with
  `restart` among the fault kinds of `AgentTables.cfg` TLC refutes
  `AbandonedNodesEnd`); a node assigned
  between the scheduler's SELECT and UPDATE to an agent that goes offline in
  between stays queued until another agent goes offline; the nodes of a deleted
  agent stay as they are; a node whose poll answer is lost stays running as long as
  its agent is alive;
- of the local worker: a task that ends with an error leaves its node running, and
  the scheduler waits for it and picks no other run;
- of outputs: when the definition cannot be loaded again at execution, required
  outputs go unchecked and the node is a success (usage.md:578, 628): `OutcomeTrue`
  says that this is the only way to it;
- of parameters: the cron loop and `rerun_run` insert runs without any, so that neither
  takes a default (usage.md:218) nor a rerun the values of the run it repeats;
- of processes: `run_process` looks at the deadline before the exit, so a process that
  exits with zero in the last interval is `timed_out`; and when `try_wait` fails the child
  is left running behind a node that is `failed`, and the call waits for its pipes
  beyond the timeout;
- of events: the monitor and `fail_run_before_start` write a fixed `from_status`,
  which need not be the one the row had (policy:1203);
- of triggers: a webhook accepts parameters the definition does not have
  (usage.md:217 has them refused), a job disabled between a handler's or a round's read and
  its INSERT is still started (usage.md:394), `rerun_run` does not look whether the job is
  enabled, and `trigger_type` of `start_run` is any text. A job that was never
  triggered loses a scheduled time when two rounds are over 60 seconds apart, and
  its first run may be for a time before it was registered.

## 6. Proofs

| module | theorem | statement | meaning |
|---|---|---|---|
| `RunSchedulerProofs` | `Invariance` | `Spec => []IInv` | the inductive invariant |
| | `TypeCorrectness` | `Spec => []TypeOK` | every status written is one the CHECK constraints admit |
| | `DependenciesFirst` | `Spec => []DependencyOrder` | a node in a worker's hands has all its dependencies succeeded, for good |
| | `SuccessIsComplete` | `Spec => []SuccessMeansAll` | a run recorded as success has had every node succeed |
| | `EndedNodesStay` | `Spec => NodeFinality` | an ended node does not change |
| | `SchedulerImplementsWorkers` | `Spec => ImplementsWorkers` | a row lives as `RemoteWorkers` allows, whatever fails |
| | `WorkersAdmitted` | see the module | what `RemoteWorkers` allows for a remote node is a step of `RunScheduler` |
| `FaultFreeProofs` | `QuietInvariance` | `Spec => []QuietInv` | the second inductive invariant |
| | `StartsInOrder` | `Spec => NoOvertaking` | runs start in the order they were created, whatever fails |
| | `NothingLeftBehind` | `Spec => []SettledAtEnd` | without faults, no node is left behind by a verdict |
| | `VerdictsAreTrue` | `Spec => []VerdictAgrees` | without faults, the verdict is the gravest of the rows |
| | `OneAtATime` | `Spec => []OneRunAtATime` | without faults, one run is worked on at a time |
| | `SchedulerImplementsDag` | `Spec /\ [](faults = 0) => ImplementsDag` | without faults, runs execute as `DagExecution` promises |
| `AgentProtocolProofs` | `ProtocolInvariance` | `Spec => []IInv` | the inductive invariant |
| | `ProtocolTypes` | `Spec => []TypeOK` | types |
| | `AtMostOnce` | `Spec => []ExecutedOnce` | no task is executed twice |
| | `RowsAreHonest` | `Spec => []OutcomeHonest` | no row claims an outcome other than `failed` that did not happen |
| | `ProtocolImplementsWorkers` | `Spec => ImplementsWorkers` | agents, handlers and monitor change rows as `RemoteWorkers` allows |
| `TopologicalOrderProofs` | `OrderInvariance` | `Spec => []IInv` | the inductive invariant |
| | `OrderTypes` | `Spec => []TypeOK` | no counter falls below zero |
| | `OrderSound` | `Spec => []DependenciesEarlier` | dependencies are placed first |
| | `OrderComplete` | `Spec => []EveryNodeOnce` | an accepted list keeps every node, once |
| | `CyclesExact` | `Spec => []CyclesRefused` | exactly the lists whose nodes wait for each other are refused |
| `NodeTasksProofs` | `TaskInvariance` | `Spec => []IInv` | the inductive invariant |
| | `TaskTypes` | `Spec => []TypeOK` | types |
| | `OutcomesAreTrue` | `Spec => []OutcomesTrue` | success, failure and timeout say what became of the child in its time, and nobody runs on behind an outcome unless asking for its exit failed |
| | `RowsAreTrue` | `Spec => []OutcomeTrue` | a row tells what became of process and output; a success lacks a required output only if the definition could not be loaded |
| | `LogComesFirst` | `Spec => []LogsBeforeOutcome` | the log is complete before the row is final |
| | `OnlyTwinsSkipped` | `Spec => []SkipsOnlyTwins` | a paging reader misses only twins |
| | `TasksImplementWorkers` | `Spec => ImplementsWorkers` | rows change as `RemoteWorkers` allows; a local outcome is final |
| `RecordsProofs` | `RecordsInvariance` | `Spec => []RecordsInv` | the inductive invariant of events and artifacts |
| | `EventsAreTold` | `Spec => []EventsTell` | the events of a node tell what happened to its row |
| | `ArtifactsAreListed` | `Spec => []ArtifactsAgree` | what was found is listed; what is listed as existing is stored, failed copies aside |
| `TriggersProofs` | `TriggerInvariance` | `Spec => []IInv` | the inductive invariant |
| | `TriggerTypes` | `Spec => []TypeOK` | types |
| | `ScheduledOnce` | `Spec => []CronOnce` | a scheduled time gives at most one run |
| | `ValidatedRuns` | `Spec => []RequestsValidated` | clients' runs carry what their definition asks for |

Each holds for all values of the constants that satisfy the module's named
assumptions, which say no more than that node lists are lists, remote nodes are nodes, bounds are
numbers, a deadline is positive and scheduled times are whole seconds.

**RunScheduler.** `DependenciesFirst`, `SuccessIsComplete` and `EndedNodesStay` speak of all nodes when `remote_race` is
not among the fault kinds and of the local nodes (`Overwritable`) when it is: the
retry of a lost report (section 5) is why no more can hold.
The scheduler decides on its maps and never looks at the row it
writes, so the three properties need what ties the maps to the rows:
`MemoryAgrees` (in the loop, a known result is the row's status, a node waited for
has been launched, and one not known is pending) and `Apart`. That holds at the
entry of the loop because of `Unstarted` and `Prepared`: a run that is queued has
at most pending rows, also after an aborted attempt. `WorkersAgree` says that
only rows `running` are in a worker's hands, races included, which is why a worker
never writes to an ended one. `DependencyOrder` is inductive with these, given that the definition
of a run is loaded only while no node of it was launched. `SuccessMeansAll` needs
three more: `StopIsRecorded` (scheduling stops, and nodes are skipped, only for
something that keeps the verdict from success), `PassProgress` (in a list ordered
by dependencies a pass leaves a node unresolved only behind a running one, so the
loop is left with every node resolved) and `CurrentRun` (a run in the loop is not
queued, so no later attempt finds it). The lemma `NodeMoves` says once what any
step does to any row; most preservation lemmas rest on it. The refinement of
`RemoteWorkers` needs no more than this: that what the scheduler does not know is
pending, and that what is executed is running.

**FaultFree.** `QueueOrder` needs no absence of faults: runs exist from the first
on, and while the scheduler prepares a run nothing older is queued, since nothing
ever returns to the queue; `StartJob` checks the status again, so that
`NoOvertaking` follows. The three properties that do speak of runs without faults
are none of them inductive. `FaultFree` adds what the scheduler's turns leave
behind: every run it does not have is at rest (`AtRest`: without rows, or with all of
them ended), the rows of its own run are as far as it has come, and its map is
true of remote nodes as well, which `MemoryAgrees` cannot say because of the races.
The verdict is the delicate step: at `final` every node is known (`PassProgress`),
so `VerdictOfRows` reads it off the rows, and `canceling` must come from a
request or from a node that was canceled. A later request may replace the verdict
(section 5), hence `cancel_requested` in `AtRest`. `SchedulerImplementsDag` assumes
`[](faults = 0)`, the behaviours of `run_dag`, whose `MaxFaults` is 0: with a fault
the error handler ends a run whose nodes go on, and `DagExecution` rightly has no such step.

**AgentProtocol.** `WorkerFits` goes through the positions of an agent, as the row
may have changed under it at each: between the SELECT and the UPDATE of `poll_task`
the monitor may have failed the row, so `marking` allows queued and failed, and so
on. What makes `ExecutedOnce` hold is `AssignedOnce` (an agent is chosen only while
the node is pending, and only one `QueueNode` finds it so) with the fact that a task that is
being executed never shows queued again. `VictimsFit` says why the monitor's
UPDATE by id is no worse than `disturbed` allows: it fails only nodes of agents that
are gone or were taken for gone (`Unheard`), and one that ended after the monitor's SELECT
was ended by an agent that came back. `Disturbed` only grows, so that the retry of a
report (`GiveUp`) and the monitor rewrite an ended row only where `Rewrite` may. The
executing nodes of `RemoteWorkers` are a state function, `Executing`: running nodes whose agent
still holds them.

**TopologicalOrder.** The invariant says what the counters mean: `indegree` of a
node is the number of its entries in `depends_on` that are not yet counted off
(`Counted`), and a node is queued or placed exactly when there are none
(`ReachedWhenResolved`), and once (`Once`). Soundness follows since an entry is
counted off only after its source was placed. Completeness: what is never reached
when the loop ends depends each on something never reached, a set that is `Stuck`;
and `StuckUnreached` is the converse. The theorems discharge what `RunScheduler`
assumes of `Definitions`.

**NodeTasks.** `CallFits` says how far each call of `run_process` has come, and
carries `OutcomesTrue`: a call that watches has seen its child alive at every earlier
look, so a child that has exited by then did so in the interval just over
(`quit >= age - 1`), and one that sleeps in the interval under way; at the deadline
this is what a timeout is allowed to hide. `Fits` says besides that a child is given
up without knowing of its end (`blind`) only by a call that is over its loop.
`TaskFits` ties each position of a worker to what it knows: from
`numbering` on the process has ended, and from `uploading` on the report is one
that process and outputs account for (`Accounts`), so that whatever
`WriteOutcome` puts in the row is true; a retry reports `failed` and some fault
has struck. `LogFits` counts what is stored: the lines not in `left` are in the
log, and all of them from `checking` on unless the report is a retry. `NumbersFit` is
why a reader misses only twins: although two tasks may use the same number, all
numbers up to the last are used without a gap (a task goes on from a number that
exists), a task's own lines lie at or below its `next`, and the reader has a line
for every number behind it. Every action but those of the log leaves the numbers
alone (`NumbersStay`), and a step of one worker leaves the other tasks alone
(`Others`), so that the lemmas `WorkerStep` and `ProcessStep` reduce each action to its
own task. `OutputsKnown` is a second invariant, inductive together with the first: once a process
is started its worker knows what the definition declares or has failed to load it;
with it `OutcomeTrue` speaks of the definition and not of what the worker knows. The refinement needs in addition what the row shows at each position of the worker
(`RowFits`): then the three actions that write a row are `Queue`, `Start` and
`Finish` of `RemoteWorkers`, or `Rewrite` when a remote task's failure is reported after its
outcome was written, and every other step leaves the rows alone (`QuietStep`).

**Records.** `EventFits` and `ArtifactFits` say how far log of events and artifact
rows are at each position of the worker. The first event is written only after the
UPDATE of the poll, so a node that is further than that has it; the event of an
outcome is appended to a row that already shows it (`recording`), and a retry may
append a second, for which reason the count is fixed only without one. A row that
says a file exists is written only for one that was found (`made`): by the server
when it checks the outputs, for an agent with the upload and again with its report,
which is why the last conjunct has two cases.

**Triggers.** `CronOnce` needs what the rows say of the past: every cron run of a
job was created at a time whose whole second is not above `last_triggered_at`
(`RowsTell`). A later run is for a time strictly after it; scheduled times are whole seconds
(`WholeSeconds`), so it comes after the creation itself, fraction included
(`DueLater`). The round works on rows it selected earlier: `RoundKnows` says that
the `last` of a job still to be visited is the row's, since only the round itself writes
it and `register_job` leaves it alone.

What stays with TLC. Every safety property and every refinement a passing run
checks is proved. Liveness is not: `PickedRunsConclude`, `QueuedRunsLeave`,
`AbandonedNodesEnd`, `OutcomeRecorded`, `LostReportAbsorbed`, `Terminates`, `RunningEnds`
and `DueTimesServed` need fairness and ENABLED, which are beyond the proof system.
The three claims of section 5 are false and have counterexamples instead. Induction over data
and RECURSIVE operators are out of reach as well; the modules have none, and no
theorem needed one: the walk over a list is a sequence of steps, not a function.

## 7. Plan

Done so far: runs and their scheduler, agents, definition order, executor and node
tasks with logs, outputs and events, triggers, and the proofs of all their safety
properties. What comes next, in this order:

1. The events of the scheduler, the monitor and `cancel_run`, and the event of a
   run, with the theorem that the events of a run are a path of its states.
2. Safety under faults beyond what is stated: which runs a restart leaves
   `running`, and that nothing but a restart or an error of the handler does.

## 8. Not modelled, and why

- Secrets (`http.rs`, `runner.rs`): values encrypted with AES-GCM and single-statement
  handlers; there is no state machine. A secret that cannot be resolved is one more
  cause of `SchedulerError`.
- The read APIs, the SSE stream, the download of artifacts and the web UI are pure
  reads; `stream_run` sends the row every second and keeps nothing.
- Configuration, command line, start-up and the database connection: I/O, once.
- Text: messages, formats, labels, environment variables, encodings of ids and tokens.
- `run_events` are modelled as far as workers and reports write them.
