------------------------------ MODULE NodeTasks ------------------------------
(***************************************************************************)
(* What happens to independent nodes of one run once they are queued: each *)
(* is picked by the local worker or polled by an agent, executed, its log  *)
(* lines numbered and stored, its outputs checked and its outcome written, *)
(* with an event beside each change, while somebody pages through the log. *)
(* Every step is one access to the database or to the files, and the tasks *)
(* take theirs in any order.  Each remote task has an agent of its own.    *)
(***************************************************************************)
EXTENDS Executor, Sequences, FiniteSets, RunTables

CONSTANTS
  Remote,       \* the tasks agents execute; the others are the server's own
  Declared,     \* whether the definition gives each node an output
  PageSize,     \* the `limit` of a page of the log
  MaxFaults     \* bound: how many faults happen

ASSUME TasksAssumption ==
  /\ Remote \subseteq Tasks
  /\ Declared \in [Tasks -> {"none", "optional", "required"}]
  /\ PageSize \in Nat \ {0}
  /\ MaxFaults \in Nat

VARIABLES
  nodeStatus,   \* node_runs.status
  events,       \* run_events of each node: from and to, in order
  logs,         \* run_logs
  artifacts,    \* run_artifacts: the task, who listed it, exists_flag
  stored,       \* the tasks whose output is in the artifacts directory
  work,         \* what the worker of each task does next, and knows
  after,        \* the log reader's after_sequence
  seen,         \* the lines it has been given
  hits          \* history: how many faults of each kind each task has suffered

tables == <<nodeStatus, events, logs, artifacts, stored>>
reader == <<after, seen>>
vars   == <<proc, tables, work, reader, hits>>

Local == Tasks \ Remote

Faults == {"database", "definition", "grandchild", "wait", "copy"}

(* loading, picked, marked: pick_local_task, or poll_task, which loads the *)
(* outputs first.  numbering, storing: the log.  reporting, recording: the *)
(* outcome and its event.  listing: what report_result does last.          *)
Positions == {"idle", "loading", "picked", "marked", "running", "numbering", "storing",
              "checking", "inserting", "uploading", "reporting", "recording", "listing", "done",
              "lost"}

Idle == [at |-> "idle",
         known |-> "none",      \* the outputs the worker knows of
         made |-> FALSE,        \* whether its check found them
         next |-> 0,            \* the last sequence number it has read or used
         left |-> {},           \* the lines it still has to store
         report |-> "none",     \* the outcome it will write
         retry |-> FALSE]       \* whether poll_loop is reporting the error

Worker ==
  [at : Positions, known : {"none", "optional", "required"}, made : BOOLEAN, next : Nat,
   left : SUBSET Streams, report : NodeReported \cup {"none"}, retry : BOOLEAN]
Line   == [task : Tasks, stream : Streams, seq : Nat \ {0}]
Listed == [task : Tasks, by : {"check", "upload"}, exists : BOOLEAN]

TypeOK ==
  /\ ProcTypeOK
  /\ nodeStatus \in [Tasks -> NodeStatuses]
  /\ events \in [Tasks -> Seq(NodeStatuses \X NodeStatuses)]
  /\ logs \subseteq Line
  /\ artifacts \subseteq Listed
  /\ stored \subseteq Tasks
  /\ work \in [Tasks -> Worker]
  /\ after \in Nat /\ seen \subseteq logs
  /\ hits \in [Tasks -> [Faults -> Nat]]

Init ==
  /\ ProcInit
  /\ nodeStatus = [t \in Tasks |-> "pending"]
  /\ events = [t \in Tasks |-> <<>>]
  /\ logs = {} /\ artifacts = {} /\ stored = {}
  /\ work = [t \in Tasks |-> Idle]
  /\ after = 0 /\ seen = {}
  /\ hits = [t \in Tasks |-> [k \in Faults |-> 0]]

-----------------------------------------------------------------------------
Suffered(k)   == {t \in Tasks : hits[t][k] > 0}
FaultsSoFar   == Cardinality({x \in Tasks \X Faults \X (1..MaxFaults) : x[3] <= hits[x[1]][x[2]]})

Fault(k, t) ==
  /\ FaultsSoFar < MaxFaults
  /\ hits' = [hits EXCEPT ![t][k] = @ + 1]

At(t, positions)   == work[t].at \in positions
Goes(t, w)         == work' = [work EXCEPT ![t] = w]
GoesTo(t, p)       == Goes(t, [work[t] EXCEPT !.at = p])
SetNode(t, s)      == nodeStatus' = [nodeStatus EXCEPT ![t] = s]
Event(t, from, to) == events' = [events EXCEPT ![t] = Append(@, <<from, to>>)]

-----------------------------------------------------------------------------
(* The scheduler; its own event is left out, as the events here are the    *)
(* workers'.                                                               *)

Queue(t) ==
  /\ nodeStatus[t] = "pending"
  /\ SetNode(t, "queued")
  /\ UNCHANGED <<proc, events, logs, artifacts, stored, work, reader, hits>>

-----------------------------------------------------------------------------
(* Taking a task.  The local worker picks one at a time. *)

Pick(t) ==
  /\ At(t, {"idle"}) /\ nodeStatus[t] = "queued"
  /\ t \in Local => \A u \in Local : ~At(u, {"picked", "marked"})
  /\ GoesTo(t, IF t \in Remote THEN "loading" ELSE "picked")
  /\ UNCHANGED <<proc, tables, reader, hits>>

MarkRunning(t) ==
  /\ At(t, {"picked"})
  /\ GoesTo(t, "marked")
  /\ SetNode(t, "running")
  /\ UNCHANGED <<proc, events, logs, artifacts, stored, reader, hits>>

(* Mutant: the event is recorded as if the node had never been queued. *)
RecordPicked_WrongFrom(t) ==
  /\ At(t, {"marked"})
  /\ GoesTo(t, IF t \in Remote THEN "running" ELSE "loading")
  /\ Event(t, "pending", "running")
  /\ UNCHANGED <<proc, nodeStatus, logs, artifacts, stored, reader, hits>>

RecordPicked(t) ==
  /\ At(t, {"marked"})
  /\ GoesTo(t, IF t \in Remote THEN "running" ELSE "loading")
  /\ Event(t, "queued", "running")
  /\ UNCHANGED <<proc, nodeStatus, logs, artifacts, stored, reader, hits>>

(* The definition file is read again; when that fails, there are no outputs. *)
LoadOutputs(t) ==
  LET to == IF t \in Remote THEN "picked" ELSE "running" IN
  /\ At(t, {"loading"})
  /\ \/ Goes(t, [work[t] EXCEPT !.at = to, !.known = Declared[t]]) /\ UNCHANGED hits
     \/ Goes(t, [work[t] EXCEPT !.at = to, !.known = "none"]) /\ Fault("definition", t)
  /\ UNCHANGED <<proc, tables, reader>>

-----------------------------------------------------------------------------
(* Executing it. *)

Grandchild(t, held) ==
  IF held /\ ~proc[t].held THEN Fault("grandchild", t) ELSE UNCHANGED hits

Call(t) ==
  /\ At(t, {"running"})
  /\ \/ (Spawn(t) \/ TooLate(t) \/ TryWait(t) \/ Sleep(t) \/ Wake(t) \/ Drain(t)) /\ UNCHANGED hits
     \/ WaitFails(t) /\ Fault("wait", t)
     \/ \E held \in BOOLEAN : Kill(t, held) /\ Grandchild(t, held)
  /\ UNCHANGED <<tables, work, reader>>

Outside(t) ==
  /\ \/ \E held \in BOOLEAN : (ClosesPipes(t, held) \/ ChildExits(t, held)) /\ Grandchild(t, held)
     \/ Release(t) /\ UNCHANGED hits
  /\ UNCHANGED <<tables, work, reader>>

(* Mutant: the outcome of the process is not kept. *)
Return_NoOutcome(t) ==
  /\ At(t, {"running"}) /\ proc[t].step = "ended"
  /\ Goes(t, [work[t] EXCEPT !.at = "numbering", !.left = proc[t].wrote])
  /\ UNCHANGED <<proc, tables, reader, hits>>

(* run_process returns.  An agent without output sends no log. *)
Return(t) ==
  /\ At(t, {"running"}) /\ proc[t].step = "ended"
  /\ Goes(t, [work[t] EXCEPT
       !.at = IF t \in Local \/ proc[t].wrote # {} THEN "numbering" ELSE "checking",
       !.left = proc[t].wrote, !.report = proc[t].outcome])
  /\ UNCHANGED <<proc, tables, reader, hits>>

-----------------------------------------------------------------------------
(* Its log: execute_local_task and report_logs. *)

(* SELECT COALESCE(MAX(sequence), 0) *)
Numbers    == {l.seq : l \in logs} \cup {0}
LastNumber == CHOOSE m \in Numbers : \A n \in Numbers : n <= m

ReadSequence(t) ==
  /\ At(t, {"numbering"})
  /\ Goes(t, [work[t] EXCEPT !.at = "storing", !.next = LastNumber])
  /\ UNCHANGED <<proc, tables, reader, hits>>

(* Mutant: the number is not advanced. *)
StoreLine_SameNumber(t) ==
  LET w == work[t]
      s == IF "stdout" \in w.left THEN "stdout" ELSE "stderr"
  IN  /\ At(t, {"storing"}) /\ w.left # {}
      /\ logs' = logs \cup {[task |-> t, stream |-> s, seq |-> w.next + 1]}
      /\ Goes(t, [w EXCEPT !.left = @ \ {s}])
      /\ UNCHANGED <<proc, nodeStatus, events, artifacts, stored, reader, hits>>

StoreLine(t) ==
  LET w == work[t]
      s == IF "stdout" \in w.left THEN "stdout" ELSE "stderr"
  IN  /\ At(t, {"storing"}) /\ w.left # {}
      /\ logs' = logs \cup {[task |-> t, stream |-> s, seq |-> w.next + 1]}
      /\ Goes(t, [w EXCEPT !.next = @ + 1, !.left = @ \ {s}])
      /\ UNCHANGED <<proc, nodeStatus, events, artifacts, stored, reader, hits>>

(* Mutant: only the first line is waited for. *)
LogStored_Early(t) ==
  /\ At(t, {"storing"}) /\ work[t].left # LinesOf[t]
  /\ GoesTo(t, "checking")
  /\ UNCHANGED <<proc, tables, reader, hits>>

LogStored(t) ==
  /\ At(t, {"storing"}) /\ work[t].left = {}
  /\ GoesTo(t, "checking")
  /\ UNCHANGED <<proc, tables, reader, hits>>

(* Somebody pages through the log: the first lines behind after_sequence. *)
ReadPage ==
  LET behind == {l \in logs : l.seq > after} IN
  \E page \in SUBSET behind :
    /\ page # {}
    /\ Cardinality(page) = PageSize \/ (page = behind /\ Cardinality(page) < PageSize)
    /\ \A l \in page, m \in behind \ page : l.seq <= m.seq
    /\ seen' = seen \cup page
    /\ \E last \in page : (\A l \in page : l.seq <= last.seq) /\ after' = last.seq
    /\ UNCHANGED <<proc, tables, work, hits>>

-----------------------------------------------------------------------------
(* Its outputs. *)

Outputs(t) == proc[t].outcome = "success" /\ work[t].known # "none"

(* Mutant: a missing output is never a failure. *)
Verdict_AnyOutput(t, exists) == work[t].report

(* missing_artifacts_reason *)
Verdict(t, exists) ==
  IF work[t].known = "required" /\ ~exists THEN "failed" ELSE work[t].report

Checked(t, exists, to) ==
  Goes(t, [work[t] EXCEPT !.at = to, !.made = exists, !.report = Verdict(t, exists)])

(* Mutant: the row is there, the file is not copied. *)
CopyOutput_RowOnly(t, exists) == UNCHANGED <<stored, hits>>

(* The file is copied, whatever comes of it, and its row inserted. *)
CopyOutput(t, exists) ==
  \/ stored' = stored \cup {u \in {t} : exists} /\ UNCHANGED hits
  \/ exists /\ UNCHANGED stored /\ Fault("copy", t)

CheckLocally(t) ==
  /\ At(t, {"checking"}) /\ t \in Local /\ Outputs(t)
  /\ \E exists \in BOOLEAN :
       /\ Checked(t, exists, "inserting")
       /\ CopyOutput(t, exists)
  /\ UNCHANGED <<proc, nodeStatus, events, logs, artifacts, reader>>

InsertArtifact(t) ==
  /\ At(t, {"inserting"})
  /\ artifacts' = artifacts \cup {[task |-> t, by |-> "check", exists |-> work[t].made]}
  /\ GoesTo(t, "reporting")
  /\ UNCHANGED <<proc, nodeStatus, events, logs, stored, reader, hits>>

CheckRemotely(t) ==
  /\ At(t, {"checking"}) /\ t \in Remote /\ Outputs(t)
  /\ \E exists \in BOOLEAN : Checked(t, exists, IF exists THEN "uploading" ELSE "reporting")
  /\ UNCHANGED <<proc, tables, reader, hits>>

NothingToCheck(t) ==
  /\ At(t, {"checking"}) /\ ~Outputs(t)
  /\ GoesTo(t, "reporting")
  /\ UNCHANGED <<proc, tables, reader, hits>>

(* upload_artifact writes the file and then a row of its own; an error is  *)
(* logged by the agent, which goes on.                                     *)
Upload(t) ==
  /\ At(t, {"uploading"})
  /\ GoesTo(t, "reporting")
  /\ \/ /\ stored' = stored \cup {t}
        /\ artifacts' = artifacts \cup {[task |-> t, by |-> "upload", exists |-> TRUE]}
        /\ UNCHANGED hits
     \/ stored' = stored \cup {t} /\ UNCHANGED artifacts /\ Fault("database", t)
     \/ UNCHANGED <<stored, artifacts>> /\ Fault("copy", t)
  /\ UNCHANGED <<proc, nodeStatus, events, logs, reader>>

-----------------------------------------------------------------------------
(* Its outcome: the UPDATE, the event, and then an agent's artifacts. *)

WriteOutcome(t) ==
  /\ At(t, {"reporting"})
  /\ SetNode(t, work[t].report)
  /\ GoesTo(t, "recording")
  /\ UNCHANGED <<proc, events, logs, artifacts, stored, reader, hits>>

RecordOutcome(t) ==
  /\ At(t, {"recording"})
  /\ Event(t, "running", work[t].report)
  /\ GoesTo(t, IF t \in Remote THEN "listing" ELSE "done")
  /\ UNCHANGED <<proc, nodeStatus, logs, artifacts, stored, reader, hits>>

(* The report of an error carries no artifacts. *)
ListArtifacts(t) ==
  /\ At(t, {"listing"})
  /\ artifacts' = artifacts \cup
       {a \in {[task |-> t, by |-> "check", exists |-> work[t].made]} : Outputs(t) /\ ~work[t].retry}
  /\ GoesTo(t, "done")
  /\ UNCHANGED <<proc, nodeStatus, events, logs, stored, reader, hits>>

-----------------------------------------------------------------------------
(* A query of the worker, or of the handler that serves it, fails. *)

Queries(t) ==
  \/ At(t, {"picked", "marked", "numbering", "inserting", "reporting", "recording"})
  \/ At(t, {"storing"}) /\ work[t].left # {}
  \/ At(t, {"listing"}) /\ Outputs(t) /\ ~work[t].retry

(* Mutant: an agent drops a task whose report fails. *)
Reports_Never(t) == FALSE

(* Mutant: the server reports the failure of its own tasks, too. *)
Reports_Anyone(t) == ~At(t, {"picked", "marked"}) /\ ~work[t].retry

(* poll_loop reports the failure of execute_task, once. *)
Reports(t) == t \in Remote /\ ~At(t, {"picked", "marked"}) /\ ~work[t].retry

(* Before the UPDATE nothing has happened; an agent reports what it has    *)
(* taken; for the rest nobody is left who knows of it.                     *)
DatabaseError(t) ==
  /\ Queries(t)
  /\ Fault("database", t)
  /\ \/ At(t, {"picked"}) /\ GoesTo(t, "idle")
     \/ Reports(t) /\ Goes(t, [work[t] EXCEPT !.at = "reporting", !.report = "failed", !.retry = TRUE])
     \/ ~At(t, {"picked"}) /\ ~Reports(t) /\ GoesTo(t, "lost")
  /\ UNCHANGED <<proc, tables, reader>>

-----------------------------------------------------------------------------
Work(t) ==
  \/ MarkRunning(t) \/ RecordPicked(t) \/ LoadOutputs(t) \/ Call(t) \/ Return(t)
  \/ ReadSequence(t) \/ StoreLine(t) \/ LogStored(t)
  \/ CheckLocally(t) \/ InsertArtifact(t) \/ CheckRemotely(t) \/ NothingToCheck(t) \/ Upload(t)
  \/ WriteOutcome(t) \/ RecordOutcome(t) \/ ListArtifacts(t)

Next ==
  \/ \E t \in Tasks : Queue(t) \/ Pick(t) \/ Work(t) \/ Outside(t) \/ DatabaseError(t)
  \/ ReadPage

Spec == Init /\ [][Next]_vars

(* Every task of the server and every agent's poll loop goes on.  Nothing  *)
(* is assumed of the children, nor of the grandchildren.                   *)
FairSpec == Spec /\ \A t \in Tasks : WF_vars(Work(t))

-----------------------------------------------------------------------------
(* Properties. *)

Untouched(t) == \A k \in Faults \ {"grandchild"} : hits[t][k] = 0
Missing(t)   == work[t].known = "required" /\ ~work[t].made
InLog(t, S)  == \A s \in S : \E l \in logs : l.task = t /\ l.stream = s

(* A node's row tells what became of its process: success is an exit with  *)
(* code zero and, if the definition asks for an output, one that was       *)
(* there, unless the file could not be loaded when the node was executed;  *)
(* timed_out is what run_process has found; failed is, without faults,     *)
(* nothing less (execute_local_task, execute_task, report_result).         *)
OutcomeTrue ==
  \A t \in Tasks :
    /\ nodeStatus[t] = "success" =>
         /\ proc[t].child = "ok"
         /\ Declared[t] = "required" => work[t].made \/ hits[t]["definition"] > 0
    /\ nodeStatus[t] = "timed_out" => proc[t].outcome = "timed_out"
    /\ nodeStatus[t] = "failed" /\ Untouched(t) =>
         proc[t].child \in {"none", "bad"} \/ (proc[t].child = "ok" /\ Missing(t))

(* A client that pages with after_sequence misses a line only if another   *)
(* task's line with the same number was given to it, and no task's own     *)
(* lines ever share a number: the numbers are read before the INSERTs, so  *)
(* two tasks of a run may use the same ones (report_logs, get_run_logs).   *)
SkipsOnlyTwins ==
  \A l \in logs :
    /\ l.seq <= after /\ l \notin seen => \E m \in seen : m.seq = l.seq /\ m.task # l.task
    /\ \A m \in logs : m.task = l.task /\ m.seq = l.seq => m = l

(* When a node's row shows how it ended, all it wrote is in the log: who   *)
(* sees the outcome need not ask again (execute_local_task, execute_task). *)
LogsBeforeOutcome ==
  \A t \in Tasks :
    nodeStatus[t] \in NodeTerminal /\ (Untouched(t) \/ nodeStatus[t] # "failed") =>
      InLog(t, proc[t].wrote)

(* The events tell a node's life: first that it was picked, then how it    *)
(* ended, once unless a report had to be repeated, and the last outcome    *)
(* told is the one in the row (pick_local_task, poll_task, report_result). *)
EventsTell ==
  \A t \in Tasks :
    LET told == events[t] IN
    At(t, {"done"}) =>
      /\ Len(told) >= 2 /\ told[1] = <<"queued", "running">>
      /\ \A i \in 2..Len(told) : told[i][1] = "running" /\ told[i][2] \in NodeTerminal
      /\ told[Len(told)][2] = nodeStatus[t]
      /\ Untouched(t) => Len(told) = 2

(* The artifacts listed for a finished node are those that were found, and *)
(* a file that is listed as existing can be downloaded unless its copy     *)
(* failed (execute_local_task, upload_artifact, report_result).            *)
ArtifactsAgree ==
  \A t \in Tasks :
    LET rows == {a \in artifacts : a.task = t} IN
    /\ At(t, {"done"}) /\ Untouched(t) /\ Outputs(t) =>
         [task |-> t, by |-> "check", exists |-> work[t].made] \in rows
    /\ \A a \in rows : a.exists => work[t].made /\ (t \in stored \/ t \in Suffered("copy"))

(* A node that runs comes to an end, unless its process has left another   *)
(* that keeps the pipes open, or keeps them open itself after the server   *)
(* or agent has failed to ask for its exit, or a query failed that nobody  *)
(* repeats: one of the local worker, the one behind the UPDATE of a poll,  *)
(* or the report of such a failure (run_process, spawn, poll_loop).        *)
Abandoned(t) ==
  /\ At(t, {"lost"})
  /\ \/ t \in Local
     \/ ~\E i \in DOMAIN events[t] : events[t][i] = <<"queued", "running">>
     \/ hits[t]["database"] > 1

HeldUp(t) ==
  /\ proc[t].step = "draining"
  /\ proc[t].held \/ (proc[t].blind /\ proc[t].child = "alive")

RunningEnds ==
  \A t \in Tasks :
    nodeStatus[t] = "running" ~> (nodeStatus[t] \in NodeTerminal \/ HeldUp(t) \/ Abandoned(t))

(* The rows of local and remote nodes alike change only as the scheduler   *)
(* reckons with: from queued to running to an outcome, and once more only  *)
(* if a query failed on the way of a remote one (pick_local_task,          *)
(* execute_local_task, poll_task, execute_task, report_result).            *)
Workers == INSTANCE RemoteWorkers WITH
  executing <- {t \in Tasks : nodeStatus[t] = "running" /\ ~At(t, {"lost"})},
  disturbed <- Remote \cap Suffered("database")

ImplementsWorkers == Workers!Spec

-----------------------------------------------------------------------------
(* What the theorems of NodeTasksProofs need besides. *)

(* An outcome that is reported, or in the row, is one the process and its  *)
(* outputs account for.                                                    *)
Accounts(t, outcome) ==
  /\ outcome = "success" => proc[t].outcome = "success" /\ ~Missing(t)
  /\ outcome = "timed_out" => proc[t].outcome = "timed_out"
  /\ outcome = "failed" /\ Untouched(t) =>
       proc[t].outcome = "failed" \/ (proc[t].outcome = "success" /\ Missing(t))

(* How far a worker has come tells what it knows. *)
TaskFits(t) ==
  /\ proc[t].blind => ~Untouched(t)
  /\ At(t, {"numbering", "storing", "checking"}) => work[t].report = proc[t].outcome
  /\ At(t, Positions \ {"idle", "loading", "picked", "marked", "running", "lost"}) =>
       proc[t].step = "ended" /\ work[t].report \in NodeReported
  /\ At(t, {"inserting", "uploading", "reporting", "recording", "listing", "done"}) => Accounts(t, work[t].report)
  /\ work[t].retry =>
       /\ At(t, {"reporting", "recording", "listing", "done", "lost"})
       /\ work[t].report = "failed" /\ ~Untouched(t)
  /\ nodeStatus[t] \in NodeTerminal =>
       /\ At(t, {"recording", "listing", "done", "lost"}) \/ (At(t, {"reporting"}) /\ work[t].retry)
       /\ proc[t].step = "ended" /\ Accounts(t, nodeStatus[t])

(* What it has stored. *)
LogFits(t) ==
  /\ At(t, {"numbering"}) => work[t].left = proc[t].wrote
  /\ At(t, {"storing"}) => InLog(t, proc[t].wrote \ work[t].left)
  /\ At(t, {"checking", "inserting", "uploading", "reporting", "recording", "listing", "done"})
       /\ ~work[t].retry =>
       InLog(t, proc[t].wrote)
  /\ nodeStatus[t] \in NodeTerminal /\ (Untouched(t) \/ nodeStatus[t] # "failed") =>
       InLog(t, proc[t].wrote)

(* The numbers are used without a gap, a task's own lines lie below the    *)
(* next it will use, and the reader has a line for each that is behind it. *)
NumbersFit ==
  /\ \E m \in Numbers : \A n \in Numbers : n <= m
  /\ \A l \in logs : \A n \in 1..l.seq : n \in Numbers
  /\ \A n \in 1..after : \E l \in seen : l.seq = n
  /\ \A t \in Tasks :
       /\ At(t, {"idle", "loading", "picked", "marked", "running", "numbering"}) => \A l \in logs : l.task # t
       /\ At(t, {"storing"}) =>
            work[t].next \in Numbers /\ \A l \in logs : l.task = t => l.seq <= work[t].next

(* What the row shows while a worker is at each position. *)
RowFits(t) ==
  LET early == At(t, {"picked"}) \/ (At(t, {"loading"}) /\ t \in Remote)
      late  == At(t, {"recording", "listing", "done"})
  IN  /\ At(t, {"idle"}) => nodeStatus[t] \in {"pending", "queued"}
      /\ early => nodeStatus[t] = "queued"
      /\ late => nodeStatus[t] \in NodeReported
      /\ At(t, {"lost"}) \/ work[t].retry => nodeStatus[t] \in {"running"} \cup NodeReported
      /\ ~At(t, {"idle", "lost"}) /\ ~early /\ ~late /\ ~work[t].retry => nodeStatus[t] = "running"
      /\ work[t].retry => t \in Remote /\ hits[t]["database"] > 0

(* From the loading on, a worker knows the outputs of the definition, or   *)
(* could not load it.  Inductive together with IInv.                       *)
Loaded(t) ==
  At(t, {"running"}) \/ (t \in Remote /\ At(t, {"picked", "marked"})) \/ proc[t].step # "none"

OutputsKnown ==
  \A t \in Tasks : Loaded(t) => work[t].known = Declared[t] \/ hits[t]["definition"] > 0

IInv ==
  /\ TypeOK /\ CallFits /\ OutcomesTrue
  /\ \A t \in Tasks : TaskFits(t) /\ LogFits(t)
  /\ NumbersFit /\ SkipsOnlyTwins

(* What has been told of a node while its worker is at each position: the  *)
(* local worker tells that it has picked it before it loads the outputs,   *)
(* an agent's poll after; a repeated report is told again.                 *)
Untold(t) == At(t, {"idle", "picked", "marked"}) \/ (At(t, {"loading"}) /\ t \in Remote)
Tale(t) ==
  LET told == events[t] IN
  /\ Len(told) >= 1 /\ told[1] = <<"queued", "running">>
  /\ \A i \in 2..Len(told) : told[i][1] = "running" /\ told[i][2] \in NodeTerminal
EventFits(t) ==
  LET told == events[t] IN
  /\ Untold(t) => told = <<>>
  /\ ~Untold(t) /\ ~At(t, {"lost"}) =>
       /\ Tale(t)
       /\ ~work[t].retry => Len(told) = IF At(t, {"listing", "done"}) THEN 2 ELSE 1
  /\ At(t, {"recording"}) => nodeStatus[t] = work[t].report
  /\ At(t, {"listing", "done"}) => Len(told) >= 2 /\ told[Len(told)][2] = nodeStatus[t]

(* What is listed of its outputs: nothing before they were looked for,     *)
(* nothing as existing that was not found, and what was found is kept.     *)
ArtifactFits(t) ==
  LET rows    == {a \in artifacts : a.task = t}
      checked == {"reporting", "recording", "listing", "done"}
  IN  /\ ~At(t, checked \cup {"lost"}) => rows = {}
      /\ work[t].made => At(t, checked \cup {"inserting", "uploading", "lost"})
      /\ work[t].made /\ ~At(t, {"uploading"}) => t \in stored \cup Suffered("copy")
      /\ At(t, {"uploading"}) => work[t].made /\ t \in Remote
      /\ At(t, {"inserting"}) => t \in Local
      /\ \A a \in rows : a.exists => work[t].made
      /\ At(t, {"done"}) \/ (At(t, checked) /\ t \in Local) =>
           (Outputs(t) /\ ~work[t].retry =>
              [task |-> t, by |-> "check", exists |-> work[t].made] \in rows)

(* Inductive together with IInv. *)
RecordsInv == \A t \in Tasks : EventFits(t) /\ ArtifactFits(t)
=============================================================================
