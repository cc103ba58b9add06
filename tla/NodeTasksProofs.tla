-------------------------- MODULE NodeTasksProofs ----------------------------
(***************************************************************************)
(* For any tasks, local and remote, any deadline, page size and number of  *)
(* faults: rows tell what became of the processes, a row that is final has *)
(* its log before it, and a reader of the log misses only twins.           *)
(***************************************************************************)
EXTENDS NodeTasks, TLAPS

-----------------------------------------------------------------------------
(* What one step can disturb. *)

(* Each fault is counted, and the others are remembered. *)
LEMMA Counted ==
  ASSUME hits \in [Tasks -> [Faults -> Nat]],
         NEW t \in Tasks, NEW k \in Faults, Fault(k, t)
  PROVE  /\ hits' \in [Tasks -> [Faults -> Nat]]
         /\ \A u \in Tasks \ {t} : hits'[u] = hits[u]
         /\ Untouched(t)' => Untouched(t)
         /\ k # "grandchild" => ~Untouched(t)'
<1> DEFINE h == [hits[t] EXCEPT ![k] = @ + 1]
<1>1. hits' = [hits EXCEPT ![t] = h]
  BY DEF Fault
<1>2. h \in [Faults -> Nat] /\ h[k] = hits[t][k] + 1 /\ \A j \in Faults \ {k} : h[j] = hits[t][j]
  OBVIOUS
<1> HIDE DEF h
<1>3. hits' \in [Tasks -> [Faults -> Nat]] /\ hits'[t] = h /\ \A u \in Tasks \ {t} : hits'[u] = hits[u]
  BY <1>1, <1>2
<1>4. hits[t][k] \in Nat /\ h[k] # 0
  BY <1>2
<1>5. Untouched(t)' => Untouched(t)
  BY <1>2, <1>3, <1>4 DEF Untouched
<1>6. k # "grandchild" => ~Untouched(t)'
  BY <1>3, <1>4 DEF Untouched
<1> QED BY <1>3, <1>5, <1>6

(* A task none of whose variables changes. *)
LEMMA Others ==
  ASSUME NEW u, TaskFits(u), LogFits(u), logs \subseteq logs',
         proc'[u] = proc[u], work'[u] = work[u], nodeStatus'[u] = nodeStatus[u], hits'[u] = hits[u]
  PROVE  TaskFits(u)' /\ LogFits(u)'
<1>1. Untouched(u)' = Untouched(u) /\ Missing(u)' = Missing(u)
  BY DEF Untouched, Missing
<1>2. \A P : At(u, P)' = At(u, P)
  BY DEF At
<1>3. \A S : InLog(u, S) => InLog(u, S)'
  BY DEF InLog
<1>4. TaskFits(u)'
  BY <1>1, <1>2 DEF TaskFits, Accounts
<1>5. LogFits(u)'
  BY <1>1, <1>2, <1>3 DEF LogFits
<1> QED BY <1>4, <1>5

(* Before the log is numbered a task has no line in it. *)
Early == {"idle", "loading", "picked", "marked", "running", "numbering"}

(* A step that leaves the log and its reader alone. *)
LEMMA NumbersStay ==
  ASSUME NumbersFit, SkipsOnlyTwins, UNCHANGED <<logs, after, seen>>,
         \A u \in Tasks : /\ At(u, Early)' => At(u, Early)
                          /\ At(u, {"storing"})' => At(u, {"storing"}) /\ work'[u].next = work[u].next
  PROVE  NumbersFit' /\ SkipsOnlyTwins'
<1>1. Numbers' = Numbers
  BY DEF Numbers
<1>2. SkipsOnlyTwins'
  BY DEF SkipsOnlyTwins
<1>3. NumbersFit'
  BY <1>1 DEF NumbersFit, Early
<1> QED BY <1>2, <1>3

LEMMA Fields ==
  ASSUME TypeOK, NEW t \in Tasks
  PROVE  /\ proc[t] \in Process /\ work[t] \in Worker
         /\ proc[t].outcome \in NodeReported \cup {"none"}
         /\ proc[t].wrote \subseteq Streams
         /\ work[t].at \in Positions /\ work[t].report \in NodeReported \cup {"none"}
         /\ work[t].next \in Nat /\ work[t].left \subseteq Streams
         /\ work[t].made \in BOOLEAN /\ work[t].retry \in BOOLEAN
         /\ nodeStatus[t] \in NodeStatuses /\ hits[t] \in [Faults -> Nat]
<1>1. proc[t] \in Process /\ work[t] \in Worker
  BY DEF TypeOK, ProcTypeOK
<1> QED BY <1>1 DEF TypeOK, Process, Worker, NodeReported

(* A step of one worker that leaves its process and the log alone. *)
LEMMA WorkerStep ==
  ASSUME IInv, NEW t \in Tasks,
         UNCHANGED <<proc, logs, after, seen>>,
         work' \in [Tasks -> Worker], \A u \in Tasks \ {t} : work'[u] = work[u],
         nodeStatus' \in [Tasks -> NodeStatuses], \A u \in Tasks \ {t} : nodeStatus'[u] = nodeStatus[u],
         hits' \in [Tasks -> [Faults -> Nat]], \A u \in Tasks \ {t} : hits'[u] = hits[u],
         events' \in [Tasks -> Seq(NodeStatuses \X NodeStatuses)],
         artifacts' \subseteq Listed, stored' \subseteq Tasks,
         TaskFits(t)', LogFits(t)',
         At(t, Early)' => At(t, Early),
         At(t, {"storing"})' => At(t, {"storing"}) /\ work'[t].next = work[t].next
  PROVE  IInv'
<1>1. TypeOK'
  BY DEF IInv, TypeOK, ProcTypeOK
<1>2. CallFits' /\ OutcomesTrue'
  BY DEF IInv, CallFits, OutcomesTrue
<1>3. \A u \in Tasks : TaskFits(u)' /\ LogFits(u)'
  BY Others DEF IInv
<1>4. \A u \in Tasks : /\ At(u, Early)' => At(u, Early)
                       /\ At(u, {"storing"})' => At(u, {"storing"}) /\ work'[u].next = work[u].next
  BY DEF At
<1>5. NumbersFit' /\ SkipsOnlyTwins'
  BY <1>4, NumbersStay DEF IInv
<1> QED BY <1>1, <1>2, <1>3, <1>5 DEF IInv

LEMMA Moved ==
  ASSUME TypeOK, NEW t \in Tasks, NEW p \in Positions, GoesTo(t, p)
  PROVE  /\ work' \in [Tasks -> Worker] /\ \A u \in Tasks \ {t} : work'[u] = work[u]
         /\ work'[t].at = p
         /\ work'[t].known = work[t].known /\ work'[t].made = work[t].made
         /\ work'[t].next = work[t].next /\ work'[t].left = work[t].left
         /\ work'[t].report = work[t].report /\ work'[t].retry = work[t].retry
<1> DEFINE w == [work[t] EXCEPT !.at = p]
<1>1. work[t] \in Worker
  BY Fields
<1>2. /\ w \in Worker /\ w.at = p /\ w.known = work[t].known /\ w.made = work[t].made
      /\ w.next = work[t].next /\ w.left = work[t].left
      /\ w.report = work[t].report /\ w.retry = work[t].retry
  BY <1>1 DEF Worker
<1>3. work' = [work EXCEPT ![t] = w] /\ work \in [Tasks -> Worker]
  BY DEF GoesTo, Goes, TypeOK
<1> HIDE DEF w
<1> QED BY <1>2, <1>3

(* Before the process is started nothing has been found out, and no row of *)
(* it is final.                                                            *)
LEMMA EarlyMove ==
  ASSUME TypeOK, NEW t \in Tasks, TaskFits(t),
         work[t].at \in {"idle", "loading", "picked", "marked", "running"},
         work'[t].at \in {"idle", "loading", "picked", "marked", "running", "lost"},
         work'[t].report = work[t].report, work'[t].retry = work[t].retry,
         proc'[t] = proc[t], Untouched(t)' => Untouched(t), nodeStatus'[t] \notin NodeTerminal
  PROVE  TaskFits(t)' /\ LogFits(t)'
BY DEF TaskFits, LogFits, At, Positions

LEMMA NotFinal ==
  ASSUME NEW t, TaskFits(t), ~At(t, {"recording", "listing", "done", "lost", "reporting"})
  PROVE  nodeStatus[t] \notin NodeTerminal
BY DEF TaskFits, At

LEMMA OpenStatuses ==
  /\ {"pending", "queued", "running"} \cap NodeTerminal = {}
  /\ {"pending", "queued", "running"} \subseteq NodeStatuses
  /\ NodeReported \subseteq NodeTerminal /\ NodeTerminal \subseteq NodeStatuses
  /\ "none" \notin NodeReported /\ "failed" \in NodeReported
BY DEF NodeTerminal, NodeReported, NodeStatuses

LEMMA InitIInv == Init => IInv
<1> SUFFICES ASSUME Init PROVE IInv
  OBVIOUS
<1>1. Fresh \in Process /\ Idle \in Worker
  BY DeadlineAssumption DEF Fresh, Process, Idle, Worker, Positions
<1>2. TypeOK
  BY <1>1, OpenStatuses DEF Init, TypeOK, ProcInit, ProcTypeOK
<1>3. \A t \in Tasks : proc[t] = Fresh /\ work[t] = Idle /\ nodeStatus[t] = "pending"
  BY DEF Init, ProcInit
<1>4. CallFits /\ OutcomesTrue
  BY <1>3 DEF CallFits, OutcomesTrue, Fits, Told, Runs, Fresh
<1>5. ASSUME NEW t \in Tasks PROVE TaskFits(t) /\ LogFits(t)
  <2>1. work[t].at = "idle" /\ work[t].retry = FALSE
    BY <1>3 DEF Idle
  <2>2. nodeStatus[t] \notin NodeTerminal
    BY <1>3, OpenStatuses
  <2>3. ~proc[t].blind
    BY <1>3 DEF Fresh
  <2> QED BY <2>1, <2>2, <2>3 DEF TaskFits, LogFits, At, Positions
<1>6. NumbersFit
  <2>1. Numbers = {0} /\ after = 0 /\ logs = {}
    BY DEF Init, Numbers
  <2>2. ASSUME NEW t \in Tasks PROVE work[t].at # "storing"
    BY <1>3 DEF Idle
  <2>3. \E m \in Numbers : \A n \in Numbers : n <= m
    BY <2>1
  <2>4. \A n \in 1..after : \E l \in seen : l.seq = n
    BY <2>1
  <2>5. (\A l \in logs : \A n \in 1..l.seq : n \in Numbers) /\ \A t \in Tasks : \A l \in logs : l.task # t
    BY <2>1
  <2> QED BY <2>2, <2>3, <2>4, <2>5 DEF NumbersFit, At
<1>7. SkipsOnlyTwins
  BY DEF Init, SkipsOnlyTwins
<1> QED BY <1>2, <1>4, <1>5, <1>6, <1>7 DEF IInv

-----------------------------------------------------------------------------
(* Step by step. *)

LEMMA QueueIInv ==
  ASSUME IInv, NEW t \in Tasks, Queue(t)
  PROVE  IInv'
<1>1. TypeOK /\ TaskFits(t) /\ LogFits(t)
  BY DEF IInv
<1>2. /\ UNCHANGED <<proc, events, logs, artifacts, stored, work, after, seen, hits>>
      /\ nodeStatus' = [nodeStatus EXCEPT ![t] = "queued"]
  BY DEF Queue, SetNode, reader
<1>3. /\ nodeStatus' \in [Tasks -> NodeStatuses] /\ nodeStatus'[t] \notin NodeTerminal
      /\ \A u \in Tasks \ {t} : nodeStatus'[u] = nodeStatus[u]
  BY <1>1, <1>2, OpenStatuses DEF TypeOK
<1>4. Untouched(t)' = Untouched(t) /\ Missing(t)' = Missing(t)
  BY <1>2 DEF Untouched, Missing
<1>5. \A P : At(t, P)' = At(t, P)
  BY <1>2 DEF At
<1>6. TaskFits(t)'
  BY <1>1, <1>2, <1>3, <1>4, <1>5 DEF TaskFits, Accounts
<1>7. LogFits(t)'
  BY <1>1, <1>2, <1>3, <1>5 DEF LogFits, InLog
<1> QED BY <1>1, <1>2, <1>3, <1>5, <1>6, <1>7, WorkerStep DEF TypeOK

LEMMA TakeIInv ==
  ASSUME IInv, NEW t \in Tasks, Pick(t) \/ MarkRunning(t) \/ RecordPicked(t)
  PROVE  IInv'
<1>1. TypeOK /\ TaskFits(t) /\ LogFits(t)
  BY DEF IInv
<1>2. UNCHANGED <<proc, logs, artifacts, stored, after, seen, hits>>
  BY DEF Pick, MarkRunning, RecordPicked, tables, reader
<1>3. PICK p \in {"loading", "picked", "marked", "running"} : GoesTo(t, p)
  BY DEF Pick, MarkRunning, RecordPicked
<1>4. p \in Positions /\ p \in Early /\ p # "storing"
  BY DEF Positions, Early
<1>5. At(t, {"idle", "picked", "marked"})
  BY DEF Pick, MarkRunning, RecordPicked, At
<1>6. nodeStatus[t] \notin NodeTerminal
  BY <1>1, <1>5, NotFinal DEF At
<1>7. nodeStatus' = nodeStatus \/ nodeStatus' = [nodeStatus EXCEPT ![t] = "running"]
  BY DEF Pick, MarkRunning, RecordPicked, SetNode, tables
<1>8. /\ nodeStatus' \in [Tasks -> NodeStatuses] /\ nodeStatus'[t] \notin NodeTerminal
      /\ \A u \in Tasks \ {t} : nodeStatus'[u] = nodeStatus[u]
  BY <1>1, <1>6, <1>7, OpenStatuses DEF TypeOK
<1>9. events' \in [Tasks -> Seq(NodeStatuses \X NodeStatuses)]
  <2>1. <<"queued", "running">> \in NodeStatuses \X NodeStatuses
    BY OpenStatuses
  <2>2. events' = events \/ events' = [events EXCEPT ![t] = Append(@, <<"queued", "running">>)]
    BY DEF Pick, MarkRunning, RecordPicked, Event, tables
  <2>3. events \in [Tasks -> Seq(NodeStatuses \X NodeStatuses)]
    BY <1>1 DEF TypeOK
  <2>4. Append(events[t], <<"queued", "running">>) \in Seq(NodeStatuses \X NodeStatuses)
    BY <2>1, <2>3
  <2> QED BY <2>2, <2>3, <2>4
<1>10. /\ work' \in [Tasks -> Worker] /\ \A u \in Tasks \ {t} : work'[u] = work[u]
       /\ work'[t].at = p /\ work'[t].report = work[t].report /\ work'[t].retry = work[t].retry
  BY <1>1, <1>3, <1>4, Moved
<1>11. Untouched(t)' => Untouched(t)
  BY <1>2 DEF Untouched
<1>12. TaskFits(t)' /\ LogFits(t)'
  BY <1>1, <1>2, <1>5, <1>8, <1>10, <1>11, EarlyMove DEF At
<1>13. At(t, Early) /\ ~At(t, {"storing"})'
  BY <1>4, <1>5, <1>10 DEF At, Early
<1>14. hits' \in [Tasks -> [Faults -> Nat]] /\ artifacts' \subseteq Listed /\ stored' \subseteq Tasks
  BY <1>1, <1>2 DEF TypeOK
<1> QED BY <1>2, <1>8, <1>9, <1>10, <1>12, <1>13, <1>14, WorkerStep

LEMMA LoadOutputsIInv ==
  ASSUME IInv, NEW t \in Tasks, LoadOutputs(t)
  PROVE  IInv'
<1>1. TypeOK /\ TaskFits(t) /\ LogFits(t)
  BY DEF IInv
<1>2. /\ UNCHANGED <<proc, nodeStatus, events, logs, artifacts, stored, after, seen>>
      /\ work[t].at = "loading"
  BY DEF LoadOutputs, tables, reader, At
<1>3. /\ hits' \in [Tasks -> [Faults -> Nat]] /\ \A u \in Tasks \ {t} : hits'[u] = hits[u]
      /\ Untouched(t)' => Untouched(t)
  <2>1. CASE hits' = hits
    BY <1>1, <2>1 DEF TypeOK, Untouched
  <2>2. CASE Fault("definition", t)
    BY <1>1, <2>2, Counted DEF TypeOK, Faults
  <2> QED BY <2>1, <2>2 DEF LoadOutputs
<1>4. /\ work' \in [Tasks -> Worker] /\ \A u \in Tasks \ {t} : work'[u] = work[u]
      /\ work'[t].at \in {"picked", "running"}
      /\ work'[t].report = work[t].report /\ work'[t].retry = work[t].retry
  <2>1. PICK p \in {"picked", "running"}, k \in {"none", Declared[t]} :
          Goes(t, [work[t] EXCEPT !.at = p, !.known = k])
    BY DEF LoadOutputs
  <2>2. p \in Positions /\ k \in {"none", "optional", "required"}
    BY TasksAssumption DEF Positions
  <2> DEFINE w == [work[t] EXCEPT !.at = p, !.known = k]
  <2>3. work[t] \in Worker /\ work \in [Tasks -> Worker]
    BY <1>1, Fields DEF TypeOK
  <2>4. w \in Worker /\ w.at = p /\ w.report = work[t].report /\ w.retry = work[t].retry
    BY <2>2, <2>3 DEF Worker
  <2>5. work' = [work EXCEPT ![t] = w]
    BY <2>1 DEF Goes
  <2> HIDE DEF w
  <2> QED BY <2>3, <2>4, <2>5
<1>5. nodeStatus'[t] \notin NodeTerminal
  BY <1>1, <1>2, NotFinal DEF At
<1>6. TaskFits(t)' /\ LogFits(t)'
  BY <1>1, <1>2, <1>3, <1>4, <1>5, EarlyMove
<1>7. At(t, Early) /\ ~At(t, {"storing"})'
  BY <1>2, <1>4 DEF At, Early
<1> QED BY <1>1, <1>2, <1>3, <1>4, <1>6, <1>7, WorkerStep DEF TypeOK

(* run_process returns: what it has found goes into the report. *)
LEMMA ReturnIInv ==
  ASSUME IInv, NEW t \in Tasks, Return(t)
  PROVE  IInv'
<1>1. TypeOK /\ TaskFits(t) /\ LogFits(t)
  BY DEF IInv
<1> DEFINE p == IF t \in Local \/ proc[t].wrote # {} THEN "numbering" ELSE "checking"
           w == [work[t] EXCEPT !.at = p, !.left = proc[t].wrote, !.report = proc[t].outcome]
<1>2. /\ UNCHANGED <<proc, nodeStatus, events, logs, artifacts, stored, after, seen, hits>>
      /\ work[t].at = "running" /\ proc[t].step = "ended" /\ work' = [work EXCEPT ![t] = w]
  BY DEF Return, tables, reader, At, Goes
<1>3. /\ work[t] \in Worker /\ work \in [Tasks -> Worker] /\ proc[t].wrote \subseteq Streams
      /\ proc[t].outcome \in NodeReported
  BY <1>1, <1>2, Fields DEF TypeOK, IInv, CallFits, Fits
<1>4. p \in {"numbering", "checking"} /\ (p = "checking" => proc[t].wrote = {})
  OBVIOUS
<1>5. w \in Worker /\ w.at = p /\ w.left = proc[t].wrote /\ w.report = proc[t].outcome /\ w.retry = work[t].retry
  BY <1>3, <1>4 DEF Worker, Positions
<1> HIDE DEF w, p
<1>6. /\ work' \in [Tasks -> Worker] /\ \A u \in Tasks \ {t} : work'[u] = work[u]
      /\ work'[t] = w
  BY <1>2, <1>3, <1>5
<1>7. nodeStatus[t] \notin NodeTerminal
  BY <1>1, <1>2, NotFinal DEF At
<1>8. ~work[t].retry
  BY <1>1, <1>2 DEF TaskFits, At
<1>9. work'[t].at \in {"numbering", "checking"} /\ ~work'[t].retry
  BY <1>4, <1>5, <1>6, <1>8
<1>10. TaskFits(t)'
  BY <1>1, <1>2, <1>3, <1>5, <1>6, <1>7, <1>9 DEF TaskFits, At, Positions, Untouched
<1>11. LogFits(t)'
  BY <1>2, <1>4, <1>5, <1>6, <1>7, <1>9 DEF LogFits, InLog, At
<1>12. At(t, Early) /\ ~At(t, {"storing"})'
  BY <1>2, <1>9 DEF At, Early
<1> QED BY <1>1, <1>2, <1>6, <1>10, <1>11, <1>12, WorkerStep DEF TypeOK

LEMMA LastNumberFits ==
  ASSUME TypeOK, NumbersFit
  PROVE  LastNumber \in Numbers /\ LastNumber \in Nat /\ \A n \in Numbers : n <= LastNumber
<1>1. Numbers \subseteq Nat
  BY DEF TypeOK, Numbers, Line
<1>2. LastNumber \in Numbers /\ \A n \in Numbers : n <= LastNumber
  BY DEF NumbersFit, LastNumber
<1> QED BY <1>1, <1>2

(* The next number is read: no line of this task is there yet. *)
LEMMA ReadSequenceIInv ==
  ASSUME IInv, NEW t \in Tasks, ReadSequence(t)
  PROVE  IInv'
<1>1. TypeOK /\ TaskFits(t) /\ LogFits(t) /\ NumbersFit /\ SkipsOnlyTwins
  BY DEF IInv
<1> DEFINE w == [work[t] EXCEPT !.at = "storing", !.next = LastNumber]
<1>2. /\ UNCHANGED <<proc, nodeStatus, events, logs, artifacts, stored, after, seen, hits>>
      /\ work[t].at = "numbering" /\ work' = [work EXCEPT ![t] = w]
  BY DEF ReadSequence, tables, reader, At, Goes
<1>3. work[t] \in Worker /\ work \in [Tasks -> Worker]
  BY <1>1, Fields DEF TypeOK
<1>4. LastNumber \in Nat /\ LastNumber \in Numbers
  BY <1>1, LastNumberFits
<1>5. /\ w \in Worker /\ w.at = "storing" /\ w.next = LastNumber /\ w.left = work[t].left
      /\ w.report = work[t].report /\ w.retry = work[t].retry
  BY <1>3, <1>4 DEF Worker, Positions
<1> HIDE DEF w
<1>6. work' \in [Tasks -> Worker] /\ work'[t] = w /\ \A u \in Tasks \ {t} : work'[u] = work[u]
  BY <1>2, <1>3, <1>5
<1>7. nodeStatus[t] \notin NodeTerminal /\ ~work[t].retry
  BY <1>1, <1>2, NotFinal DEF At, TaskFits
<1>8. TaskFits(t)'
  BY <1>1, <1>2, <1>5, <1>6, <1>7 DEF TaskFits, At, Positions, Untouched
<1>9. LogFits(t)'
  BY <1>1, <1>2, <1>5, <1>6, <1>7 DEF LogFits, InLog, At
<1>10. TypeOK' /\ CallFits' /\ OutcomesTrue'
  BY <1>1, <1>2, <1>6 DEF IInv, TypeOK, ProcTypeOK, CallFits, OutcomesTrue
<1>11. \A u \in Tasks : TaskFits(u)' /\ LogFits(u)'
  BY <1>2, <1>6, <1>8, <1>9, Others DEF IInv
<1>12. SkipsOnlyTwins' /\ Numbers' = Numbers
  BY <1>1, <1>2 DEF SkipsOnlyTwins, Numbers
<1>13. \A l \in logs : l.task # t
  BY <1>1, <1>2 DEF NumbersFit, At
<1>14. \A u \in Tasks : At(u, {"storing"})' =>
         work'[u].next \in Numbers /\ \A l \in logs : l.task = u => l.seq <= work'[u].next
  BY <1>1, <1>4, <1>5, <1>6, <1>13 DEF NumbersFit, At
<1>15. \A u \in Tasks : At(u, {"idle", "loading", "picked", "marked", "running", "numbering"})' =>
         \A l \in logs : l.task # u
  BY <1>1, <1>5, <1>6 DEF NumbersFit, At
<1>16. NumbersFit'
  BY <1>1, <1>2, <1>12, <1>14, <1>15 DEF NumbersFit
<1> QED BY <1>10, <1>11, <1>12, <1>16 DEF IInv

LEMMA LogStoredIInv ==
  ASSUME IInv, NEW t \in Tasks, LogStored(t)
  PROVE  IInv'
<1>1. TypeOK /\ TaskFits(t) /\ LogFits(t)
  BY DEF IInv
<1>2. /\ UNCHANGED <<proc, nodeStatus, events, logs, artifacts, stored, after, seen, hits>>
      /\ work[t].at = "storing" /\ work[t].left = {} /\ GoesTo(t, "checking")
  BY DEF LogStored, tables, reader, At
<1>3. /\ work' \in [Tasks -> Worker] /\ \A u \in Tasks \ {t} : work'[u] = work[u]
      /\ work'[t].at = "checking" /\ work'[t].report = work[t].report /\ work'[t].retry = work[t].retry
  BY <1>1, <1>2, Moved DEF Positions
<1>4. nodeStatus[t] \notin NodeTerminal /\ ~work[t].retry
  BY <1>1, <1>2, NotFinal DEF At, TaskFits
<1>5. TaskFits(t)'
  BY <1>1, <1>2, <1>3, <1>4 DEF TaskFits, At, Positions, Untouched
<1>6. LogFits(t)'
  <2>1. proc[t].wrote \ work[t].left = proc[t].wrote
    BY <1>2
  <2> QED BY <1>1, <1>2, <1>3, <1>4, <2>1 DEF LogFits, InLog, At
<1>7. ~At(t, Early)' /\ ~At(t, {"storing"})'
  BY <1>3 DEF At, Early
<1> QED BY <1>1, <1>2, <1>3, <1>5, <1>6, <1>7, WorkerStep DEF TypeOK

(* A line is stored.  Its number is new to its task; if the reader is past *)
(* it already, it has been given a line of that number, another task's.    *)
LEMMA StoreLineIInv ==
  ASSUME IInv, NEW t \in Tasks, StoreLine(t)
  PROVE  IInv'
<1>1. TypeOK /\ TaskFits(t) /\ LogFits(t) /\ NumbersFit /\ SkipsOnlyTwins
  BY DEF IInv
<1> DEFINE s == IF "stdout" \in work[t].left THEN "stdout" ELSE "stderr"
           n == work[t].next + 1
           x == [task |-> t, stream |-> s, seq |-> n]
           w == [work[t] EXCEPT !.next = @ + 1, !.left = @ \ {s}]
<1>2. /\ UNCHANGED <<proc, nodeStatus, events, artifacts, stored, after, seen, hits>>
      /\ work[t].at = "storing" /\ work[t].left # {}
      /\ logs' = logs \cup {x} /\ work' = [work EXCEPT ![t] = w]
  BY DEF StoreLine, tables, reader, At, Goes
<1>3. /\ work[t] \in Worker /\ work \in [Tasks -> Worker] /\ work[t].next \in Nat
      /\ work[t].left \subseteq Streams
  BY <1>1, Fields DEF TypeOK
<1>4. s \in work[t].left /\ s \in Streams /\ n \in Nat \ {0} /\ n = work[t].next + 1
  BY <1>2, <1>3 DEF Streams
<1>5. x \in Line /\ x.task = t /\ x.stream = s /\ x.seq = n
  BY <1>4 DEF Line
<1>6. /\ w \in Worker /\ w.at = "storing" /\ w.next = n /\ w.left = work[t].left \ {s}
      /\ w.report = work[t].report /\ w.retry = work[t].retry
  BY <1>2, <1>3, <1>4 DEF Worker
<1> HIDE DEF x, w, s, n
<1>7. work' \in [Tasks -> Worker] /\ work'[t] = w /\ \A u \in Tasks \ {t} : work'[u] = work[u]
  BY <1>2, <1>3, <1>6
<1>8. nodeStatus[t] \notin NodeTerminal /\ ~work[t].retry
  BY <1>1, <1>2, NotFinal DEF At, TaskFits
<1>9. TaskFits(t)'
  BY <1>1, <1>2, <1>6, <1>7, <1>8 DEF TaskFits, At, Positions, Untouched
<1>10. LogFits(t)'
  <2>1. InLog(t, proc[t].wrote \ work[t].left)
    BY <1>1, <1>2 DEF LogFits, At
  <2>2. ASSUME NEW c \in proc[t].wrote \ w.left
        PROVE  \E l \in logs' : l.task = t /\ l.stream = c
    <3>1. CASE c = s
      BY <1>2, <1>5, <3>1
    <3>2. CASE c # s
      <4>1. c \in proc[t].wrote \ work[t].left
        BY <1>6, <3>2
      <4> QED BY <1>2, <2>1, <4>1 DEF InLog
    <3> QED BY <3>1, <3>2
  <2> QED BY <1>2, <1>6, <1>7, <1>8, <2>2 DEF LogFits, InLog, At
<1>11. TypeOK'
  BY <1>1, <1>2, <1>5, <1>7 DEF TypeOK, ProcTypeOK
<1>12. CallFits' /\ OutcomesTrue'
  BY <1>2 DEF IInv, CallFits, OutcomesTrue
<1>13. \A u \in Tasks : TaskFits(u)' /\ LogFits(u)'
  BY <1>2, <1>7, <1>9, <1>10, Others DEF IInv
<1>14. /\ work[t].next \in Numbers
       /\ \A l \in logs : l.task = t => l.seq < n
  <2>1. /\ work[t].next \in Numbers
        /\ \A l \in logs : l.task = t => l.seq <= work[t].next
    BY <1>1, <1>2 DEF NumbersFit, At
  <2>2. \A l \in logs : l.seq \in Nat
    BY <1>1 DEF TypeOK, Line
  <2> QED BY <1>3, <1>4, <2>1, <2>2
<1>15. Numbers' = Numbers \cup {n} /\ Numbers \subseteq Nat
  BY <1>1, <1>2, <1>5 DEF Numbers, TypeOK, Line
<1>16. SkipsOnlyTwins'
  <2>1. ASSUME NEW l \in logs', l.seq <= after, l \notin seen
        PROVE  \E m \in seen : m.seq = l.seq /\ m.task # l.task
    <3>1. CASE l \in logs
      BY <1>1, <2>1, <3>1 DEF SkipsOnlyTwins
    <3>2. CASE l = x
      <4>1. after \in Nat /\ n \in 1..after
        BY <1>1, <1>4, <1>5, <2>1, <3>2 DEF TypeOK
      <4>2. PICK m \in seen : m.seq = n
        BY <1>1, <4>1 DEF NumbersFit
      <4>3. m \in logs /\ ~(n < n)
        BY <1>1, <1>4 DEF TypeOK
      <4>4. m.task # t
        BY <1>14, <4>2, <4>3
      <4> QED BY <1>5, <3>2, <4>2, <4>4
    <3> QED BY <1>2, <3>1, <3>2
  <2>2. ASSUME NEW l \in logs', NEW m \in logs', m.task = l.task, m.seq = l.seq
        PROVE  m = l
    <3>1. CASE l \in logs /\ m \in logs
      BY <1>1, <2>2, <3>1 DEF SkipsOnlyTwins
    <3>2. CASE l = x \/ m = x
      <4>1. ~(n < n)
        BY <1>4
      <4> QED BY <1>2, <1>5, <1>14, <2>2, <3>2, <4>1
    <3> QED BY <1>2, <3>1, <3>2
  <2> QED BY <1>2, <2>1, <2>2 DEF SkipsOnlyTwins
<1>17. NumbersFit'
  <2>1. \E m \in Numbers' : \A k \in Numbers' : k <= m
    <3>1. PICK m \in Numbers : \A k \in Numbers : k <= m
      BY <1>1 DEF NumbersFit
    <3>2. CASE n <= m
      BY <1>15, <3>1, <3>2
    <3>3. CASE ~(n <= m)
      <4>1. \A k \in Numbers : k <= n
        BY <1>4, <1>15, <3>1, <3>3
      <4>2. n <= n
        BY <1>4
      <4> QED BY <1>15, <4>1, <4>2
    <3> QED BY <3>2, <3>3
  <2>2. ASSUME NEW l \in logs', NEW k \in 1..l.seq PROVE k \in Numbers'
    <3>1. CASE l \in logs
      BY <1>1, <1>15, <2>2, <3>1 DEF NumbersFit
    <3>2. CASE l = x
      <4>1. CASE k = n
        BY <1>15, <4>1
      <4>2. CASE k # n
        <5>1. k \in 1..work[t].next
          BY <1>3, <1>4, <1>5, <2>2, <3>2, <4>2
        <5>2. PICK m \in logs : m.seq = work[t].next
          BY <1>14, <5>1 DEF Numbers
        <5> QED BY <1>1, <1>15, <5>1, <5>2 DEF NumbersFit
      <4> QED BY <4>1, <4>2
    <3> QED BY <1>2, <3>1, <3>2
  <2>3. \A k \in 1..after' : \E l \in seen' : l.seq = k
    BY <1>1, <1>2 DEF NumbersFit
  <2>4. ASSUME NEW u \in Tasks, At(u, {"storing"})'
        PROVE  work'[u].next \in Numbers' /\ \A l \in logs' : l.task = u => l.seq <= work'[u].next
    <3>1. CASE u = t
      <4>1. \A l \in logs : l.seq \in Nat
        BY <1>1 DEF TypeOK, Line
      <4>2. \A l \in logs : l.task = t => l.seq <= n
        BY <1>4, <1>14, <4>1
      <4>3. x.seq <= n
        BY <1>4, <1>5
      <4> QED BY <1>2, <1>6, <1>7, <1>15, <3>1, <4>2, <4>3
    <3>2. CASE u # t
      <4>1. /\ work'[u] = work[u] /\ work[u].next \in Numbers
            /\ \A l \in logs : l.task = u => l.seq <= work[u].next
        BY <1>1, <1>7, <2>4, <3>2 DEF NumbersFit, At
      <4> QED BY <1>2, <1>5, <1>15, <3>2, <4>1
    <3> QED BY <3>1, <3>2
  <2>5. ASSUME NEW u \in Tasks,
               At(u, {"idle", "loading", "picked", "marked", "running", "numbering"})'
        PROVE  \A l \in logs' : l.task # u
    <3>1. u # t
      BY <1>6, <1>7, <2>5 DEF At
    <3>2. \A l \in logs : l.task # u
      BY <1>1, <1>7, <2>5, <3>1 DEF NumbersFit, At
    <3> QED BY <1>2, <1>5, <3>1, <3>2
  <2> QED BY <2>1, <2>2, <2>3, <2>4, <2>5 DEF NumbersFit
<1> QED BY <1>11, <1>12, <1>13, <1>16, <1>17 DEF IInv

(* A page: the numbers behind the last page are there without a gap, so    *)
(* what it leaves out shares its last number.                              *)
LEMMA ReadPageIInv ==
  ASSUME IInv, ReadPage
  PROVE  IInv'
<1>1. TypeOK /\ NumbersFit /\ SkipsOnlyTwins
  BY DEF IInv
<1> DEFINE behind == {l \in logs : l.seq > after}
<1>2. PICK page \in SUBSET behind :
        /\ \A l \in page, m \in behind \ page : l.seq <= m.seq
        /\ seen' = seen \cup page
        /\ \E last \in page : (\A l \in page : l.seq <= last.seq) /\ after' = last.seq
  BY DEF ReadPage
<1>3. PICK last \in page : (\A l \in page : l.seq <= last.seq) /\ after' = last.seq
  BY <1>2
<1>4. UNCHANGED <<proc, nodeStatus, events, logs, artifacts, stored, work, hits>>
  BY DEF ReadPage, tables
<1>5. /\ last \in logs /\ last.seq \in Nat /\ after \in Nat /\ after < last.seq
      /\ page \subseteq logs /\ seen \subseteq logs /\ \A l \in logs : l.seq \in Nat
  BY <1>2, <1>1, <1>3 DEF TypeOK, Line
<1>6. TypeOK'
  BY <1>2, <1>1, <1>3, <1>4, <1>5 DEF TypeOK, ProcTypeOK
<1>7. CallFits' /\ OutcomesTrue'
  BY <1>4 DEF IInv, CallFits, OutcomesTrue
<1>8. \A u \in Tasks : TaskFits(u)' /\ LogFits(u)'
  BY <1>4, Others DEF IInv
<1>9. ASSUME NEW l \in logs, l.seq <= last.seq, l \notin seen \cup page
      PROVE  \E m \in seen \cup page : m.seq = l.seq /\ m.task # l.task
  <2>1. CASE l.seq <= after
    BY <1>1, <1>9, <2>1 DEF SkipsOnlyTwins
  <2>2. CASE ~(l.seq <= after)
    <3>1. l \in behind \ page
      BY <1>5, <1>9, <2>2
    <3>2. last.seq <= l.seq
      BY <1>2, <3>1
    <3>3. last.seq = l.seq
      BY <1>5, <1>9, <3>2
    <3>4. last.task # l.task
      BY <1>1, <1>5, <1>9, <3>3 DEF SkipsOnlyTwins
    <3> QED BY <3>3, <3>4
  <2> QED BY <2>1, <2>2
<1>10. SkipsOnlyTwins'
  BY <1>2, <1>1, <1>3, <1>4, <1>9 DEF SkipsOnlyTwins
<1>11. ASSUME NEW k \in 1..last.seq PROVE \E l \in seen \cup page : l.seq = k
  <2>1. CASE k <= after
    <3>1. k \in 1..after
      BY <1>5, <2>1
    <3> QED BY <1>1, <3>1 DEF NumbersFit
  <2>2. CASE ~(k <= after)
    <3>1. k \in Numbers /\ k # 0 /\ k \in Nat
      BY <1>1, <1>5 DEF NumbersFit
    <3>2. PICK l \in logs : l.seq = k
      BY <3>1 DEF Numbers
    <3>3. CASE l \in page
      BY <3>2, <3>3
    <3>4. CASE l \notin page
      <4>1. l \in behind \ page
        BY <1>5, <2>2, <3>1, <3>2, <3>4
      <4>2. last.seq <= k
        BY <1>2, <3>2, <4>1
      <4>3. last.seq = k
        BY <1>5, <4>2
      <4> QED BY <4>3
    <3> QED BY <3>3, <3>4
  <2> QED BY <2>1, <2>2
<1>12. Numbers' = Numbers
  BY <1>4 DEF Numbers
<1>13. NumbersFit'
  BY <1>2, <1>1, <1>3, <1>4, <1>11, <1>12 DEF NumbersFit, At
<1> QED BY <1>6, <1>7, <1>8, <1>10, <1>13 DEF IInv

(* A worker past its log: what it is about to report, or has reported, is  *)
(* accounted for, and the log is there unless the report is the repeated   *)
(* one.                                                                    *)
LEMMA LateMove ==
  ASSUME IInv, NEW t \in Tasks,
         UNCHANGED <<proc, logs>>, Untouched(t)' => Untouched(t),
         work'[t].at \in {"inserting", "uploading", "reporting", "recording", "listing", "done"},
         proc[t].step = "ended", work'[t].report \in NodeReported,
         Accounts(t, work[t].report)',
         work'[t].retry => /\ work'[t].at \notin {"inserting", "uploading"}
                           /\ work'[t].report = "failed" /\ ~Untouched(t)',
         ~work'[t].retry => InLog(t, proc[t].wrote),
         nodeStatus'[t] \in NodeTerminal =>
           /\ work'[t].at \in {"recording", "listing", "done"} \/ (work'[t].at = "reporting" /\ work'[t].retry)
           /\ Accounts(t, nodeStatus[t])'
           /\ Untouched(t)' \/ nodeStatus'[t] # "failed" => InLog(t, proc[t].wrote)
  PROVE  TaskFits(t)' /\ LogFits(t)'
<1>1. InLog(t, proc[t].wrote)' = InLog(t, proc[t].wrote)
  BY DEF InLog
<1>2. proc[t].blind => ~Untouched(t)
  BY DEF IInv, TaskFits
<1>3. TaskFits(t)'
  BY <1>2 DEF TaskFits, At, Positions
<1>4. LogFits(t)'
  BY <1>1 DEF LogFits, At
<1> QED BY <1>3, <1>4

(* The check of the outputs decides what is reported. *)
LEMMA CheckedFits ==
  ASSUME IInv, NEW t \in Tasks, work[t].at = "checking", NEW exists \in BOOLEAN,
         NEW to \in {"inserting", "reporting", "uploading"}, Outputs(t), Checked(t, exists, to),
         UNCHANGED <<proc, nodeStatus, logs>>, Untouched(t)' => Untouched(t)
  PROVE  /\ work' \in [Tasks -> Worker] /\ \A u \in Tasks \ {t} : work'[u] = work[u]
         /\ work'[t].at = to /\ TaskFits(t)' /\ LogFits(t)'
<1>1. TypeOK /\ TaskFits(t) /\ LogFits(t)
  BY DEF IInv
<1>2. /\ proc[t].step = "ended" /\ work[t].report = "success" /\ proc[t].outcome = "success"
      /\ ~work[t].retry /\ nodeStatus[t] \notin NodeTerminal /\ InLog(t, proc[t].wrote)
  BY <1>1, NotFinal DEF TaskFits, LogFits, At, Positions, Outputs
<1> DEFINE w == [work[t] EXCEPT !.at = to, !.made = exists, !.report = Verdict(t, exists)]
<1>3. work[t] \in Worker /\ work \in [Tasks -> Worker]
  BY <1>1, Fields DEF TypeOK
<1>4. /\ Verdict(t, exists) \in {"success", "failed"}
      /\ Verdict(t, exists) = "failed" <=> work[t].known = "required" /\ ~exists
  BY <1>2 DEF Verdict
<1>5. /\ w \in Worker /\ w.at = to /\ w.made = exists /\ w.report = Verdict(t, exists)
      /\ w.known = work[t].known /\ w.retry = work[t].retry
  BY <1>3, <1>4 DEF Worker, Positions, NodeReported
<1>6. work' = [work EXCEPT ![t] = w]
  BY DEF Checked, Goes
<1> HIDE DEF w
<1>7. work' \in [Tasks -> Worker] /\ work'[t] = w /\ \A u \in Tasks \ {t} : work'[u] = work[u]
  BY <1>3, <1>5, <1>6
<1>8. Accounts(t, work[t].report)'
  BY <1>2, <1>4, <1>5, <1>7 DEF Accounts, Missing
<1>9. TaskFits(t)' /\ LogFits(t)'
  BY <1>2, <1>4, <1>5, <1>7, <1>8, LateMove DEF NodeReported
<1> QED BY <1>5, <1>7, <1>9

LEMMA CheckIInv ==
  ASSUME IInv, NEW t \in Tasks, CheckLocally(t) \/ CheckRemotely(t)
  PROVE  IInv'
<1>1. TypeOK
  BY DEF IInv
<1>2. /\ UNCHANGED <<proc, nodeStatus, events, logs, after, seen>>
      /\ work[t].at = "checking" /\ Outputs(t)
  BY DEF CheckLocally, CheckRemotely, tables, reader, At
<1>3. PICK exists \in BOOLEAN, to \in {"inserting", "reporting", "uploading"} :
        /\ Checked(t, exists, to)
        /\ CopyOutput(t, exists) \/ (hits' = hits /\ stored' = stored)
  BY DEF CheckLocally, CheckRemotely, tables
<1>4. /\ hits' \in [Tasks -> [Faults -> Nat]] /\ \A u \in Tasks \ {t} : hits'[u] = hits[u]
      /\ Untouched(t)' => Untouched(t)
      /\ stored' \subseteq Tasks
  <2>1. CASE hits' = hits /\ stored' \subseteq Tasks
    BY <1>1, <2>1 DEF TypeOK, Untouched
  <2>2. CASE Fault("copy", t) /\ stored' = stored
    BY <1>1, <2>2, Counted DEF TypeOK, Faults
  <2> QED BY <1>1, <1>3, <2>1, <2>2 DEF CopyOutput, TypeOK
<1>5. artifacts' = artifacts
  BY DEF CheckLocally, CheckRemotely, tables
<1>6. /\ work' \in [Tasks -> Worker] /\ \A u \in Tasks \ {t} : work'[u] = work[u]
      /\ work'[t].at = to /\ TaskFits(t)' /\ LogFits(t)'
  BY <1>2, <1>3, <1>4, CheckedFits
<1>7. ~At(t, Early)' /\ ~At(t, {"storing"})'
  BY <1>6 DEF At, Early
<1> QED BY <1>1, <1>2, <1>4, <1>5, <1>6, <1>7, WorkerStep DEF TypeOK

LEMMA InsertArtifactIInv ==
  ASSUME IInv, NEW t \in Tasks, InsertArtifact(t)
  PROVE  IInv'
<1>1. TypeOK /\ TaskFits(t) /\ LogFits(t)
  BY DEF IInv
<1>2. /\ UNCHANGED <<proc, nodeStatus, events, logs, stored, after, seen, hits>>
      /\ work[t].at = "inserting" /\ GoesTo(t, "reporting")
      /\ artifacts' = artifacts \cup {[task |-> t, by |-> "check", exists |-> work[t].made]}
  BY DEF InsertArtifact, reader, At
<1>3. /\ work' \in [Tasks -> Worker] /\ \A u \in Tasks \ {t} : work'[u] = work[u]
      /\ work'[t].at = "reporting" /\ work'[t].known = work[t].known /\ work'[t].made = work[t].made
      /\ work'[t].report = work[t].report /\ work'[t].retry = work[t].retry
  BY <1>1, <1>2, Moved DEF Positions
<1>4. /\ proc[t].step = "ended" /\ work[t].report \in NodeReported /\ Accounts(t, work[t].report)
      /\ ~work[t].retry /\ nodeStatus[t] \notin NodeTerminal /\ InLog(t, proc[t].wrote)
  BY <1>1, <1>2, NotFinal DEF TaskFits, LogFits, At, Positions
<1>5. Untouched(t)' = Untouched(t) /\ Missing(t)' = Missing(t)
  BY <1>2, <1>3 DEF Untouched, Missing
<1>6. Accounts(t, work[t].report)'
  BY <1>2, <1>3, <1>4, <1>5 DEF Accounts
<1>7. TaskFits(t)' /\ LogFits(t)'
  BY <1>2, <1>3, <1>4, <1>5, <1>6, LateMove
<1>8. artifacts' \subseteq Listed
  <2>1. [task |-> t, by |-> "check", exists |-> work[t].made] \in Listed
    BY <1>1, Fields DEF Listed
  <2> QED BY <1>1, <1>2, <2>1 DEF TypeOK
<1>9. ~At(t, Early)' /\ ~At(t, {"storing"})'
  BY <1>3 DEF At, Early
<1> QED BY <1>1, <1>2, <1>3, <1>7, <1>8, <1>9, WorkerStep DEF TypeOK

LEMMA NothingToCheckIInv ==
  ASSUME IInv, NEW t \in Tasks, NothingToCheck(t)
  PROVE  IInv'
<1>1. TypeOK /\ TaskFits(t) /\ LogFits(t)
  BY DEF IInv
<1>2. /\ UNCHANGED <<proc, nodeStatus, events, logs, artifacts, stored, after, seen, hits>>
      /\ work[t].at = "checking" /\ ~Outputs(t) /\ GoesTo(t, "reporting")
  BY DEF NothingToCheck, tables, reader, At
<1>3. /\ work' \in [Tasks -> Worker] /\ \A u \in Tasks \ {t} : work'[u] = work[u]
      /\ work'[t].at = "reporting" /\ work'[t].known = work[t].known /\ work'[t].made = work[t].made
      /\ work'[t].report = work[t].report /\ work'[t].retry = work[t].retry
  BY <1>1, <1>2, Moved DEF Positions
<1>4. /\ proc[t].step = "ended" /\ work[t].report = proc[t].outcome /\ work[t].report \in NodeReported
      /\ ~work[t].retry /\ nodeStatus[t] \notin NodeTerminal /\ InLog(t, proc[t].wrote)
  BY <1>1, <1>2, NotFinal DEF TaskFits, LogFits, At, Positions
<1>5. proc[t].outcome = "success" => work[t].known = "none"
  BY <1>2 DEF Outputs
<1>6. Accounts(t, work[t].report)'
  BY <1>2, <1>3, <1>4, <1>5 DEF Accounts, Missing
<1>7. TaskFits(t)' /\ LogFits(t)'
  BY <1>2, <1>3, <1>4, <1>6, LateMove DEF Untouched
<1>8. ~At(t, Early)' /\ ~At(t, {"storing"})'
  BY <1>3 DEF At, Early
<1> QED BY <1>1, <1>2, <1>3, <1>7, <1>8, WorkerStep DEF TypeOK

LEMMA UploadIInv ==
  ASSUME IInv, NEW t \in Tasks, Upload(t)
  PROVE  IInv'
<1>1. TypeOK /\ TaskFits(t) /\ LogFits(t)
  BY DEF IInv
<1>2. /\ UNCHANGED <<proc, nodeStatus, events, logs, after, seen>>
      /\ work[t].at = "uploading" /\ GoesTo(t, "reporting")
  BY DEF Upload, reader, At
<1>3. /\ work' \in [Tasks -> Worker] /\ \A u \in Tasks \ {t} : work'[u] = work[u]
      /\ work'[t].at = "reporting" /\ work'[t].known = work[t].known /\ work'[t].made = work[t].made
      /\ work'[t].report = work[t].report /\ work'[t].retry = work[t].retry
  BY <1>1, <1>2, Moved DEF Positions
<1>4. /\ hits' \in [Tasks -> [Faults -> Nat]] /\ \A u \in Tasks \ {t} : hits'[u] = hits[u]
      /\ Untouched(t)' => Untouched(t)
  <2>1. CASE hits' = hits
    BY <1>1, <2>1 DEF TypeOK, Untouched
  <2>2. CASE Fault("database", t) \/ Fault("copy", t)
    BY <1>1, <2>2, Counted DEF TypeOK, Faults
  <2> QED BY <2>1, <2>2 DEF Upload
<1>5. stored' \subseteq Tasks /\ artifacts' \subseteq Listed
  <2>1. [task |-> t, by |-> "upload", exists |-> TRUE] \in Listed
    BY DEF Listed
  <2> QED BY <1>1, <2>1 DEF Upload, TypeOK
<1>6. /\ proc[t].step = "ended" /\ work[t].report \in NodeReported /\ Accounts(t, work[t].report)
      /\ ~work[t].retry /\ nodeStatus[t] \notin NodeTerminal /\ InLog(t, proc[t].wrote)
  BY <1>1, <1>2, NotFinal DEF TaskFits, LogFits, At, Positions
<1>7. Accounts(t, work[t].report)'
  BY <1>2, <1>3, <1>4, <1>6 DEF Accounts, Missing
<1>8. TaskFits(t)' /\ LogFits(t)'
  BY <1>2, <1>3, <1>4, <1>6, <1>7, LateMove
<1>9. ~At(t, Early)' /\ ~At(t, {"storing"})'
  BY <1>3 DEF At, Early
<1> QED BY <1>1, <1>2, <1>3, <1>4, <1>5, <1>8, <1>9, WorkerStep DEF TypeOK

(* The outcome is written, its event recorded, the artifacts listed. *)
LEMMA ReportIInv ==
  ASSUME IInv, NEW t \in Tasks, WriteOutcome(t) \/ RecordOutcome(t) \/ ListArtifacts(t)
  PROVE  IInv'
<1>1. TypeOK /\ TaskFits(t) /\ LogFits(t)
  BY DEF IInv
<1>2. /\ UNCHANGED <<proc, logs, stored, after, seen, hits>>
      /\ work[t].at \in {"reporting", "recording", "listing"}
  BY DEF WriteOutcome, RecordOutcome, ListArtifacts, tables, reader, At
<1>3. PICK p \in {"recording", "listing", "done"} : GoesTo(t, p)
  BY DEF WriteOutcome, RecordOutcome, ListArtifacts
<1>4. /\ work' \in [Tasks -> Worker] /\ \A u \in Tasks \ {t} : work'[u] = work[u]
      /\ work'[t].at = p /\ work'[t].known = work[t].known /\ work'[t].made = work[t].made
      /\ work'[t].report = work[t].report /\ work'[t].retry = work[t].retry
  BY <1>1, <1>3, Moved DEF Positions
<1>5. /\ proc[t].step = "ended" /\ work[t].report \in NodeReported /\ Accounts(t, work[t].report)
      /\ work[t].retry => work[t].report = "failed" /\ ~Untouched(t)
      /\ ~work[t].retry => InLog(t, proc[t].wrote)
  BY <1>1, <1>2 DEF TaskFits, LogFits, At, Positions
<1>6. nodeStatus' = nodeStatus \/ nodeStatus' = [nodeStatus EXCEPT ![t] = work[t].report]
  BY DEF WriteOutcome, RecordOutcome, ListArtifacts, SetNode
<1>7. nodeStatus' \in [Tasks -> NodeStatuses] /\ \A u \in Tasks \ {t} : nodeStatus'[u] = nodeStatus[u]
  BY <1>1, <1>5, <1>6, OpenStatuses DEF TypeOK
<1>8. nodeStatus'[t] = nodeStatus[t] \/ nodeStatus'[t] = work[t].report
  BY <1>1, <1>6 DEF TypeOK
<1>9. Untouched(t)' = Untouched(t) /\ Missing(t)' = Missing(t)
  BY <1>2, <1>4 DEF Untouched, Missing
<1>10. \A o : Accounts(t, o) => Accounts(t, o)'
  BY <1>2, <1>9 DEF Accounts
<1>11. nodeStatus'[t] \in NodeTerminal =>
         /\ Accounts(t, nodeStatus[t])'
         /\ Untouched(t)' \/ nodeStatus'[t] # "failed" => InLog(t, proc[t].wrote)
  <2>1. CASE nodeStatus'[t] = nodeStatus[t]
    BY <1>1, <1>2, <1>9, <2>1 DEF TaskFits, LogFits, Accounts
  <2>2. CASE nodeStatus'[t] = work[t].report
    BY <1>2, <1>5, <1>9, <2>2 DEF Accounts
  <2> QED BY <1>8, <2>1, <2>2
<1>12. Accounts(t, work[t].report)'
  BY <1>2, <1>4, <1>5, <1>9 DEF Accounts
<1>13. TaskFits(t)' /\ LogFits(t)'
  BY <1>2, <1>4, <1>5, <1>9, <1>11, <1>12, LateMove
<1>14. events' \in [Tasks -> Seq(NodeStatuses \X NodeStatuses)]
  <2>1. <<"running", work[t].report>> \in NodeStatuses \X NodeStatuses
    BY <1>5, OpenStatuses
  <2>2. events \in [Tasks -> Seq(NodeStatuses \X NodeStatuses)]
    BY <1>1 DEF TypeOK
  <2>3. Append(events[t], <<"running", work[t].report>>) \in Seq(NodeStatuses \X NodeStatuses)
    BY <2>1, <2>2
  <2>4. events' = events \/ events' = [events EXCEPT ![t] = Append(@, <<"running", work[t].report>>)]
    BY DEF WriteOutcome, RecordOutcome, ListArtifacts, Event
  <2> QED BY <2>2, <2>3, <2>4
<1>15. artifacts' \subseteq Listed
  <2>1. [task |-> t, by |-> "check", exists |-> work[t].made] \in Listed
    BY <1>1, Fields DEF Listed
  <2>2. \A a \in artifacts' : a \in artifacts \/ a = [task |-> t, by |-> "check", exists |-> work[t].made]
    BY DEF WriteOutcome, RecordOutcome, ListArtifacts
  <2> QED BY <1>1, <2>1, <2>2 DEF TypeOK
<1>16. ~At(t, Early)' /\ ~At(t, {"storing"})' /\ stored' \subseteq Tasks /\ hits' \in [Tasks -> [Faults -> Nat]]
  BY <1>1, <1>2, <1>4 DEF At, Early, TypeOK
<1> QED BY <1>2, <1>4, <1>7, <1>13, <1>14, <1>15, <1>16, WorkerStep

(* A failure makes a worker give up, or an agent report once more. *)
LEMMA DatabaseErrorIInv ==
  ASSUME IInv, NEW t \in Tasks, DatabaseError(t)
  PROVE  IInv'
<1>1. TypeOK /\ TaskFits(t) /\ LogFits(t)
  BY DEF IInv
<1>2. /\ UNCHANGED <<proc, nodeStatus, events, logs, artifacts, stored, after, seen>>
      /\ Fault("database", t)
      /\ work[t].at \in {"picked", "marked", "numbering", "storing", "inserting", "reporting", "recording", "listing"}
  BY DEF DatabaseError, Queries, tables, reader, At
<1>3. /\ hits' \in [Tasks -> [Faults -> Nat]] /\ \A u \in Tasks \ {t} : hits'[u] = hits[u]
      /\ Untouched(t)' => Untouched(t)
      /\ ~Untouched(t)'
  BY <1>1, <1>2, Counted DEF TypeOK, Faults
<1>4. nodeStatus[t] \in NodeTerminal =>
        /\ proc[t].step = "ended" /\ (nodeStatus[t] = "success" => proc[t].outcome = "success" /\ ~Missing(t))
        /\ nodeStatus[t] = "timed_out" => proc[t].outcome = "timed_out"
        /\ nodeStatus[t] # "failed" => InLog(t, proc[t].wrote)
  BY <1>1 DEF TaskFits, LogFits, Accounts
<1>5. SUFFICES /\ work' \in [Tasks -> Worker] /\ \A u \in Tasks \ {t} : work'[u] = work[u]
               /\ TaskFits(t)' /\ LogFits(t)'
               /\ At(t, Early)' => At(t, Early)
               /\ ~At(t, {"storing"})'
  BY <1>1, <1>2, <1>3, <1>5, WorkerStep DEF TypeOK
<1>6. CASE GoesTo(t, "idle") /\ work[t].at = "picked"
  <2>1. /\ work' \in [Tasks -> Worker] /\ \A u \in Tasks \ {t} : work'[u] = work[u]
        /\ work'[t].at = "idle" /\ work'[t].report = work[t].report /\ work'[t].retry = work[t].retry
    BY <1>1, <1>6, Moved DEF Positions
  <2>2. nodeStatus'[t] \notin NodeTerminal
    BY <1>1, <1>2, <1>6, NotFinal DEF At
  <2>3. TaskFits(t)' /\ LogFits(t)'
    BY <1>1, <1>2, <1>3, <1>6, <2>1, <2>2, EarlyMove
  <2> QED BY <1>6, <2>1, <2>3 DEF At, Early
<1>7. CASE GoesTo(t, "lost")
  <2>1. /\ work' \in [Tasks -> Worker] /\ \A u \in Tasks \ {t} : work'[u] = work[u]
        /\ work'[t].at = "lost" /\ work'[t].known = work[t].known /\ work'[t].made = work[t].made
        /\ work'[t].report = work[t].report /\ work'[t].retry = work[t].retry
    BY <1>1, <1>7, Moved DEF Positions
  <2>2. work[t].retry => work[t].report = "failed"
    BY <1>1 DEF TaskFits
  <2>3. Missing(t)' = Missing(t)
    BY <2>1 DEF Missing
  <2>4. TaskFits(t)'
    BY <1>2, <1>3, <1>4, <2>1, <2>2, <2>3 DEF TaskFits, At, Positions, Accounts
  <2>5. LogFits(t)'
    BY <1>2, <1>3, <1>4, <2>1 DEF LogFits, At, InLog
  <2> QED BY <2>1, <2>4, <2>5 DEF At, Early
<1>8. CASE /\ Goes(t, [work[t] EXCEPT !.at = "reporting", !.report = "failed", !.retry = TRUE])
           /\ Reports(t)
  <2> DEFINE w == [work[t] EXCEPT !.at = "reporting", !.report = "failed", !.retry = TRUE]
  <2>1. work[t] \in Worker /\ work \in [Tasks -> Worker]
    BY <1>1, Fields DEF TypeOK
  <2>2. /\ w \in Worker /\ w.at = "reporting" /\ w.report = "failed" /\ w.retry = TRUE
        /\ w.known = work[t].known /\ w.made = work[t].made
    BY <2>1, OpenStatuses DEF Worker, Positions
  <2>3. work' = [work EXCEPT ![t] = w]
    BY <1>8 DEF Goes
  <2> HIDE DEF w
  <2>4. work' \in [Tasks -> Worker] /\ work'[t] = w /\ \A u \in Tasks \ {t} : work'[u] = work[u]
    BY <2>1, <2>2, <2>3
  <2>5. proc[t].step = "ended"
    BY <1>1, <1>2, <1>8 DEF Reports, At, TaskFits, Positions
  <2>6. Missing(t)' = Missing(t)
    BY <2>2, <2>4 DEF Missing
  <2>7. Accounts(t, work[t].report)'
    BY <1>3, <2>2, <2>4 DEF Accounts
  <2>8. nodeStatus'[t] \in NodeTerminal =>
          /\ Accounts(t, nodeStatus[t])'
          /\ Untouched(t)' \/ nodeStatus'[t] # "failed" => InLog(t, proc[t].wrote)
    BY <1>2, <1>3, <1>4, <2>6 DEF Accounts
  <2>9. TaskFits(t)' /\ LogFits(t)'
    BY <1>2, <1>3, <2>2, <2>4, <2>5, <2>7, <2>8, OpenStatuses, LateMove
  <2> QED BY <2>2, <2>4, <2>9 DEF At, Early
<1> QED BY <1>6, <1>7, <1>8 DEF DatabaseError, At

-----------------------------------------------------------------------------
(* Steps of a call, of its child and of what the child leaves behind. *)

LEMMA ProcessStep ==
  ASSUME IInv, NEW t \in Tasks, NEW q \in Process, Becomes(t, q),
         UNCHANGED <<nodeStatus, events, logs, artifacts, stored, work, after, seen>>,
         hits' \in [Tasks -> [Faults -> Nat]], \A u \in Tasks \ {t} : hits'[u] = hits[u],
         Untouched(t)' => Untouched(t),
         proc[t].step # "ended" \/ (q.step = proc[t].step /\ q.outcome = proc[t].outcome /\ q.wrote = proc[t].wrote),
         q.blind => ~Untouched(t)',
         Fits(t, q), Told(q)
  PROVE  IInv'
<1>1. TypeOK /\ TaskFits(t) /\ LogFits(t) /\ NumbersFit /\ SkipsOnlyTwins
  BY DEF IInv
<1>2. proc' = [proc EXCEPT ![t] = q] /\ proc \in [Tasks -> Process]
  BY <1>1 DEF Becomes, TypeOK, ProcTypeOK
<1>3. proc' \in [Tasks -> Process] /\ proc'[t] = q /\ \A u \in Tasks \ {t} : proc'[u] = proc[u]
  BY <1>2
<1>4. TypeOK'
  BY <1>1, <1>3 DEF TypeOK, ProcTypeOK
<1>5. CallFits'
  BY <1>3 DEF IInv, CallFits
<1>6. OutcomesTrue'
  BY <1>3 DEF IInv, OutcomesTrue
<1>7. Missing(t)' = Missing(t) /\ \A S : InLog(t, S)' = InLog(t, S)
  BY DEF Missing, InLog
<1>8. TaskFits(t)' /\ LogFits(t)'
  <2>1. CASE proc[t].step # "ended"
    BY <1>1, <1>3, <2>1 DEF TaskFits, LogFits, At, Positions
  <2>2. CASE q.step = proc[t].step /\ q.outcome = proc[t].outcome /\ q.wrote = proc[t].wrote
    <3>1. \A o : Accounts(t, o) => Accounts(t, o)'
      BY <1>3, <1>7, <2>2 DEF Accounts
    <3>2. TaskFits(t)'
      BY <1>1, <1>3, <2>2, <3>1 DEF TaskFits, At
    <3>3. LogFits(t)'
      BY <1>1, <1>3, <1>7, <2>2 DEF LogFits, At
    <3> QED BY <3>2, <3>3
  <2> QED BY <2>1, <2>2
<1>9. \A u \in Tasks : TaskFits(u)' /\ LogFits(u)'
  BY <1>3, <1>8, Others DEF IInv
<1>10. NumbersFit' /\ SkipsOnlyTwins'
  BY <1>1, NumbersStay DEF At
<1> QED BY <1>4, <1>5, <1>6, <1>9, <1>10 DEF IInv

(* A process left behind is a fault that touches no row. *)
LEMMA GrandchildCounted ==
  ASSUME TypeOK, NEW t \in Tasks, NEW held \in BOOLEAN, Grandchild(t, held)
  PROVE  /\ hits' \in [Tasks -> [Faults -> Nat]]
         /\ \A u \in Tasks \ {t} : hits'[u] = hits[u]
         /\ Untouched(t)' => Untouched(t)
<1>1. hits \in [Tasks -> [Faults -> Nat]] /\ "grandchild" \in Faults
  BY DEF TypeOK, Faults
<1>2. CASE hits' = hits
  BY <1>1, <1>2 DEF Untouched
<1>3. CASE Fault("grandchild", t)
  BY <1>1, <1>3, Counted
<1> QED BY <1>2, <1>3 DEF Grandchild

(* How far a call has come, before a step of it. *)
LEMMA CallBefore ==
  ASSUME IInv, NEW t \in Tasks
  PROVE  /\ proc[t] \in Process /\ LinesOf[t] \subseteq Streams
         /\ Fits(t, proc[t]) /\ Told(proc[t]) /\ (proc[t].blind => ~Untouched(t))
<1>1. TypeOK /\ CallFits /\ OutcomesTrue /\ TaskFits(t)
  BY DEF IInv
<1> QED BY <1>1, Fields, LinesAssumption DEF CallFits, OutcomesTrue, TaskFits

LEMMA CallIInv ==
  ASSUME IInv, NEW t \in Tasks, Call(t)
  PROVE  IInv'
<1>1. /\ TypeOK /\ proc[t] \in Process /\ LinesOf[t] \subseteq Streams
      /\ Fits(t, proc[t]) /\ Told(proc[t]) /\ (proc[t].blind => ~Untouched(t))
  BY CallBefore DEF IInv
<1>2. UNCHANGED <<nodeStatus, events, logs, artifacts, stored, work, after, seen>>
  BY DEF Call, tables, reader
<1>3. ASSUME NEW q \in Process, Becomes(t, q), Fits(t, q), Told(q),
             proc[t].step # "ended", q.blind => ~Untouched(t)',
             hits' \in [Tasks -> [Faults -> Nat]], \A u \in Tasks \ {t} : hits'[u] = hits[u],
             Untouched(t)' => Untouched(t)
      PROVE  IInv'
  BY <1>2, <1>3, ProcessStep
<1>4. CASE UNCHANGED hits /\ (Spawn(t) \/ TooLate(t) \/ TryWait(t) \/ Sleep(t) \/ Wake(t) \/ Drain(t))
  <2>1. /\ hits' \in [Tasks -> [Faults -> Nat]] /\ \A u \in Tasks \ {t} : hits'[u] = hits[u]
        /\ Untouched(t)' = Untouched(t)
    BY <1>1, <1>4 DEF TypeOK, Untouched
  <2>2. SUFFICES ASSUME TRUE
                 PROVE  \E q \in Process : /\ Becomes(t, q) /\ Fits(t, q) /\ Told(q)
                                           /\ proc[t].step # "ended" /\ (q.blind => proc[t].blind)
    BY <1>1, <1>3, <2>1
  <2>3. CASE Spawn(t)
    <3>1. PICK q : /\ Becomes(t, q)
                   /\ \/ q = [proc[t] EXCEPT !.step = "watching", !.child = "alive"]
                      \/ q = [proc[t] EXCEPT !.step = "ended", !.outcome = "failed"]
      BY <2>3 DEF Spawn
    <3>2. /\ q \in Process /\ q.blind = proc[t].blind /\ q.wrote = proc[t].wrote /\ q.quit = proc[t].quit
          /\ \/ q.step = "watching" /\ q.child = "alive" /\ q.outcome = proc[t].outcome
             \/ q.step = "ended" /\ q.child = proc[t].child /\ q.outcome = "failed"
      BY <1>1, <3>1 DEF Process
    <3>3. proc[t].step = "none" /\ proc[t].child = "none" /\ proc[t].outcome = "none"
      BY <1>1, <2>3 DEF Spawn, Fits
    <3>4. ~proc[t].blind
      BY <1>1, <3>3 DEF Fits
    <3>5. Fits(t, q)
      BY <1>1, <3>2, <3>3, <3>4 DEF Fits
    <3>6. Told(q)
      BY <3>2, <3>3 DEF Told, Runs
    <3> QED BY <3>1, <3>2, <3>3, <3>5, <3>6
  <2>4. CASE TooLate(t)
    <3> DEFINE q == [proc[t] EXCEPT !.step = "draining", !.outcome = "timed_out"]
    <3>1. Becomes(t, q) /\ proc[t].step = "watching" /\ proc[t].age = Deadline /\ ~Runs(proc[t])
      BY <2>4 DEF TooLate, Due
    <3>2. /\ q \in Process /\ q.step = "draining" /\ q.outcome = "timed_out" /\ q.age = Deadline
          /\ q.child = proc[t].child /\ q.quit = proc[t].quit /\ q.wrote = proc[t].wrote
          /\ q.blind = proc[t].blind
      BY <1>1, <3>1 DEF Process
    <3> HIDE DEF q
    <3>3. Fits(t, q)
      BY <1>1, <3>1, <3>2 DEF Fits
    <3>4. Told(q)
      BY <1>1, <3>1, <3>2 DEF Fits, Told, Runs
    <3> QED BY <3>1, <3>2, <3>3, <3>4
  <2>5. CASE TryWait(t)
    <3> DEFINE o == IF proc[t].child = "ok" THEN "success" ELSE "failed"
               q == [proc[t] EXCEPT !.step = "draining", !.outcome = o]
    <3>1. Becomes(t, q) /\ proc[t].step = "watching" /\ proc[t].age < Deadline /\ ~Runs(proc[t])
      BY <2>5 DEF TryWait, Looks
    <3>2. /\ q \in Process /\ q.step = "draining" /\ q.outcome = o /\ q.age = proc[t].age
          /\ q.child = proc[t].child /\ q.quit = proc[t].quit /\ q.wrote = proc[t].wrote
          /\ q.blind = proc[t].blind
      BY <1>1, <3>1 DEF Process
    <3> HIDE DEF q
    <3>3. proc[t].child \in {"ok", "bad"} /\ proc[t].quit <= proc[t].age
      BY <1>1, <3>1 DEF Fits, Runs
    <3>4. proc[t].quit < Deadline
      BY <1>1, <3>1, <3>3, DeadlineAssumption DEF Process
    <3>5. Fits(t, q)
      BY <1>1, <3>1, <3>2, <3>3 DEF Fits
    <3>6. Told(q)
      BY <3>2, <3>3, <3>4 DEF Told, Runs
    <3> QED BY <3>1, <3>2, <3>5, <3>6
  <2>6. CASE Sleep(t)
    <3> DEFINE q == [proc[t] EXCEPT !.step = "sleeping"]
    <3>1. Becomes(t, q) /\ proc[t].step = "watching" /\ proc[t].age < Deadline /\ Runs(proc[t])
      BY <2>6 DEF Sleep, Looks
    <3>2. /\ q \in Process /\ q.step = "sleeping" /\ q.outcome = proc[t].outcome /\ q.age = proc[t].age
          /\ q.child = proc[t].child /\ q.wrote = proc[t].wrote /\ q.blind = proc[t].blind
      BY <1>1 DEF Process
    <3> HIDE DEF q
    <3>3. Fits(t, q)
      BY <1>1, <3>1, <3>2 DEF Fits, Runs
    <3>4. Told(q)
      BY <1>1, <3>1, <3>2 DEF Fits, Told
    <3> QED BY <3>1, <3>2, <3>3, <3>4
  <2>7. CASE Wake(t)
    <3> DEFINE q == [proc[t] EXCEPT !.step = "watching", !.age = @ + 1]
    <3>1. Becomes(t, q) /\ proc[t].step = "sleeping"
      BY <2>7 DEF Wake
    <3>2. proc[t].age < Deadline /\ proc[t].outcome = "none" /\ proc[t].age \in Nat /\ proc[t].quit \in Nat
      BY <1>1, <3>1, DeadlineAssumption DEF Fits, Process
    <3>3. proc[t].age + 1 \in 0..Deadline
      BY <3>2, DeadlineAssumption
    <3>4. /\ q \in Process /\ q.step = "watching" /\ q.outcome = proc[t].outcome
          /\ q.age = proc[t].age + 1 /\ q.quit = proc[t].quit
          /\ q.child = proc[t].child /\ q.wrote = proc[t].wrote /\ q.blind = proc[t].blind
      BY <1>1, <3>3 DEF Process
    <3> HIDE DEF q
    <3>5. Fits(t, q)
      BY <1>1, <3>1, <3>2, <3>4 DEF Fits
    <3>6. Told(q)
      BY <3>2, <3>4 DEF Told
    <3> QED BY <3>1, <3>4, <3>5, <3>6
  <2>8. CASE Drain(t)
    <3> DEFINE q == [proc[t] EXCEPT !.step = "ended"]
    <3>1. Becomes(t, q) /\ proc[t].step = "draining" /\ proc[t].child # "alive"
      BY <2>8 DEF Drain, PipesOpen
    <3>2. /\ q \in Process /\ q.step = "ended" /\ q.child = proc[t].child
          /\ q.outcome = proc[t].outcome /\ q.wrote = proc[t].wrote /\ q.age = proc[t].age
          /\ q.quit = proc[t].quit /\ q.blind = proc[t].blind
      BY <1>1 DEF Process
    <3> HIDE DEF q
    <3>3. Fits(t, q)
      BY <1>1, <3>1, <3>2 DEF Fits
    <3>4. Told(q)
      BY <1>1, <3>2 DEF Told, Runs
    <3> QED BY <3>1, <3>2, <3>3, <3>4
  <2> QED BY <1>4, <2>3, <2>4, <2>5, <2>6, <2>7, <2>8
<1>5. CASE WaitFails(t) /\ Fault("wait", t)
  <2> DEFINE o == IF proc[t].age = Deadline THEN "timed_out" ELSE "failed"
             q == [proc[t] EXCEPT !.step = "draining", !.blind = TRUE, !.outcome = o]
  <2>1. /\ hits' \in [Tasks -> [Faults -> Nat]] /\ \A u \in Tasks \ {t} : hits'[u] = hits[u]
        /\ (Untouched(t)' => Untouched(t)) /\ ~Untouched(t)'
    BY <1>1, <1>5, Counted DEF TypeOK, Faults
  <2>2. Becomes(t, q) /\ proc[t].step = "watching"
    BY <1>5 DEF WaitFails
  <2>3. /\ q \in Process /\ q.step = "draining" /\ q.child = proc[t].child /\ q.outcome = o
        /\ q.wrote = proc[t].wrote /\ q.age = proc[t].age /\ q.quit = proc[t].quit /\ q.blind = TRUE
    BY <1>1 DEF Process
  <2> HIDE DEF q
  <2>4. Fits(t, q)
    BY <1>1, <2>2, <2>3 DEF Fits
  <2>5. proc[t].child \in {"ok", "bad"} => proc[t].quit >= proc[t].age - 1
    BY <1>1, <2>2 DEF Fits
  <2>6. Told(q)
    BY <2>3, <2>5 DEF Told
  <2> QED BY <1>3, <2>1, <2>2, <2>3, <2>4, <2>6
<1>6. CASE \E held \in BOOLEAN : Kill(t, held) /\ Grandchild(t, held)
  <2>1. PICK held \in BOOLEAN : Kill(t, held) /\ Grandchild(t, held)
    BY <1>6
  <2>2. /\ hits' \in [Tasks -> [Faults -> Nat]] /\ \A u \in Tasks \ {t} : hits'[u] = hits[u]
        /\ Untouched(t)' => Untouched(t)
    BY <1>1, <2>1, GrandchildCounted
  <2> DEFINE g == Gone(t, "killed", held)
             q == [g EXCEPT !.step = "draining", !.outcome = "timed_out"]
  <2>3. /\ g \in Process /\ g.child = "killed" /\ g.age = proc[t].age /\ g.wrote = LinesOf[t]
        /\ g.blind = proc[t].blind
    BY <1>1 DEF Gone, Process
  <2>4. Becomes(t, q) /\ proc[t].step = "watching" /\ proc[t].age = Deadline
    BY <2>1 DEF Kill, Due
  <2> HIDE DEF g
  <2>5. /\ q \in Process /\ q.step = "draining" /\ q.outcome = "timed_out" /\ q.child = "killed"
        /\ q.age = Deadline /\ q.wrote = LinesOf[t] /\ q.blind = proc[t].blind
    BY <2>3, <2>4 DEF Process
  <2> HIDE DEF q
  <2>6. Fits(t, q) /\ Told(q)
    BY <2>5 DEF Fits, Told, Runs
  <2> QED BY <1>1, <1>3, <2>2, <2>4, <2>5, <2>6
<1> QED BY <1>4, <1>5, <1>6 DEF Call

LEMMA OutsideIInv ==
  ASSUME IInv, NEW t \in Tasks, Outside(t)
  PROVE  IInv'
<1>1. /\ TypeOK /\ proc[t] \in Process /\ LinesOf[t] \subseteq Streams
      /\ Fits(t, proc[t]) /\ Told(proc[t]) /\ (proc[t].blind => ~Untouched(t))
  BY CallBefore DEF IInv
<1>2. UNCHANGED <<nodeStatus, events, logs, artifacts, stored, work, after, seen>>
  BY DEF Outside, tables, reader
<1>3. CASE \E held \in BOOLEAN : (ClosesPipes(t, held) \/ ChildExits(t, held)) /\ Grandchild(t, held)
  <2>1. PICK held \in BOOLEAN : (ClosesPipes(t, held) \/ ChildExits(t, held)) /\ Grandchild(t, held)
    BY <1>3
  <2>2. /\ hits' \in [Tasks -> [Faults -> Nat]] /\ \A u \in Tasks \ {t} : hits'[u] = hits[u]
        /\ Untouched(t)' => Untouched(t)
    BY <1>1, <2>1, GrandchildCounted
  <2>3. PICK how \in {"quiet", "ok", "bad"} :
          Becomes(t, Gone(t, how, held)) /\ (how = "quiet" => proc[t].child = "alive")
    BY <2>1 DEF ChildExits, ClosesPipes
  <2> DEFINE q == Gone(t, how, held)
  <2>4. 0 \in 0..Deadline
    BY DeadlineAssumption
  <2>5. /\ q \in Process /\ q.step = proc[t].step /\ q.outcome = proc[t].outcome /\ q.child = how
        /\ q.age = proc[t].age /\ q.wrote = LinesOf[t] /\ q.blind = proc[t].blind
        /\ how # "quiet" => q.quit = proc[t].age
    BY <1>1, <2>3, <2>4 DEF Gone, Process
  <2>6. Becomes(t, q)
    BY <2>3
  <2> HIDE DEF q
  <2>7. Runs(proc[t]) /\ proc[t].step # "none"
    BY <1>1, <2>1 DEF ChildExits, ClosesPipes, Fits, Runs
  <2>8. /\ proc[t].step = "ended" => proc[t].wrote = LinesOf[t]
        /\ proc[t].outcome # "none" => proc[t].blind
    BY <1>1, <2>7 DEF Fits, Told, Runs
  <2>9. proc[t].age \in Nat /\ Deadline \in Nat
    BY <1>1, DeadlineAssumption DEF Process
  <2>10. Fits(t, q)
    BY <1>1, <2>3, <2>5, <2>7, <2>9 DEF Fits, Runs
  <2>11. /\ proc[t].outcome # "success"
         /\ proc[t].outcome = "timed_out" => proc[t].age = Deadline
    BY <1>1, <2>7 DEF Told, Runs
  <2>12. Told(q)
    BY <2>5, <2>8, <2>9, <2>11 DEF Told
  <2> QED BY <1>1, <1>2, <2>2, <2>5, <2>6, <2>8, <2>10, <2>12, ProcessStep
<1>4. CASE Release(t) /\ UNCHANGED hits
  <2> DEFINE q == [proc[t] EXCEPT !.held = FALSE]
  <2>1. /\ q \in Process /\ q.step = proc[t].step /\ q.child = proc[t].child /\ q.age = proc[t].age
        /\ q.outcome = proc[t].outcome /\ q.wrote = proc[t].wrote /\ q.quit = proc[t].quit
        /\ q.blind = proc[t].blind /\ q.held = FALSE
    BY <1>1 DEF Process
  <2>2. Becomes(t, q)
    BY <1>4 DEF Release
  <2>3. /\ hits' \in [Tasks -> [Faults -> Nat]] /\ \A u \in Tasks \ {t} : hits'[u] = hits[u]
        /\ Untouched(t)' = Untouched(t)
    BY <1>1, <1>4 DEF TypeOK, Untouched
  <2> HIDE DEF q
  <2>4. Fits(t, q)
    BY <1>1, <2>1 DEF Fits
  <2>5. Told(q)
    BY <1>1, <2>1 DEF Told, Runs
  <2> QED BY <1>1, <1>2, <2>1, <2>2, <2>3, <2>4, <2>5, ProcessStep
<1> QED BY <1>3, <1>4 DEF Outside

-----------------------------------------------------------------------------
(* The theorems. *)

LEMMA StutterIInv ==
  ASSUME IInv, UNCHANGED vars
  PROVE  IInv'
<1>1. UNCHANGED <<proc, nodeStatus, events, logs, artifacts, stored, work, after, seen, hits>>
  BY DEF vars, tables, reader
<1>2. TypeOK' /\ CallFits' /\ OutcomesTrue'
  BY <1>1 DEF IInv, TypeOK, ProcTypeOK, CallFits, OutcomesTrue
<1>3. \A u \in Tasks : TaskFits(u)' /\ LogFits(u)'
  BY <1>1, Others DEF IInv
<1>4. NumbersFit' /\ SkipsOnlyTwins'
  BY <1>1, NumbersStay DEF IInv, At
<1> QED BY <1>2, <1>3, <1>4 DEF IInv

LEMMA NextIInv == IInv /\ [Next]_vars => IInv'
<1> SUFFICES ASSUME IInv, [Next]_vars PROVE IInv'
  OBVIOUS
<1>1. CASE UNCHANGED vars
  BY <1>1, StutterIInv
<1>2. CASE ReadPage
  BY <1>2, ReadPageIInv
<1>3. ASSUME NEW t \in Tasks,
             Queue(t) \/ Pick(t) \/ Work(t) \/ Outside(t) \/ DatabaseError(t)
      PROVE  IInv'
  <2>1. CASE Work(t)
    BY <2>1, TakeIInv, LoadOutputsIInv, CallIInv, ReturnIInv, ReadSequenceIInv, StoreLineIInv,
       LogStoredIInv, CheckIInv, InsertArtifactIInv, NothingToCheckIInv, UploadIInv, ReportIInv DEF Work
  <2> QED BY <1>3, <2>1, QueueIInv, TakeIInv, OutsideIInv, DatabaseErrorIInv
<1> QED BY <1>1, <1>2, <1>3 DEF Next

(* The invariant the others follow from, of every reachable state: how far *)
(* each worker has come tells what it knows, what it has stored and what   *)
(* its row may say; the numbers of the log are used without a gap.         *)
THEOREM TaskInvariance == Spec => []IInv
<1>1. Init => IInv
  BY InitIInv
<1>2. IInv /\ [Next]_vars => IInv'
  BY NextIInv
<1> QED BY <1>1, <1>2, PTL DEF Spec

(* The tables, the workers and the processes keep their types. *)
THEOREM TaskTypes == Spec => []TypeOK
<1>1. IInv => TypeOK
  BY DEF IInv
<1> QED BY <1>1, TaskInvariance, PTL

(* run_process calls a success only what exited with code zero before the  *)
(* deadline, a failure what exited otherwise before it or was never        *)
(* started, and a timeout nothing that had exited an interval before the   *)
(* deadline; and unless it failed to ask for the child's exit, it does not *)
(* go on to collect the output while the child runs.                       *)
THEOREM OutcomesAreTrue == Spec => []OutcomesTrue
<1>1. IInv => OutcomesTrue
  BY DEF IInv
<1> QED BY <1>1, TaskInvariance, PTL

(* No fault is forgotten. *)
LEMMA Remembered ==
  ASSUME TypeOK, NEW t \in Tasks, NEW k \in Faults, Fault(k, t)
  PROVE  /\ \A u \in Tasks, j \in Faults : hits[u][j] > 0 => hits'[u][j] > 0
         /\ hits'[t][k] > 0
<1> DEFINE h == [hits[t] EXCEPT ![k] = @ + 1]
<1>1. hits' = [hits EXCEPT ![t] = h] /\ hits \in [Tasks -> [Faults -> Nat]]
  BY DEF Fault, TypeOK
<1>2. \A j \in Faults : h[j] = IF j = k THEN hits[t][j] + 1 ELSE hits[t][j]
  BY <1>1
<1> HIDE DEF h
<1>3. hits'[t] = h /\ \A u \in Tasks \ {t} : hits'[u] = hits[u]
  BY <1>1
<1>4. \A j \in Faults : hits[t][j] \in Nat
  BY <1>1
<1>5. \A j \in Faults : hits[t][j] > 0 \/ k = j => hits'[t][j] > 0
  BY <1>2, <1>3, <1>4
<1> QED BY <1>3, <1>5

LEMMA FaultsKept ==
  ASSUME TypeOK, [Next]_vars
  PROVE  \A u \in Tasks, j \in Faults : hits[u][j] > 0 => hits'[u][j] > 0
<1>1. CASE hits' = hits
  BY <1>1
<1>2. CASE \E k \in Faults, t \in Tasks : Fault(k, t)
  BY <1>2, Remembered
<1>3. hits' = hits \/ \E t \in Tasks :
        Fault("definition", t) \/ Fault("copy", t) \/ Fault("database", t) \/ Fault("grandchild", t) \/ Fault("wait", t)
  BY DEF Next, Work, Queue, Pick, MarkRunning, RecordPicked, LoadOutputs, Call, Return, ReadSequence, StoreLine,
     LogStored, CheckLocally, InsertArtifact, CheckRemotely, NothingToCheck, Upload, WriteOutcome, RecordOutcome,
     ListArtifacts, Outside, DatabaseError, ReadPage, CopyOutput, Grandchild, vars
<1> QED BY <1>1, <1>2, <1>3 DEF Faults

LEMMA Went ==
  ASSUME TypeOK, NEW t \in Tasks, NEW w, Goes(t, w)
  PROVE  work'[t] = w /\ \A u \in Tasks \ {t} : work'[u] = work[u]
BY DEF TypeOK, Goes

(* A step of one worker that leaves what it knows of the outputs alone. *)
LEMMA KnownStays ==
  ASSUME TypeOK, OutputsKnown, NEW t \in Tasks,
         work'[t].known = work[t].known, Loaded(t)' => Loaded(t),
         \A u \in Tasks \ {t} : work'[u] = work[u] /\ proc'[u].step = proc[u].step,
         \A u \in Tasks, j \in Faults : hits[u][j] > 0 => hits'[u][j] > 0
  PROVE  OutputsKnown'
<1>1. "definition" \in Faults
  BY DEF Faults
<1> SUFFICES ASSUME NEW u \in Tasks, Loaded(u)'
             PROVE  work'[u].known = Declared[u] \/ hits'[u]["definition"] > 0
  BY DEF OutputsKnown
<1>2. Loaded(u) /\ work'[u].known = work[u].known
  BY DEF Loaded, At
<1> QED BY <1>1, <1>2 DEF OutputsKnown

LEMMA LoadOutputsKnown ==
  ASSUME TypeOK, OutputsKnown, NEW t \in Tasks, LoadOutputs(t), [Next]_vars
  PROVE  OutputsKnown'
<1>1. /\ work[t] \in Worker
      /\ \A u \in Tasks, j \in Faults : hits[u][j] > 0 => hits'[u][j] > 0
      /\ proc' = proc
  BY Fields, FaultsKept DEF LoadOutputs
<1>2. PICK p, k : /\ Goes(t, [work[t] EXCEPT !.at = p, !.known = k])
                  /\ k = Declared[t] \/ Fault("definition", t)
  BY DEF LoadOutputs
<1> DEFINE w == [work[t] EXCEPT !.at = p, !.known = k]
<1>3. w.known = k
  BY <1>1 DEF Worker
<1>4. Goes(t, w)
  BY <1>2
<1> HIDE DEF w
<1>5. work'[t].known = k /\ \A u \in Tasks \ {t} : work'[u] = work[u]
  BY <1>3, <1>4, Went
<1>6. work'[t].known = Declared[t] \/ hits'[t]["definition"] > 0
  BY <1>2, <1>5, Remembered DEF Faults
<1>7. ASSUME NEW u \in Tasks \ {t}, Loaded(u)'
      PROVE  work'[u].known = Declared[u] \/ hits'[u]["definition"] > 0
  <2>1. Loaded(u) /\ work'[u] = work[u]
    BY <1>1, <1>5, <1>7 DEF Loaded, At
  <2> QED BY <1>1, <2>1 DEF OutputsKnown, Faults
<1> QED BY <1>6, <1>7 DEF OutputsKnown

(* The other steps of a worker. *)
LEMMA WorkerKnown ==
  ASSUME TypeOK, OutputsKnown, NEW t \in Tasks, [Next]_vars,
         \/ Pick(t) \/ MarkRunning(t) \/ RecordPicked(t) \/ Return(t)
         \/ ReadSequence(t) \/ StoreLine(t) \/ LogStored(t)
         \/ CheckLocally(t) \/ InsertArtifact(t) \/ CheckRemotely(t) \/ NothingToCheck(t) \/ Upload(t)
         \/ WriteOutcome(t) \/ RecordOutcome(t) \/ ListArtifacts(t) \/ DatabaseError(t)
  PROVE  OutputsKnown'
<1>1. /\ proc' = proc /\ work[t] \in Worker
      /\ \A u \in Tasks, j \in Faults : hits[u][j] > 0 => hits'[u][j] > 0
  BY Fields, FaultsKept
     DEF Pick, MarkRunning, RecordPicked, Return, ReadSequence, StoreLine, LogStored, CheckLocally, InsertArtifact,
         CheckRemotely, NothingToCheck, Upload, WriteOutcome, RecordOutcome, ListArtifacts, DatabaseError
<1>2. ASSUME NEW w, Goes(t, w), w.known = work[t].known,
             w.at = "running" \/ (t \in Remote /\ w.at \in {"picked", "marked"}) => Loaded(t)
      PROVE  OutputsKnown'
  <2>1. work'[t] = w /\ \A u \in Tasks \ {t} : work'[u] = work[u]
    BY <1>2, Went
  <2>2. Loaded(t)' => Loaded(t)
    BY <1>1, <1>2, <2>1 DEF Loaded, At
  <2> QED BY <1>1, <1>2, <2>1, <2>2, KnownStays
<1>3. ASSUME NEW p \in Positions, GoesTo(t, p),
             p = "running" \/ (t \in Remote /\ p \in {"picked", "marked"}) => Loaded(t)
      PROVE  OutputsKnown'
  <2>1. [work[t] EXCEPT !.at = p].at = p /\ [work[t] EXCEPT !.at = p].known = work[t].known
    BY <1>1 DEF Worker
  <2> QED BY <1>2, <1>3, <2>1 DEF GoesTo
<1>4. CASE Pick(t) \/ MarkRunning(t) \/ RecordPicked(t)
  <2>1. PICK p \in {"loading", "picked", "marked", "running"} :
          GoesTo(t, p) /\ (p = "running" \/ (t \in Remote /\ p \in {"picked", "marked"}) => Loaded(t))
    BY <1>4 DEF Pick, MarkRunning, RecordPicked, At, Loaded, Local
  <2> QED BY <1>3, <2>1 DEF Positions
<1>5. CASE \/ LogStored(t) \/ InsertArtifact(t) \/ NothingToCheck(t) \/ Upload(t)
           \/ RecordOutcome(t) \/ ListArtifacts(t) \/ WriteOutcome(t)
  <2>1. PICK p \in {"checking", "reporting", "recording", "listing", "done"} : GoesTo(t, p)
    BY <1>5 DEF LogStored, InsertArtifact, NothingToCheck, Upload, RecordOutcome, ListArtifacts, WriteOutcome
  <2> QED BY <1>3, <2>1 DEF Positions
<1>6. CASE Return(t) \/ ReadSequence(t) \/ StoreLine(t) \/ CheckLocally(t) \/ CheckRemotely(t)
  <2>1. PICK w : Goes(t, w) /\ w.known = work[t].known /\ w.at \notin {"running", "picked", "marked"}
    <3>1. CASE Return(t)
      <4>1. PICK p \in {"numbering", "checking"} :
              Goes(t, [work[t] EXCEPT !.at = p, !.left = proc[t].wrote, !.report = proc[t].outcome])
        BY <3>1 DEF Return
      <4> DEFINE w == [work[t] EXCEPT !.at = p, !.left = proc[t].wrote, !.report = proc[t].outcome]
      <4>2. w.at = p /\ w.known = work[t].known
        BY <1>1 DEF Worker
      <4>3. Goes(t, w)
        BY <4>1
      <4> HIDE DEF w
      <4> QED BY <4>2, <4>3
    <3>2. CASE ReadSequence(t)
      <4> DEFINE w == [work[t] EXCEPT !.at = "storing", !.next = LastNumber]
      <4>1. w.at = "storing" /\ w.known = work[t].known
        BY <1>1 DEF Worker
      <4>2. Goes(t, w)
        BY <3>2 DEF ReadSequence
      <4> HIDE DEF w
      <4> QED BY <4>1, <4>2
    <3>3. CASE StoreLine(t)
      <4>1. PICK s : Goes(t, [work[t] EXCEPT !.next = @ + 1, !.left = @ \ {s}])
        BY <3>3 DEF StoreLine
      <4>2. work[t].at = "storing"
        BY <3>3 DEF StoreLine, At
      <4> DEFINE w == [work[t] EXCEPT !.next = @ + 1, !.left = @ \ {s}]
      <4>3. w.at = work[t].at /\ w.known = work[t].known
        BY <1>1 DEF Worker
      <4>4. Goes(t, w)
        BY <4>1
      <4> HIDE DEF w
      <4> QED BY <4>2, <4>3, <4>4
    <3>4. CASE CheckLocally(t) \/ CheckRemotely(t)
      <4>1. PICK exists \in BOOLEAN, to \in {"inserting", "reporting", "uploading"} :
              Goes(t, [work[t] EXCEPT !.at = to, !.made = exists, !.report = Verdict(t, exists)])
        BY <3>4 DEF CheckLocally, CheckRemotely, Checked
      <4> DEFINE w == [work[t] EXCEPT !.at = to, !.made = exists, !.report = Verdict(t, exists)]
      <4>2. w.at = to /\ w.known = work[t].known
        BY <1>1 DEF Worker
      <4>3. Goes(t, w)
        BY <4>1
      <4> HIDE DEF w
      <4> QED BY <4>2, <4>3
    <3> QED BY <1>6, <3>1, <3>2, <3>3, <3>4
  <2> QED BY <1>2, <2>1
<1>7. CASE DatabaseError(t)
  <2>1. CASE \E p \in {"idle", "lost"} : GoesTo(t, p)
    BY <1>3, <2>1 DEF Positions
  <2>2. CASE Goes(t, [work[t] EXCEPT !.at = "reporting", !.report = "failed", !.retry = TRUE])
    <3> DEFINE w == [work[t] EXCEPT !.at = "reporting", !.report = "failed", !.retry = TRUE]
    <3>1. w.known = work[t].known /\ w.at = "reporting"
      BY <1>1 DEF Worker
    <3>2. Goes(t, w)
      BY <2>2
    <3> HIDE DEF w
    <3> QED BY <1>2, <3>1, <3>2
  <2> QED BY <1>7, <2>1, <2>2 DEF DatabaseError
<1> QED BY <1>4, <1>5, <1>6, <1>7

(* The calls themselves: a process is started only once the outputs are    *)
(* known.                                                                  *)
LEMMA NextKnown == IInv /\ OutputsKnown /\ [Next]_vars => OutputsKnown'
<1> SUFFICES ASSUME IInv, OutputsKnown, [Next]_vars PROVE OutputsKnown'
  OBVIOUS
<1>1. TypeOK /\ \A u \in Tasks, j \in Faults : hits[u][j] > 0 => hits'[u][j] > 0
  BY FaultsKept DEF IInv
<1>2. CASE \E t \in Tasks : Call(t) \/ Outside(t)
  <2>1. PICK t \in Tasks : Call(t) \/ Outside(t)
    BY <1>2
  <2>2. work' = work /\ proc \in [Tasks -> Process]
    BY <1>1, <2>1 DEF Call, Outside, TypeOK, ProcTypeOK
  <2>3. PICK p : proc' = [proc EXCEPT ![t] = p]
    BY <2>1 DEF Call, Outside, Spawn, TooLate, TryWait, Sleep, Wake, Drain, WaitFails, Kill, ClosesPipes, ChildExits,
       Release, Becomes
  <2>4. CASE Call(t)
    <3>1. At(t, {"running"}) /\ \A u \in Tasks \ {t} : proc'[u] = proc[u]
      BY <2>2, <2>3, <2>4 DEF Call
    <3> QED BY <1>1, <2>2, <3>1, KnownStays DEF Loaded
  <2>5. CASE Outside(t)
    <3>1. PICK q : proc' = [proc EXCEPT ![t] = q] /\ q.step = proc[t].step
      <4>1. proc[t] \in Process
        BY <2>2
      <4>2. [proc[t] EXCEPT !.held = FALSE].step = proc[t].step
        BY <4>1 DEF Process
      <4>3. \A how, held : Gone(t, how, held).step = proc[t].step
        BY <4>1 DEF Process, Gone
      <4>4. CASE Release(t)
        BY <4>2, <4>4 DEF Release, Becomes
      <4>5. CASE \E how, held : Becomes(t, Gone(t, how, held))
        BY <4>3, <4>5 DEF Becomes
      <4> QED BY <2>5, <4>4, <4>5 DEF Outside, ClosesPipes, ChildExits
    <3>2. proc'[t].step = proc[t].step /\ \A u \in Tasks \ {t} : proc'[u] = proc[u]
      BY <2>2, <3>1
    <3>3. Loaded(t)' => Loaded(t)
      BY <2>2, <3>2 DEF Loaded, At
    <3> QED BY <1>1, <2>2, <3>2, <3>3, KnownStays
  <2> QED BY <2>1, <2>4, <2>5
<1>3. CASE UNCHANGED <<proc, work>>
  <2>1. \A u \in Tasks : Loaded(u)' => Loaded(u)
    BY <1>3 DEF Loaded, At
  <2> QED BY <1>1, <1>3, <2>1 DEF OutputsKnown, Faults
<1>4. CASE \E t \in Tasks : Queue(t) \/ ReadPage
  BY <1>3, <1>4 DEF Queue, ReadPage
<1> QED BY <1>1, <1>2, <1>3, <1>4, LoadOutputsKnown, WorkerKnown DEF Next, Work, ReadPage, vars

LEMMA OutputsAreKnown == Spec => []OutputsKnown
<1>1. Init => OutputsKnown
  BY DEF Init, ProcInit, Fresh, Idle, OutputsKnown, Loaded, At
<1>2. IInv /\ OutputsKnown /\ [Next]_vars => OutputsKnown'
  BY NextKnown
<1> QED BY <1>1, <1>2, TaskInvariance, PTL DEF Spec

(* A node's row tells what became of its process and of its output, for    *)
(* local and remote nodes alike: without a required output it is a success *)
(* only if the definition could not be loaded, and failed tells of less    *)
(* only after a fault (execute_local_task, execute_task, report_result,    *)
(* poll_loop).                                                             *)
THEOREM RowsAreTrue == Spec => []OutcomeTrue
<1>1. ASSUME IInv, OutputsKnown PROVE OutcomeTrue
  <2> SUFFICES ASSUME NEW t \in Tasks
               PROVE  /\ nodeStatus[t] = "success" =>
                           /\ proc[t].child = "ok"
                           /\ Declared[t] = "required" => work[t].made \/ hits[t]["definition"] > 0
                      /\ nodeStatus[t] = "timed_out" => proc[t].outcome = "timed_out"
                      /\ nodeStatus[t] = "failed" /\ Untouched(t) =>
                           proc[t].child \in {"none", "bad"} \/ (proc[t].child = "ok" /\ Missing(t))
    BY DEF OutcomeTrue
  <2>1. nodeStatus[t] \in NodeTerminal => Accounts(t, nodeStatus[t]) /\ proc[t].step = "ended"
    BY <1>1 DEF IInv, TaskFits
  <2>2. /\ proc[t].outcome = "success" => proc[t].child = "ok"
        /\ proc[t].outcome = "failed" /\ Untouched(t) => proc[t].child \in {"none", "bad"}
    BY <1>1 DEF IInv, OutcomesTrue, Told, TaskFits
  <2>3. nodeStatus[t] = "success" => work[t].known = Declared[t] \/ hits[t]["definition"] > 0
    BY <1>1, <2>1 DEF OutputsKnown, Loaded, NodeTerminal, NodeReported
  <2>4. work[t].made \in BOOLEAN
    BY <1>1, Fields DEF IInv
  <2> QED BY <2>1, <2>2, <2>3, <2>4 DEF Accounts, Missing, NodeTerminal, NodeReported
<1>2. IInv /\ OutputsKnown => OutcomeTrue
  BY <1>1
<1> QED BY <1>2, TaskInvariance, OutputsAreKnown, PTL

(* Whoever sees how a node ended can read all it wrote                     *)
(* (execute_local_task, execute_task, get_run_logs).                       *)
THEOREM LogComesFirst == Spec => []LogsBeforeOutcome
<1>1. IInv => LogsBeforeOutcome
  BY DEF IInv, LogFits, LogsBeforeOutcome
<1> QED BY <1>1, TaskInvariance, PTL

(* Paging by sequence number loses no line but the twin of one it has      *)
(* given, whatever the page size and however the tasks' INSERTs interleave *)
(* (report_logs, execute_local_task, get_run_logs).                        *)
THEOREM OnlyTwinsSkipped == Spec => []SkipsOnlyTwins
<1>1. IInv => SkipsOnlyTwins
  BY DEF IInv
<1> QED BY <1>1, TaskInvariance, PTL

-----------------------------------------------------------------------------
(* The refinement of RemoteWorkers. *)

RowsFit == \A t \in Tasks : RowFits(t)

(* A step that leaves the rows alone, and no worker that is lost recovers. *)
LEMMA QuietStep ==
  ASSUME nodeStatus' = nodeStatus,
         \A u \in Tasks : At(u, {"lost"}) => At(u, {"lost"})',
         \A u \in Tasks : hits[u]["database"] > 0 => hits'[u]["database"] > 0
  PROVE  Workers!Next
BY DEF Workers!Next, Suffered

(* A step of the worker of t that leaves its row alone. *)
Way(t) ==
  LET at == work[t].at
      to == work'[t].at
      busy == {"running", "numbering", "storing", "checking", "inserting", "uploading", "reporting"}
      late == {"recording", "listing", "done"}
  IN  \/ at = "idle" /\ nodeStatus[t] = "queued" /\ to = IF t \in Remote THEN "loading" ELSE "picked"
      \/ at = "loading" /\ to = IF t \in Remote THEN "picked" ELSE "running"
      \/ at = "marked" /\ to = IF t \in Remote THEN "running" ELSE "loading"
      \/ at \in busy /\ to \in busy
      \/ at \in late /\ to \in late
      \/ at = "picked" /\ to = "idle"
      \/ at \in Positions \ {"idle", "loading", "picked", "lost"} /\ to = "lost"

LEMMA WorkerMoves ==
  ASSUME TypeOK, RowsFit, NEW t \in Tasks, Way(t),
         nodeStatus' = nodeStatus, work'[t].retry = work[t].retry,
         \A u \in Tasks \ {t} : work'[u] = work[u],
         \A u \in Tasks : hits[u]["database"] > 0 => hits'[u]["database"] > 0
  PROVE  RowsFit' /\ Workers!Next
<1>1. RowFits(t)
  BY DEF RowsFit
<1>2. RowFits(t)'
  BY <1>1 DEF RowFits, Way, At, Positions
<1>3. ASSUME NEW u \in Tasks \ {t} PROVE RowFits(u)'
  BY DEF RowsFit, RowFits, At
<1>4. work[t].at # "lost"
  BY DEF Way
<1>5. \A u \in Tasks : At(u, {"lost"}) => At(u, {"lost"})'
  BY <1>4 DEF At
<1> QED BY <1>2, <1>3, <1>5, QuietStep DEF RowsFit

(* The steps that leave the workers and the rows alone. *)
LEMMA OutsideMoves ==
  ASSUME TypeOK, RowsFit,
         UNCHANGED vars \/ ReadPage \/ (\E t \in Tasks : Call(t) \/ Outside(t))
  PROVE  RowsFit' /\ Workers!Next
<1>1. UNCHANGED <<nodeStatus, work>>
  BY DEF vars, ReadPage, Call, Outside, tables
<1>2. \A u \in Tasks : hits[u]["database"] > 0 => hits'[u]["database"] > 0
  <2>1. CASE hits' = hits
    BY <2>1
  <2>2. CASE \E t \in Tasks : Fault("grandchild", t) \/ Fault("wait", t)
    BY <2>2, Remembered DEF Faults
  <2> QED BY <2>1, <2>2 DEF vars, ReadPage, Call, Outside, Grandchild
<1>3. RowsFit'
  BY <1>1, <1>2 DEF RowsFit, RowFits, At
<1>4. Workers!Next
  BY <1>1, <1>2, QuietStep DEF At
<1> QED BY <1>3, <1>4

(* Until the outcome is written. *)
LEMMA BusyMoves ==
  ASSUME TypeOK, RowsFit, NEW t \in Tasks,
         \/ Pick(t) \/ RecordPicked(t) \/ LoadOutputs(t) \/ Return(t)
         \/ ReadSequence(t) \/ StoreLine(t) \/ LogStored(t)
         \/ CheckLocally(t) \/ InsertArtifact(t) \/ CheckRemotely(t) \/ NothingToCheck(t) \/ Upload(t)
         \/ RecordOutcome(t) \/ ListArtifacts(t)
  PROVE  RowsFit' /\ Workers!Next
<1>1. nodeStatus' = nodeStatus
  BY DEF Pick, RecordPicked, LoadOutputs, Return, ReadSequence, StoreLine, LogStored, CheckLocally, InsertArtifact,
     CheckRemotely, NothingToCheck, Upload, RecordOutcome, ListArtifacts, tables
<1>2. \A u \in Tasks : hits[u]["database"] > 0 => hits'[u]["database"] > 0
  <2>1. CASE hits' = hits
    BY <2>1
  <2>2. CASE \E k \in Faults : Fault(k, t)
    BY <2>2, Remembered DEF Faults
  <2>3. hits' = hits \/ Fault("definition", t) \/ Fault("copy", t) \/ Fault("database", t)
    BY DEF Pick, RecordPicked, LoadOutputs, Return, ReadSequence, StoreLine, LogStored, CheckLocally, InsertArtifact,
       CheckRemotely, NothingToCheck, Upload, RecordOutcome, ListArtifacts, CopyOutput
  <2> QED BY <2>1, <2>2, <2>3 DEF Faults
<1>3. work[t] \in Worker
  BY Fields
<1>4. ASSUME NEW w, Goes(t, w), w.retry = work[t].retry,
             Way(t) \/ work'[t] # w
      PROVE  RowsFit' /\ Workers!Next
  BY <1>1, <1>2, <1>4, Went, WorkerMoves
<1>5. ASSUME NEW p \in Positions, GoesTo(t, p), Way(t) \/ work'[t].at # p
      PROVE  RowsFit' /\ Workers!Next
  BY <1>1, <1>2, <1>5, Moved, WorkerMoves
<1>6. CASE Pick(t) \/ RecordPicked(t)
  <2>1. PICK p \in {"loading", "picked", "running"} : GoesTo(t, p) /\ (work'[t].at = p => Way(t))
    BY <1>6 DEF Pick, RecordPicked, At, Way
  <2> QED BY <1>5, <2>1 DEF Positions
<1>7. CASE LoadOutputs(t)
  <2> DEFINE p == IF t \in Remote THEN "picked" ELSE "running"
  <2>1. PICK k : Goes(t, [work[t] EXCEPT !.at = p, !.known = k])
    BY <1>7 DEF LoadOutputs
  <2>2. work'[t].at = p => Way(t)
    BY <1>7 DEF LoadOutputs, At, Way
  <2> DEFINE w == [work[t] EXCEPT !.at = p, !.known = k]
  <2>3. w.at = p /\ w.retry = work[t].retry
    BY <1>3 DEF Worker
  <2>4. Goes(t, w)
    BY <2>1
  <2> HIDE DEF p, w
  <2> QED BY <1>4, <2>2, <2>3, <2>4
<1>8. CASE Return(t)
  <2> DEFINE p == IF t \in Local \/ proc[t].wrote # {} THEN "numbering" ELSE "checking"
             w == [work[t] EXCEPT !.at = p, !.left = proc[t].wrote, !.report = proc[t].outcome]
  <2>1. (work'[t].at = p => Way(t)) /\ Goes(t, w)
    BY <1>8 DEF Return, At, Way
  <2>2. w.at = p /\ w.retry = work[t].retry
    BY <1>3 DEF Worker
  <2> HIDE DEF p, w
  <2> QED BY <1>4, <2>1, <2>2
<1>9. CASE ReadSequence(t)
  <2> DEFINE w == [work[t] EXCEPT !.at = "storing", !.next = LastNumber]
  <2>1. (work'[t].at = "storing" => Way(t)) /\ Goes(t, w)
    BY <1>9 DEF ReadSequence, At, Way
  <2>2. w.at = "storing" /\ w.retry = work[t].retry
    BY <1>3 DEF Worker
  <2> HIDE DEF w
  <2> QED BY <1>4, <2>1, <2>2
<1>10. CASE StoreLine(t)
  <2>1. PICK s : Goes(t, [work[t] EXCEPT !.next = @ + 1, !.left = @ \ {s}])
    BY <1>10 DEF StoreLine
  <2> DEFINE w == [work[t] EXCEPT !.next = @ + 1, !.left = @ \ {s}]
  <2>2. w.at = work[t].at /\ w.retry = work[t].retry
    BY <1>3 DEF Worker
  <2>3. work'[t].at = work[t].at => Way(t)
    BY <1>10 DEF StoreLine, At, Way
  <2>4. Goes(t, w)
    BY <2>1
  <2> HIDE DEF w
  <2> QED BY <1>4, <2>2, <2>3, <2>4
<1>11. CASE CheckLocally(t) \/ CheckRemotely(t)
  <2>1. PICK exists \in BOOLEAN, to \in {"inserting", "reporting", "uploading"} : Checked(t, exists, to)
    BY <1>11 DEF CheckLocally, CheckRemotely
  <2> DEFINE w == [work[t] EXCEPT !.at = to, !.made = exists, !.report = Verdict(t, exists)]
  <2>2. w.at = to /\ w.retry = work[t].retry
    BY <1>3 DEF Worker
  <2>3. work'[t].at = to => Way(t)
    BY <1>11 DEF CheckLocally, CheckRemotely, At, Way
  <2>4. Goes(t, w)
    BY <2>1 DEF Checked
  <2> HIDE DEF w
  <2> QED BY <1>4, <2>2, <2>3, <2>4
<1>12. CASE LogStored(t) \/ InsertArtifact(t) \/ NothingToCheck(t) \/ Upload(t) \/ RecordOutcome(t) \/ ListArtifacts(t)
  <2>1. PICK p \in {"checking", "reporting", "listing", "done"} : GoesTo(t, p) /\ (work'[t].at = p => Way(t))
    BY <1>12 DEF LogStored, InsertArtifact, NothingToCheck, Upload, RecordOutcome, ListArtifacts, At, Way
  <2> QED BY <1>5, <2>1 DEF Positions
<1> QED BY <1>6, <1>7, <1>8, <1>9, <1>10, <1>11, <1>12

(* The steps that change a row. *)
LEMMA RowMoves ==
  ASSUME TypeOK, RowsFit, IInv, NEW t \in Tasks, Queue(t) \/ MarkRunning(t) \/ WriteOutcome(t)
  PROVE  RowsFit' /\ Workers!Next
<1>1. /\ hits' = hits /\ RowFits(t) /\ nodeStatus \in [Tasks -> NodeStatuses]
  BY DEF Queue, MarkRunning, WriteOutcome, RowsFit, TypeOK
<1> DEFINE Ex == {u \in Tasks : nodeStatus[u] = "running" /\ ~At(u, {"lost"})}
<1>2. CASE Queue(t)
  <2>1. nodeStatus' = [nodeStatus EXCEPT ![t] = "queued"] /\ nodeStatus[t] = "pending" /\ work' = work
    BY <1>2 DEF Queue, SetNode
  <2>2. nodeStatus'[t] = "queued" /\ \A u \in Tasks \ {t} : nodeStatus'[u] = nodeStatus[u]
    BY <1>1, <2>1
  <2>3. ASSUME NEW u \in Tasks PROVE RowFits(u)'
    BY <1>1, <2>1, <2>2 DEF RowsFit, RowFits, At, NodeReported
  <2>4. Ex' = Ex
    BY <2>1, <2>2 DEF At
  <2>5. Workers!Queue(t)
    BY <2>1, <2>4 DEF Workers!Queue, Workers!Move
  <2> QED BY <1>1, <2>3, <2>5 DEF RowsFit, Workers!Next, Suffered
<1>3. CASE MarkRunning(t)
  <2>1. /\ nodeStatus' = [nodeStatus EXCEPT ![t] = "running"] /\ work[t].at = "picked"
        /\ GoesTo(t, "marked")
    BY <1>3 DEF MarkRunning, SetNode, At
  <2>2. nodeStatus'[t] = "running" /\ \A u \in Tasks \ {t} : nodeStatus'[u] = nodeStatus[u]
    BY <1>1, <2>1
  <2>3. /\ work'[t].at = "marked" /\ work'[t].retry = work[t].retry
        /\ \A u \in Tasks \ {t} : work'[u] = work[u]
    BY <2>1, Moved DEF Positions
  <2>4. nodeStatus[t] = "queued" /\ ~work[t].retry
    BY <1>1, <2>1 DEF RowFits, At, NodeReported
  <2>5. ASSUME NEW u \in Tasks \ {t} PROVE RowFits(u)'
    BY <1>1, <2>2, <2>3 DEF RowsFit, RowFits, At
  <2>6. RowFits(t)'
    BY <2>2, <2>3, <2>4 DEF RowFits, At
  <2>7. Ex' = Ex \cup {t}
    BY <2>2, <2>3 DEF At
  <2>8. Workers!Start(t)
    BY <2>1, <2>4, <2>7 DEF Workers!Start, Workers!Move
  <2> QED BY <1>1, <2>5, <2>6, <2>8 DEF RowsFit, Workers!Next, Suffered
<1>4. CASE WriteOutcome(t)
  <2>1. /\ nodeStatus' = [nodeStatus EXCEPT ![t] = work[t].report] /\ work[t].at = "reporting"
        /\ GoesTo(t, "recording")
    BY <1>4 DEF WriteOutcome, SetNode, At
  <2>2. nodeStatus'[t] = work[t].report /\ \A u \in Tasks \ {t} : nodeStatus'[u] = nodeStatus[u]
    BY <1>1, <2>1
  <2>3. /\ work'[t].at = "recording" /\ work'[t].retry = work[t].retry
        /\ \A u \in Tasks \ {t} : work'[u] = work[u]
    BY <2>1, Moved DEF Positions
  <2>4. work[t].report \in NodeReported
    BY <2>1 DEF IInv, TaskFits, At, Positions
  <2>5. ASSUME NEW u \in Tasks \ {t} PROVE RowFits(u)'
    BY <1>1, <2>2, <2>3 DEF RowsFit, RowFits, At
  <2>6. RowFits(t)'
    BY <1>1, <2>2, <2>3, <2>4 DEF RowFits, At
  <2>7. Ex' = Ex \ {t}
    BY <2>2, <2>3, <2>4 DEF At, NodeReported
  <2>8. CASE nodeStatus[t] = "running"
    <3>1. t \in Ex
      BY <2>1, <2>8 DEF At
    <3>2. Workers!Finish(t)
      BY <2>1, <2>4, <2>7, <2>8, <3>1 DEF Workers!Finish, Workers!Move, Workers!NodeReported, NodeReported
    <3> QED BY <1>1, <2>5, <2>6, <3>2 DEF RowsFit, Workers!Next, Suffered
  <2>9. CASE nodeStatus[t] # "running"
    <3>1. /\ nodeStatus[t] \in NodeReported
          /\ t \in Remote /\ hits[t]["database"] > 0
      BY <1>1, <2>1, <2>9 DEF RowFits, At
    <3>2. Ex' = Ex
      BY <2>7, <2>9
    <3>3. Workers!Rewrite(t)
      BY <2>1, <2>4, <3>1, <3>2 DEF Workers!Rewrite, Workers!Move, Workers!NodeReported, NodeReported, Suffered
    <3> QED BY <1>1, <2>5, <2>6, <3>3 DEF RowsFit, Workers!Next, Suffered
  <2> QED BY <2>8, <2>9
<1> QED BY <1>2, <1>3, <1>4

LEMMA FailureMoves ==
  ASSUME TypeOK, RowsFit, NEW t \in Tasks, DatabaseError(t)
  PROVE  RowsFit' /\ Workers!Next
<1>1. /\ nodeStatus' = nodeStatus /\ Fault("database", t) /\ work[t] \in Worker /\ RowFits(t)
      /\ work[t].at \in {"picked", "marked", "numbering", "storing", "inserting", "reporting", "recording", "listing"}
  BY Fields DEF DatabaseError, Queries, tables, At, RowsFit
<1>2. /\ \A u \in Tasks : hits[u]["database"] > 0 => hits'[u]["database"] > 0
      /\ hits'[t]["database"] > 0
  BY <1>1, Remembered DEF Faults
<1>3. CASE \E p \in {"idle", "lost"} : GoesTo(t, p) /\ (p = "idle" => work[t].at = "picked")
                                      /\ (p = "lost" => work[t].at # "picked")
  <2>1. PICK p \in {"idle", "lost"} : GoesTo(t, p) /\ (p = "idle" => work[t].at = "picked")
                                      /\ (p = "lost" => work[t].at # "picked")
    BY <1>3
  <2>2. /\ work'[t].at = p /\ work'[t].retry = work[t].retry
        /\ \A u \in Tasks \ {t} : work'[u] = work[u]
    BY <2>1, Moved DEF Positions
  <2>3. Way(t)
    BY <1>1, <2>1, <2>2 DEF Way, Positions
  <2> QED BY <1>1, <1>2, <2>2, <2>3, WorkerMoves
<1>4. CASE /\ Goes(t, [work[t] EXCEPT !.at = "reporting", !.report = "failed", !.retry = TRUE])
           /\ Reports(t)
  <2> DEFINE w == [work[t] EXCEPT !.at = "reporting", !.report = "failed", !.retry = TRUE]
  <2>1. w.at = "reporting" /\ w.retry = TRUE
    BY <1>1 DEF Worker
  <2>2. Goes(t, w)
    BY <1>4
  <2> HIDE DEF w
  <2>3. work'[t] = w /\ \A u \in Tasks \ {t} : work'[u] = work[u]
    BY <2>2, Went
  <2>4. t \in Remote /\ work[t].at \notin {"picked", "marked"} /\ ~work[t].retry
    BY <1>4 DEF Reports, At
  <2>5. RowFits(t)'
    BY <1>1, <1>2, <2>1, <2>3, <2>4 DEF RowFits, At
  <2>6. ASSUME NEW u \in Tasks \ {t} PROVE RowFits(u)'
    BY <1>1, <1>2, <2>3 DEF RowsFit, RowFits, At
  <2>7. \A u \in Tasks : At(u, {"lost"}) => At(u, {"lost"})'
    BY <1>1, <2>3 DEF At
  <2> QED BY <1>1, <1>2, <2>5, <2>6, <2>7, QuietStep DEF RowsFit
<1> QED BY <1>3, <1>4 DEF DatabaseError, At

LEMMA EveryStep ==
  ASSUME IInv, RowsFit, [Next]_vars
  PROVE  RowsFit' /\ Workers!Next
<1>1. TypeOK
  BY DEF IInv
<1>2. CASE UNCHANGED vars \/ ReadPage
  BY <1>1, <1>2, OutsideMoves
<1>3. ASSUME NEW t \in Tasks, Queue(t) \/ Pick(t) \/ Work(t) \/ Outside(t) \/ DatabaseError(t)
      PROVE  RowsFit' /\ Workers!Next
  <2>1. CASE Work(t)
    BY <1>1, <2>1, OutsideMoves, BusyMoves, RowMoves DEF Work
  <2> QED BY <1>1, <1>3, <2>1, OutsideMoves, BusyMoves, RowMoves, FailureMoves
<1> QED BY <1>2, <1>3 DEF Next

LEMMA InitRowsFit == Init => RowsFit /\ Workers!Init
<1> SUFFICES ASSUME Init PROVE RowsFit /\ Workers!Init
  OBVIOUS
<1>1. \A t \in Tasks : nodeStatus[t] = "pending" /\ work[t] = Idle
  BY DEF Init
<1>2. \A t \in Tasks : work[t].at = "idle" /\ work[t].retry = FALSE
  <2>1. Idle.at = "idle" /\ Idle.retry = FALSE
    BY DEF Idle
  <2> QED BY <1>1, <2>1
<1>3. RowsFit
  BY <1>1, <1>2 DEF RowsFit, RowFits, At
<1>4. Workers!Init
  BY <1>1, TasksAssumption DEF Init, Workers!Init, Suffered
<1> QED BY <1>3, <1>4

(* Workers of the server and of agents change the rows of their nodes only *)
(* as the scheduler reckons with: a local node's outcome is final, and a   *)
(* remote one's is written again only after a failed query                 *)
(* (pick_local_task, execute_local_task, poll_task, report_result).        *)
THEOREM TasksImplementWorkers == Spec => ImplementsWorkers
<1>1. Init => IInv /\ RowsFit /\ Workers!Init
  BY InitIInv, InitRowsFit
<1>2. IInv /\ RowsFit /\ [Next]_vars => IInv' /\ RowsFit' /\ [Workers!Next]_(Workers!vars)
  BY NextIInv, EveryStep
<1> QED BY <1>1, <1>2, PTL DEF Spec, ImplementsWorkers, Workers!Spec
=============================================================================
