------------------------- MODULE RunSchedulerProofs --------------------------
(***************************************************************************)
(* Proofs about RunScheduler, for any number of nodes, runs and faults.    *)
(***************************************************************************)
EXTENDS RunSchedulerInv, TLAPS

(* The status sets, once and for all, so that they can stay folded. *)
LEMMA StatusFacts ==
  /\ JobTerminal \subseteq JobStatuses
  /\ {"queued", "running", "cancel_requested"} \subseteq JobStatuses \ JobTerminal
  /\ NodeReported \subseteq NodeTerminal /\ NodeTerminal \subseteq NodeStatuses
  /\ NodeReported = {"success"} \cup NodeUnsuccessful
  /\ "success" \notin NodeUnsuccessful
  /\ {"failed", "timed_out", "canceled"} = NodeUnsuccessful
  /\ NodeTerminal = NodeReported \cup {"skipped"} /\ "skipped" \notin NodeReported
  /\ {"pending", "queued", "running"} \subseteq NodeStatuses \ NodeTerminal
  /\ NoRow \notin NodeStatuses \cup JobStatuses
  /\ Unknown \notin NodeStatuses
BY DEF JobTerminal, JobStatuses, NodeReported, NodeTerminal, NodeStatuses,
       NodeUnsuccessful, NoRow, Unknown

(* What a write of one cell of node_runs.status does, and does not do. *)
LEMMA SetNodeFacts ==
  ASSUME nodeStatus \in [Runs -> [Nodes -> NodeStatuses \cup {NoRow}]],
         NEW r \in Runs, NEW n \in Nodes, NEW s \in NodeStatuses, SetNode(r, n, s)
  PROVE  /\ nodeStatus' \in [Runs -> [Nodes -> NodeStatuses \cup {NoRow}]]
         /\ nodeStatus'[r][n] = s
         /\ \A q \in Runs, m \in Nodes : q # r \/ m # n =>
              nodeStatus'[q][m] = nodeStatus[q][m]
BY DEF SetNode

(* The same for job_runs.status. *)
LEMMA SetJobFacts ==
  ASSUME jobStatus \in [Runs -> JobStatuses \cup {NoRow}],
         NEW r \in Runs, NEW s \in JobStatuses, SetJob(r, s)
  PROVE  /\ jobStatus' \in [Runs -> JobStatuses \cup {NoRow}]
         /\ jobStatus'[r] = s
         /\ \A q \in Runs : q # r => jobStatus'[q] = jobStatus[q]
BY DEF SetJob

(* The locals as a call of execute_run finds and leaves them. *)
LEMMA LocalsFacts ==
  ASSUME NEW step \in Steps, NEW r \in Runs \cup {0}, Locals(step, r)
  PROVE  /\ pc' = step /\ pc' \in Steps /\ cur' = r /\ cur' \in Runs \cup {0}
         /\ idx' \in 1..(NumNodes + 1)
         /\ results' \in [Nodes -> NodeTerminal \cup {Unknown}]
         /\ runningNodes' \subseteq Nodes /\ scanned' \subseteq runningNodes'
         /\ stopScheduling' \in BOOLEAN /\ canceling' \in BOOLEAN
<1>1. NothingKnown \in [Nodes -> NodeTerminal \cup {Unknown}]
  BY DEF NothingKnown
<1>2. 1 \in 1..(NumNodes + 1)
  BY NodesAssumption
<1> QED
  BY <1>1, <1>2 DEF Locals

LEMMA VerdictType == Verdict \in JobTerminal
BY DEF Verdict, JobTerminal

Typed == TypeOK /\ (pc = "idle" <=> cur = 0)

LEMMA TypeStep == Typed /\ [Next]_vars => Typed'
<1> SUFFICES ASSUME Typed, [Next]_vars PROVE Typed'
    OBVIOUS
<1> USE NodesAssumption, RunsAssumption, FaultAssumption, StatusFacts
        DEF Typed, TypeOK, Steps, Fault,
            tables, memory, others, AtNode
<1>n. Nodes = 1..NumNodes /\ 0 \notin Runs
  BY DEF Nodes, Runs
<1>c. pc # "idle" => cur \in Runs
  OBVIOUS
<1>1. CASE IdleTick
  BY <1>n, <1>c, <1>1 DEF IdleTick, vars
<1>2. CASE PickRun
  BY <1>n, <1>c, <1>2, LocalsFacts DEF PickRun, Queued
<1>3. CASE LoadDefinition
  BY <1>n, <1>c, <1>3 DEF LoadDefinition
<1>4. CASE LoadFails
  BY <1>n, <1>c, <1>4 DEF LoadFails
<1>5. CASE EnsureNode
  BY <1>n, <1>c, <1>5, SetNodeFacts DEF EnsureNode
<1>6. CASE EnsureFails
  BY <1>n, <1>c, <1>6, LocalsFacts DEF EnsureFails
<1>7. CASE StartJob
  BY <1>n, <1>c, <1>7 DEF StartJob
<1>8. CASE CheckCancel
  BY <1>n, <1>c, <1>8 DEF CheckCancel
<1>9. CASE PassOver
  BY <1>n, <1>c, <1>9 DEF PassOver
<1>10. CASE SkipNode
  BY <1>n, <1>c, <1>10, SetNodeFacts DEF SkipNode
<1>11. CASE QueueNode
  BY <1>n, <1>c, <1>11, SetNodeFacts DEF QueueNode
<1>12. CASE RefuseNode
  BY <1>n, <1>c, <1>12, SetNodeFacts DEF RefuseNode
<1>13. CASE EndPass
  BY <1>n, <1>c, <1>13 DEF EndPass
<1>14. CASE ReadUnfinished
  BY <1>n, <1>c, <1>14 DEF ReadUnfinished
<1>15. CASE ReadFinished
  BY <1>n, <1>c, <1>15 DEF ReadFinished
<1>16. CASE ReadCancelFlag
  BY <1>n, <1>c, <1>16 DEF ReadCancelFlag
<1>17. CASE FinalizeRun
  BY <1>n, <1>c, <1>17, SetJobFacts, VerdictType DEF FinalizeRun
<1>18. CASE RecordVerdict
  BY <1>n, <1>c, <1>18, LocalsFacts DEF RecordVerdict
<1>19. CASE AbortRun
  BY <1>n, <1>c, <1>19, SetJobFacts, LocalsFacts DEF AbortRun, JobTerminal
<1>20. CASE SchedulerError
  BY <1>n, <1>c, <1>20, LocalsFacts DEF SchedulerError
<1>21. CASE AbortError
  BY <1>n, <1>c, <1>21, LocalsFacts DEF AbortError
<1>22. CASE Crash
  BY <1>n, <1>c, <1>22, LocalsFacts DEF Crash
<1>23. ASSUME NEW r \in Runs, CreateRun(r) PROVE Typed'
  BY <1>n, <1>c, <1>23, SetJobFacts DEF CreateRun
<1>24. ASSUME NEW r \in Runs, CancelRead(r) PROVE Typed'
  BY <1>n, <1>c, <1>24 DEF CancelRead
<1>25. ASSUME NEW r \in Runs, CancelCommit(r) PROVE Typed'
  BY <1>n, <1>c, <1>25, SetJobFacts DEF CancelCommit
<1>26. ASSUME NEW r \in Runs, NEW n \in Nodes, WorkerStart(r, n) PROVE Typed'
  BY <1>n, <1>c, <1>26, SetNodeFacts DEF WorkerStart
<1>27. ASSUME NEW r \in Runs, NEW n \in Nodes, WorkerFinish(r, n) PROVE Typed'
  BY <1>n, <1>c, <1>27, SetNodeFacts DEF WorkerFinish, Outcomes
<1>28. ASSUME NEW r \in Runs, NEW n \in Nodes, AgentLost(r, n) PROVE Typed'
  BY <1>n, <1>c, <1>28, SetNodeFacts DEF AgentLost
<1>29. ASSUME NEW r \in Runs, NEW n \in Nodes, TaskLost(r, n) PROVE Typed'
  BY <1>n, <1>c, <1>29 DEF TaskLost
<1>30. ASSUME NEW r \in Runs, NEW n \in Nodes, RemoteOverwrite(r, n) PROVE Typed'
  BY <1>n, <1>c, <1>30, SetNodeFacts DEF RemoteOverwrite
<1>31. CASE UNCHANGED vars
  BY <1>31 DEF vars
<1>32. QED
  BY ONLY [Next]_vars, <1>1, <1>2, <1>3, <1>4, <1>5, <1>6, <1>7, <1>8, <1>9, <1>10, <1>11, <1>12, <1>13, <1>14, <1>15, <1>16, <1>17, <1>18, <1>19, <1>20, <1>21, <1>22, <1>23, <1>24, <1>25, <1>26, <1>27, <1>28, <1>29, <1>30, <1>31 DEF Next, Scheduler

-----------------------------------------------------------------------------
(* The run of the scheduler exists and has left the queue. *)
LEMMA CurrentRunStep == TypeOK /\ CurrentRun /\ [Next]_vars => CurrentRun'
<1> SUFFICES ASSUME TypeOK, CurrentRun, [Next]_vars PROVE CurrentRun'
    OBVIOUS
<1>t. Typed /\ Typed'
  BY TypeStep DEF Typed, CurrentRun
<1> USE StatusFacts
        DEF CurrentRun, Typed, TypeOK, InLoop, tables, memory, others, AtNode
<1>n. 0 \notin Runs
  BY DEF Runs
<1>1. CASE \/ IdleTick \/ LoadDefinition \/ LoadFails \/ EnsureNode \/ CheckCancel
           \/ PassOver \/ SkipNode \/ QueueNode \/ RefuseNode \/ EndPass
           \/ ReadUnfinished \/ ReadFinished \/ ReadCancelFlag \/ UNCHANGED vars
           \/ \E r \in Runs : CancelRead(r)
           \/ \E r \in Runs, n \in Nodes :
                \/ WorkerStart(r, n) \/ WorkerFinish(r, n) \/ AgentLost(r, n)
                \/ TaskLost(r, n) \/ RemoteOverwrite(r, n)
  BY <1>1 DEF IdleTick, LoadDefinition, LoadFails, EnsureNode, CheckCancel, PassOver,
              SkipNode, QueueNode, RefuseNode, EndPass, ReadUnfinished, ReadFinished,
              ReadCancelFlag, vars, CancelRead, WorkerStart, WorkerFinish, AgentLost,
              TaskLost, RemoteOverwrite
<1>2. CASE PickRun
  BY <1>2, <1>n, LocalsFacts DEF PickRun, Queued, Steps, NoRow
<1>3. CASE EnsureFails \/ RecordVerdict \/ SchedulerError \/ AbortError \/ Crash \/ AbortRun
  BY <1>3, <1>n, LocalsFacts, SetJobFacts
     DEF EnsureFails, RecordVerdict, SchedulerError, AbortError, Crash, AbortRun, Steps,
         JobTerminal
<1>4. CASE StartJob
  BY <1>4, <1>n DEF StartJob
<1>5. CASE FinalizeRun
  BY <1>5, <1>n, SetJobFacts, VerdictType DEF FinalizeRun
<1>6. ASSUME NEW r \in Runs, CreateRun(r) PROVE CurrentRun'
  BY <1>6, <1>n, SetJobFacts DEF CreateRun
<1>7. ASSUME NEW r \in Runs, CancelCommit(r) PROVE CurrentRun'
  BY <1>7, <1>n, SetJobFacts DEF CancelCommit
<1>8. QED
  BY ONLY [Next]_vars, <1>1, <1>2, <1>3, <1>4, <1>5, <1>6, <1>7 DEF Next, Scheduler

(* A run that has not been started has no node beyond pending. *)
LEMMA UnstartedStep ==
  TypeOK /\ CurrentRun /\ Unstarted /\ WorkersAgree /\ [Next]_vars => Unstarted'
<1> SUFFICES ASSUME TypeOK, CurrentRun, Unstarted, WorkersAgree, [Next]_vars
             PROVE  Unstarted'
    OBVIOUS
<1>n. 0 \notin Runs /\ Nodes = 1..NumNodes
  BY DEF Runs, Nodes
<1> USE <1>n, StatusFacts
        DEF CurrentRun, Unstarted, TypeOK, InLoop, tables, memory, others, AtNode
<1>1. CASE \/ IdleTick \/ LoadFails \/ UNCHANGED vars
           \/ CheckCancel \/ PassOver \/ EndPass \/ ReadUnfinished \/ ReadFinished
           \/ ReadCancelFlag \/ LoadDefinition
           \/ (\E r \in Runs : CancelRead(r))
           \/ (\E r \in Runs, n \in Nodes : TaskLost(r, n))
  <2>1. UNCHANGED <<jobStatus, nodeStatus, cur>>
    BY <1>1 DEF IdleTick, LoadFails, vars, CancelRead, TaskLost, CheckCancel, PassOver,
                EndPass, ReadUnfinished, ReadFinished, ReadCancelFlag, LoadDefinition
  <2>2. pc' \in {"load", "ensure"} => pc \in {"load", "ensure"}
    BY <1>1 DEF IdleTick, LoadFails, vars, CancelRead, TaskLost, CheckCancel, PassOver,
                EndPass, ReadUnfinished, ReadFinished, ReadCancelFlag, LoadDefinition
  <2>3. QED
    BY <2>1, <2>2
<1>2. CASE PickRun \/ EnsureFails \/ RecordVerdict \/ SchedulerError \/ AbortError \/ Crash
  BY <1>2 DEF PickRun, Queued, EnsureFails, RecordVerdict, SchedulerError, AbortError,
              Crash, Locals
<1>3. CASE SkipNode \/ QueueNode \/ RefuseNode
  BY <1>3, SetNodeFacts DEF SkipNode, QueueNode, RefuseNode
<1>4. CASE EnsureNode
  <2>1. cur \in Runs /\ idx \in Nodes /\ "pending" \in NodeStatuses
    BY <1>4 DEF EnsureNode
  <2>2. QED
    BY <1>4, <2>1, SetNodeFacts DEF EnsureNode
<1>5. CASE StartJob
  BY <1>5 DEF StartJob
<1>6. CASE AbortRun \/ FinalizeRun
  <2>1. PICK s \in JobTerminal : SetJob(cur, s)
    BY <1>6, VerdictType DEF AbortRun, FinalizeRun, JobTerminal
  <2>2. nodeStatus' = nodeStatus /\ pc' \notin {"load", "ensure"} /\ cur \in Runs
    BY <1>6 DEF AbortRun, FinalizeRun, Locals
  <2>3. QED
    BY <2>1, <2>2, SetJobFacts
<1>7. ASSUME NEW r \in Runs, CreateRun(r) \/ CancelCommit(r) PROVE Unstarted'
  <2>1. PICK s \in {"queued", "cancel_requested"} :
          SetJob(r, s) /\ (s = "queued" => jobStatus[r] = NoRow)
    BY <1>7 DEF CreateRun, CancelCommit
  <2>2. UNCHANGED <<nodeStatus, pc, cur>>
    BY <1>7 DEF CreateRun, CancelCommit
  <2>3. QED
    BY <2>1, <2>2, SetJobFacts
<1>8. ASSUME NEW r \in Runs, NEW n \in Nodes,
              \/ WorkerStart(r, n) \/ WorkerFinish(r, n) \/ AgentLost(r, n)
              \/ RemoteOverwrite(r, n)
       PROVE  Unstarted'
  <2>1. nodeStatus[r][n] \notin {NoRow, "pending"}
    BY <1>8 DEF WorkerStart, WorkerFinish, AgentLost, RemoteOverwrite, WorkersAgree, Launched
  <2>2. PICK s \in NodeStatuses : SetNode(r, n, s)
    BY <1>8 DEF WorkerStart, WorkerFinish, AgentLost, RemoteOverwrite, Outcomes
  <2>3. UNCHANGED <<jobStatus, pc, cur>>
    BY <1>8 DEF WorkerStart, WorkerFinish, AgentLost, RemoteOverwrite
  <2>4. \A q \in Runs, m \in Nodes : q # r \/ m # n => nodeStatus'[q][m] = nodeStatus[q][m]
    BY <2>2, SetNodeFacts
  <2>5. ~(jobStatus[r] \in {NoRow, "queued"} \/ (cur = r /\ pc \in {"load", "ensure"}))
    BY <2>1
  <2>6. QED
    BY <2>3, <2>4, <2>5
<1>9. QED
  BY ONLY [Next]_vars, <1>1, <1>2, <1>3, <1>4, <1>5, <1>6, <1>7, <1>8 DEF Next, Scheduler

(* Until the loop begins, the memory is fresh and the rows are inserted in *)
(* the order of the walk.                                                  *)
LEMMA PreparedStep ==
  TypeOK /\ CurrentRun /\ Unstarted /\ WorkersAgree /\ Prepared /\ [Next]_vars => Prepared'
<1> SUFFICES ASSUME TypeOK, CurrentRun, Unstarted, WorkersAgree, Prepared, [Next]_vars
             PROVE  Prepared'
    OBVIOUS
<1>n. 0 \notin Runs /\ Nodes = 1..NumNodes
  BY DEF Runs, Nodes
<1> USE <1>n, StatusFacts
        DEF CurrentRun, Prepared, TypeOK, InLoop, tables, memory, others, AtNode
<1>1. CASE \/ IdleTick \/ LoadFails \/ UNCHANGED vars
           \/ CheckCancel \/ PassOver \/ EndPass \/ ReadUnfinished \/ ReadFinished
           \/ ReadCancelFlag \/ SkipNode \/ QueueNode \/ RefuseNode \/ StartJob
           \/ FinalizeRun
           \/ (\E r \in Runs : CreateRun(r) \/ CancelRead(r) \/ CancelCommit(r))
           \/ (\E r \in Runs, n \in Nodes : TaskLost(r, n))
  BY <1>1 DEF IdleTick, LoadFails, vars, CancelRead, TaskLost, CheckCancel, PassOver,
              EndPass, ReadUnfinished, ReadFinished, ReadCancelFlag, SkipNode, QueueNode,
              RefuseNode, StartJob, FinalizeRun, CreateRun, CancelCommit
<1>2. CASE \/ PickRun \/ EnsureFails \/ RecordVerdict \/ SchedulerError \/ AbortError
           \/ Crash \/ AbortRun
  BY <1>2 DEF PickRun, EnsureFails, RecordVerdict, SchedulerError, AbortError, Crash,
              AbortRun, Locals
<1>3. CASE LoadDefinition
  <2>1. cur' = cur /\ idx' = idx /\ pc = "load" /\ pc' = "ensure"
        /\ UNCHANGED <<results, runningNodes, stopScheduling>>
    BY <1>3 DEF LoadDefinition
  <2>2. idx = 1
    BY <2>1
  <2>3. QED
    BY <2>1, <2>2
<1>4. CASE EnsureNode
  <2>1. cur \in Runs /\ idx \in Nodes /\ "pending" \in NodeStatuses
    BY <1>4 DEF EnsureNode
  <2>2. /\ \A m \in Nodes : m # idx => nodeStatus'[cur][m] = nodeStatus[cur][m]
        /\ nodeStatus'[cur][idx] = "pending"
    BY <1>4, <2>1, SetNodeFacts DEF EnsureNode
  <2>3. \A m \in Nodes : m < idx + 1 => m < idx \/ m = idx
    BY <2>1
  <2>4. QED
    BY <1>4, <2>2, <2>3 DEF EnsureNode
<1>5. ASSUME NEW r \in Runs, NEW n \in Nodes,
              \/ WorkerStart(r, n) \/ WorkerFinish(r, n) \/ AgentLost(r, n)
              \/ RemoteOverwrite(r, n)
       PROVE  Prepared'
  <2>1. nodeStatus[r][n] \notin {NoRow, "pending"}
    BY <1>5 DEF WorkerStart, WorkerFinish, AgentLost, RemoteOverwrite, WorkersAgree, Launched
  <2>2. PICK s \in NodeStatuses : SetNode(r, n, s)
    BY <1>5 DEF WorkerStart, WorkerFinish, AgentLost, RemoteOverwrite, Outcomes
  <2>3. UNCHANGED <<pc, cur, idx, results, runningNodes, stopScheduling>>
    BY <1>5 DEF WorkerStart, WorkerFinish, AgentLost, RemoteOverwrite
  <2>4. \A q \in Runs, m \in Nodes : q # r \/ m # n => nodeStatus'[q][m] = nodeStatus[q][m]
    BY <2>2, SetNodeFacts
  <2>5. QED
    BY <2>1, <2>3, <2>4
<1>6. QED
  BY ONLY [Next]_vars, <1>1, <1>2, <1>3, <1>4, <1>5 DEF Next, Scheduler

-----------------------------------------------------------------------------
(* Every way a row of node_runs changes: it is inserted; a pending node of *)
(* the current run is skipped, or queued or refused when the rows of its   *)
(* dependencies are in order; a launched node is written by a worker.      *)
Inserted(r, n, s) == nodeStatus[r][n] = NoRow /\ s = "pending"
Skipped(r, n, s)  == nodeStatus[r][n] = "pending" /\ s = "skipped"
Handed(r, n, s) ==
  /\ nodeStatus[r][n] = "pending" /\ s \in {"queued", "failed"}
  /\ \A m \in deps[r][n] \ Overwritable : nodeStatus[r][m] = "success"
Worked(r, n, s) ==
  /\ Launched(r, n) /\ s \in {"running"} \cup NodeReported
  /\ n \notin Overwritable => nodeStatus[r][n] \in {"queued", "running"}
Move(r, n, s) ==
  /\ SetNode(r, n, s)
  /\ Inserted(r, n, s) \/ Skipped(r, n, s) \/ Handed(r, n, s) \/ Worked(r, n, s)

LEMMA NodeMoves ==
  TypeOK /\ CurrentRun /\ MemoryAgrees /\ WorkersAgree /\ [Next]_vars
    => \/ UNCHANGED nodeStatus
       \/ \E r \in Runs, n \in Nodes, s \in NodeStatuses : Move(r, n, s)
<1> SUFFICES ASSUME TypeOK, CurrentRun, MemoryAgrees, WorkersAgree, [Next]_vars,
                    ~UNCHANGED nodeStatus
             PROVE  \E r \in Runs, n \in Nodes, s \in NodeStatuses : Move(r, n, s)
    OBVIOUS
<1>n. 0 \notin Runs /\ Nodes = 1..NumNodes
  BY DEF Runs, Nodes
<1>1. CASE EnsureNode
  <2>1. cur \in Runs /\ idx \in Nodes /\ "pending" \in NodeStatuses
    BY <1>1, <1>n, StatusFacts DEF EnsureNode, TypeOK, CurrentRun
  <2>2. QED
    BY <1>1, <2>1 DEF EnsureNode, Move, Inserted
<1>2. ASSUME SkipNode \/ QueueNode \/ RefuseNode
      PROVE  /\ InLoop /\ cur \in Runs /\ idx \in Nodes
             /\ nodeStatus[cur][idx] = "pending"
  BY <1>2, <1>n DEF SkipNode, QueueNode, RefuseNode, AtNode, Ready, InLoop, TypeOK,
                    CurrentRun, MemoryAgrees
<1>3. CASE SkipNode
  BY <1>2, <1>3, StatusFacts DEF SkipNode, Move, Skipped
<1>4. ASSUME QueueNode \/ RefuseNode
      PROVE  \A m \in deps[cur][idx] \ Overwritable : nodeStatus[cur][m] = "success"
  <2>1. deps[cur] \in [Nodes -> SUBSET Nodes]
    BY <1>2, <1>4 DEF TypeOK, Definitions
  <2>2. ASSUME NEW m \in deps[cur][idx], m \notin Overwritable
        PROVE  nodeStatus[cur][m] = "success"
    <3>1. m \in Nodes
      BY <1>2, <1>4, <2>1
    <3>2. results[m] = "success"
      BY <1>4 DEF QueueNode, RefuseNode, Ready, Blocked, Waiting
    <3>3. QED
      BY <1>2, <1>4, <2>2, <3>1, <3>2 DEF MemoryAgrees, Unknown
  <2>3. QED
    BY <2>2
<1>5. CASE QueueNode
  BY <1>2, <1>4, <1>5, StatusFacts DEF QueueNode, Move, Handed
<1>6. CASE RefuseNode
  <2>1. "failed" \in NodeStatuses
    BY DEF NodeStatuses, NodeTerminal, NodeReported
  <2>2. QED
    BY <1>2, <1>4, <1>6, <2>1 DEF RefuseNode, Move, Handed
<1>7. ASSUME NEW r \in Runs, NEW n \in Nodes,
              \/ WorkerStart(r, n) \/ WorkerFinish(r, n) \/ AgentLost(r, n)
              \/ RemoteOverwrite(r, n)
      PROVE  \E s \in NodeStatuses : Move(r, n, s)
  <2>1. Launched(r, n)
    BY <1>7 DEF WorkerStart, WorkerFinish, AgentLost, RemoteOverwrite, WorkersAgree, Launched
  <2>2. n \notin Overwritable => nodeStatus[r][n] \in {"queued", "running"}
    BY <1>7 DEF WorkerStart, WorkerFinish, AgentLost, RemoteOverwrite, WorkersAgree,
                Overwritable, Fault
  <2>3. PICK s \in {"running"} \cup NodeReported : SetNode(r, n, s)
    BY <1>7, StatusFacts
       DEF WorkerStart, WorkerFinish, AgentLost, RemoteOverwrite, Outcomes, NodeReported
  <2>4. QED
    BY <2>1, <2>2, <2>3, StatusFacts DEF Move, Worked
<1>8. CASE \/ IdleTick \/ LoadFails \/ UNCHANGED vars \/ PickRun \/ LoadDefinition
           \/ EnsureFails \/ StartJob
           \/ CheckCancel \/ PassOver \/ EndPass \/ ReadUnfinished \/ ReadFinished
           \/ ReadCancelFlag \/ FinalizeRun \/ RecordVerdict \/ AbortRun
           \/ SchedulerError \/ AbortError \/ Crash
           \/ (\E r \in Runs : CreateRun(r) \/ CancelRead(r) \/ CancelCommit(r))
           \/ (\E r \in Runs, n \in Nodes : TaskLost(r, n))
  BY <1>8 DEF IdleTick, LoadFails, vars, tables, PickRun, LoadDefinition, EnsureFails,
              StartJob, CheckCancel, PassOver, EndPass, ReadUnfinished, ReadFinished,
              ReadCancelFlag, FinalizeRun, RecordVerdict, AbortRun, SchedulerError,
              AbortError, Crash, CreateRun, CancelRead, CancelCommit, TaskLost
<1>9. QED
  BY ONLY [Next]_vars, <1>1, <1>3, <1>5, <1>6, <1>7, <1>8 DEF Next, Scheduler

(* A node outside the reach of a remote race that has ended stays as it is. *)
LEMMA EndedStays ==
  ASSUME TypeOK, CurrentRun, MemoryAgrees, WorkersAgree, [Next]_vars,
         NEW r \in Runs, NEW n \in Nodes \ Overwritable, nodeStatus[r][n] \in NodeTerminal
  PROVE  nodeStatus'[r][n] = nodeStatus[r][n]
<1>1. CASE UNCHANGED nodeStatus
  BY <1>1
<1>2. ASSUME NEW q \in Runs, NEW m \in Nodes, NEW s \in NodeStatuses, Move(q, m, s)
      PROVE  nodeStatus'[r][n] = nodeStatus[r][n]
  <2>1. q # r \/ m # n
    BY <1>2, StatusFacts DEF Move, Inserted, Skipped, Handed, Worked
  <2>2. QED
    BY <1>2, <2>1, SetNodeFacts DEF Move, TypeOK
<1>3. QED
  BY <1>1, <1>2, NodeMoves

(* A node that has been launched stays launched. *)
LEMMA LaunchedStays ==
  ASSUME TypeOK, CurrentRun, MemoryAgrees, WorkersAgree, [Next]_vars,
         NEW r \in Runs, NEW n \in Nodes, Launched(r, n)
  PROVE  Launched(r, n)'
<1>1. CASE UNCHANGED nodeStatus
  BY <1>1 DEF Launched
<1>2. ASSUME NEW q \in Runs, NEW m \in Nodes, NEW s \in NodeStatuses, Move(q, m, s)
      PROVE  Launched(r, n)'
  <2>1. CASE q = r /\ m = n
    <3>1. Worked(r, n, s)
      BY <1>2, <2>1, StatusFacts DEF Move, Inserted, Skipped, Handed, Launched
    <3>2. QED
      BY <1>2, <2>1, <3>1, SetNodeFacts DEF Move, Worked, Launched, TypeOK
  <2>2. CASE q # r \/ m # n
    BY <1>2, <2>2, SetNodeFacts DEF Move, TypeOK, Launched
  <2>3. QED
    BY <2>1, <2>2
<1>3. QED
  BY <1>1, <1>2, NodeMoves

(* DependencyOrder: the rows a node was launched on are final. *)
LEMMA DependencyStep ==
  TypeOK /\ CurrentRun /\ Unstarted /\ MemoryAgrees /\ WorkersAgree /\ DependencyOrder
    /\ [Next]_vars => DependencyOrder'
<1> SUFFICES ASSUME TypeOK, CurrentRun, Unstarted, MemoryAgrees, WorkersAgree,
                    DependencyOrder, [Next]_vars,
                    NEW r \in Runs, NEW n \in Nodes, Launched(r, n)',
                    NEW m \in deps'[r][n], m \notin Overwritable
             PROVE  nodeStatus'[r][m] = "success"
    BY DEF DependencyOrder, Overwritable
<1>1. CASE LoadDefinition /\ cur = r
  <2>1. nodeStatus' = nodeStatus /\ pc = "load"
    BY <1>1 DEF LoadDefinition
  <2>2. nodeStatus[r][n] \in {NoRow, "pending"}
    BY <1>1, <2>1 DEF Unstarted
  <2>3. QED
    BY <2>1, <2>2, StatusFacts DEF Launched
<1>2. CASE ~(LoadDefinition /\ cur = r)
  <2>1. deps'[r] = deps[r]
    <3>1. CASE LoadDefinition
      BY <1>2, <3>1 DEF LoadDefinition, TypeOK
    <3>2. CASE ~LoadDefinition
      <4>1. UNCHANGED deps
        BY <3>2 DEF Next, Scheduler, IdleTick, LoadFails, vars, tables, PickRun, EnsureFails, EnsureNode,
              StartJob, CheckCancel, PassOver, EndPass, ReadUnfinished, ReadFinished,
              SkipNode, QueueNode, RefuseNode,
              ReadCancelFlag, FinalizeRun, RecordVerdict, AbortRun, SchedulerError,
              AbortError, Crash, CreateRun, CancelRead, CancelCommit, TaskLost,
              WorkerStart, WorkerFinish, AgentLost, RemoteOverwrite
      <4>2. QED
        BY <4>1
    <3>3. QED
      BY <3>1, <3>2
  <2>2. m \in Nodes /\ m \in deps[r][n]
    BY <2>1 DEF TypeOK, Definitions
  <2>3. CASE Launched(r, n)
    <3>1. nodeStatus[r][m] = "success"
      BY <2>2, <2>3 DEF DependencyOrder
    <3>2. QED
      BY <2>2, <3>1, EndedStays DEF NodeTerminal, NodeReported
  <2>4. CASE ~Launched(r, n)
    <3>1. PICK q \in Runs, k \in Nodes, s \in NodeStatuses : Move(q, k, s)
      BY <2>4, NodeMoves DEF Launched
    <3>2. q = r /\ k = n
      BY <2>4, <3>1, SetNodeFacts DEF Move, TypeOK, Launched
    <3>3. nodeStatus'[r][n] = s
      BY <3>1, <3>2, SetNodeFacts DEF Move, TypeOK
    <3>4. Handed(r, n, s)
      BY <2>4, <3>1, <3>2, <3>3, StatusFacts DEF Move, Inserted, Skipped, Worked, Launched
    <3>5. nodeStatus[r][m] = "success"
      BY <2>2, <3>4 DEF Handed
    <3>6. QED
      BY <2>2, <3>5, EndedStays DEF NodeTerminal, NodeReported
  <2>5. QED
    BY <2>3, <2>4
<1>3. QED
  BY <1>1, <1>2

-----------------------------------------------------------------------------
(* What a worker executes is running, races or not. *)
LEMMA WorkersStep ==
  TypeOK /\ CurrentRun /\ MemoryAgrees /\ WorkersAgree /\ [Next]_vars => WorkersAgree'
<1> SUFFICES ASSUME TypeOK, CurrentRun, MemoryAgrees, WorkersAgree, [Next]_vars,
                    NEW r \in Runs, NEW n \in Nodes, <<r, n>> \in executing'
             PROVE  nodeStatus'[r][n] = "running"
    BY DEF WorkersAgree
<1>1. ASSUME NEW q \in Runs, NEW m \in Nodes,
              WorkerStart(q, m) \/ WorkerFinish(q, m) \/ AgentLost(q, m) \/ RemoteOverwrite(q, m)
      PROVE  nodeStatus'[r][n] = "running"
  <2>1. PICK s \in {"running"} \cup NodeReported :
          /\ SetNode(q, m, s)
          /\ <<q, m>> \in executing' => s = "running"
          /\ \A t \in executing' : t # <<q, m>> => t \in executing
    <3>1. CASE WorkerStart(q, m)
      BY <3>1 DEF WorkerStart
    <3>2. CASE WorkerFinish(q, m)
      BY <3>2 DEF WorkerFinish, Outcomes
    <3>3. CASE AgentLost(q, m)
      BY <3>3 DEF AgentLost, NodeReported
    <3>4. CASE RemoteOverwrite(q, m)
      BY <3>4, StatusFacts DEF RemoteOverwrite, WorkersAgree
    <3>5. QED
      BY <1>1, <3>1, <3>2, <3>3, <3>4
  <2>2. s \in NodeStatuses
    BY <2>1, StatusFacts
  <2>3. CASE q = r /\ m = n
    BY <2>1, <2>2, <2>3, SetNodeFacts DEF TypeOK
  <2>4. CASE q # r \/ m # n
    <3>1. nodeStatus'[r][n] = nodeStatus[r][n] /\ <<r, n>> \in executing
      BY <2>1, <2>2, <2>4, SetNodeFacts DEF TypeOK
    <3>2. QED
      BY <3>1 DEF WorkersAgree
  <2>5. QED
    BY <2>3, <2>4
<1>2. CASE SkipNode \/ QueueNode \/ RefuseNode \/ EnsureNode
  <2>1. <<r, n>> \in executing
    BY <1>2 DEF SkipNode, QueueNode, RefuseNode, EnsureNode, others
  <2>2. nodeStatus[r][n] = "running"
    BY <2>1 DEF WorkersAgree
  <2>3. cur \in Runs /\ idx \in Nodes /\ nodeStatus[cur][idx] \in {NoRow, "pending"}
    BY <1>2 DEF SkipNode, QueueNode, RefuseNode, EnsureNode, AtNode, Ready, MemoryAgrees,
                InLoop, CurrentRun, TypeOK, Nodes, Runs
  <2>4. PICK s \in NodeStatuses : SetNode(cur, idx, s)
    BY <1>2, StatusFacts DEF SkipNode, QueueNode, RefuseNode, EnsureNode, NodeReported
  <2>5. cur # r \/ idx # n
    BY <2>2, <2>3 DEF NoRow
  <2>6. QED
    BY <2>2, <2>3, <2>4, <2>5, SetNodeFacts DEF TypeOK
<1>3. CASE \/ IdleTick \/ LoadFails \/ UNCHANGED vars \/ PickRun \/ LoadDefinition
           \/ EnsureFails \/ StartJob
           \/ CheckCancel \/ PassOver \/ EndPass \/ ReadUnfinished \/ ReadFinished
           \/ ReadCancelFlag \/ FinalizeRun \/ RecordVerdict \/ AbortRun
           \/ SchedulerError \/ AbortError \/ Crash
           \/ (\E q \in Runs : CreateRun(q) \/ CancelRead(q) \/ CancelCommit(q))
           \/ (\E q \in Runs, m \in Nodes : TaskLost(q, m))
  <2>1. UNCHANGED nodeStatus /\ executing' \subseteq executing
    BY <1>3 DEF IdleTick, LoadFails, vars, tables, others, PickRun, LoadDefinition, EnsureFails,
              StartJob, CheckCancel, PassOver, EndPass, ReadUnfinished, ReadFinished,
              ReadCancelFlag, FinalizeRun, RecordVerdict, AbortRun, SchedulerError,
              AbortError, Crash, CreateRun, CancelRead, CancelCommit, TaskLost
  <2>2. QED
    BY <2>1 DEF WorkersAgree
<1>4. QED
  BY ONLY [Next]_vars, <1>1, <1>2, <1>3 DEF Next, Scheduler

(* The maps of execute_run agree with the rows: what it knows to have      *)
(* ended is final, what it waits for is launched, the rest is pending.     *)
LEMMA MemoryStep ==
  TypeOK /\ CurrentRun /\ Prepared /\ MemoryAgrees /\ WorkersAgree /\ [Next]_vars
    => MemoryAgrees'
<1> SUFFICES ASSUME TypeOK, CurrentRun, Prepared, MemoryAgrees, WorkersAgree,
                    [Next]_vars, InLoop', NEW n \in Nodes
             PROVE  /\ results'[n] # Unknown /\ n \notin Overwritable
                         => nodeStatus'[cur'][n] = results'[n]
                    /\ n \in runningNodes' => Launched(cur, n)'
                    /\ ~Known(n)' => nodeStatus'[cur'][n] = "pending"
    BY DEF MemoryAgrees, Overwritable
<1>n. 0 \notin Runs /\ Nodes = 1..NumNodes
  BY DEF Runs, Nodes
<1>1. CASE SkipNode \/ QueueNode \/ RefuseNode
  <2>1. /\ InLoop /\ cur \in Runs /\ cur' = cur /\ idx \in Nodes
        /\ nodeStatus[cur][idx] = "pending"
    BY <1>1, <1>n DEF SkipNode, QueueNode, RefuseNode, AtNode, Ready, InLoop, TypeOK,
                      CurrentRun, MemoryAgrees
  <2>2. PICK s \in NodeStatuses : SetNode(cur, idx, s)
    BY <1>1, StatusFacts DEF SkipNode, QueueNode, RefuseNode, NodeReported
  <2>3. /\ nodeStatus'[cur][idx] = s
        /\ n # idx => nodeStatus'[cur][n] = nodeStatus[cur][n]
    BY <2>1, <2>2, SetNodeFacts DEF TypeOK
  <2>4. CASE n # idx
    <3>1. results'[n] = results[n] /\ (n \in runningNodes' <=> n \in runningNodes)
      BY <1>1, <2>4 DEF SkipNode, QueueNode, RefuseNode, TypeOK
    <3>2. QED
      BY <2>1, <2>3, <2>4, <3>1 DEF MemoryAgrees, Launched, Known
  <2>5. CASE n = idx
    <3>1. results[n] = Unknown /\ n \notin runningNodes
      BY <1>1, <2>5 DEF SkipNode, QueueNode, RefuseNode, Ready, Known
    <3>2. CASE QueueNode
      <4>1. nodeStatus'[cur][idx] = "queued" /\ results' = results
            /\ runningNodes' = runningNodes \cup {idx}
        BY <2>1, <3>2, SetNodeFacts, StatusFacts DEF QueueNode, TypeOK
      <4>2. QED
        BY <2>1, <2>5, <3>1, <4>1 DEF Launched, Known
    <3>3. CASE SkipNode
      <4>1. nodeStatus'[cur][idx] = "skipped" /\ results'[idx] = "skipped"
            /\ runningNodes' = runningNodes
        BY <2>1, <3>3, SetNodeFacts, StatusFacts DEF SkipNode, TypeOK
      <4>2. QED
        BY <2>1, <2>5, <3>1, <4>1 DEF Launched, Known, Unknown
    <3>4. CASE RefuseNode
      <4>1. nodeStatus'[cur][idx] = "failed" /\ results'[idx] = "failed"
            /\ runningNodes' = runningNodes
        BY <2>1, <3>4, SetNodeFacts, StatusFacts DEF RefuseNode, TypeOK, NodeReported
      <4>2. QED
        BY <2>1, <2>5, <3>1, <4>1 DEF Launched, Known, Unknown
    <3>5. QED
      BY <1>1, <3>2, <3>3, <3>4
  <2>6. QED
    BY <2>4, <2>5
<1>2. CASE StartJob
  <2>1. /\ UNCHANGED <<nodeStatus, cur, results, runningNodes>>
        /\ results = NothingKnown /\ runningNodes = {}
    BY <1>2 DEF StartJob, Prepared
  <2>2. nodeStatus[cur][n] = "pending"
    BY <1>2, <1>n, NodesAssumption DEF StartJob, Prepared
  <2>3. QED
    BY <2>1, <2>2 DEF Launched, Known, NothingKnown
<1>3. CASE ReadFinished
  <2>1. PICK k \in runningNodes \ scanned :
          /\ nodeStatus[cur][k] \in NodeReported
          /\ runningNodes' = runningNodes \ {k}
          /\ results' = [results EXCEPT ![k] = nodeStatus[cur][k]]
    BY <1>3 DEF ReadFinished
  <2>2. UNCHANGED <<nodeStatus, cur>> /\ InLoop
    BY <1>3 DEF ReadFinished, tables, InLoop
  <2>3. k \in Nodes
    BY <2>1 DEF TypeOK
  <2>4. CASE n = k
    BY <2>1, <2>2, <2>3, <2>4, StatusFacts DEF Known, TypeOK
  <2>5. CASE n # k
    BY <2>1, <2>2, <2>3, <2>5 DEF Known, TypeOK, MemoryAgrees, Launched
  <2>6. QED
    BY <2>4, <2>5
<1>4. CASE \/ IdleTick \/ LoadFails \/ UNCHANGED vars
           \/ CheckCancel \/ PassOver \/ EndPass \/ ReadUnfinished
           \/ ReadCancelFlag
           \/ (\E r \in Runs : CreateRun(r) \/ CancelRead(r) \/ CancelCommit(r))
           \/ (\E r \in Runs, m \in Nodes : TaskLost(r, m))
  <2>1. UNCHANGED <<nodeStatus, cur, results, runningNodes>> /\ InLoop
    BY <1>4 DEF IdleTick, LoadFails, vars, tables, memory, CancelRead, TaskLost, CheckCancel,
                PassOver, EndPass, ReadUnfinished, ReadCancelFlag, CreateRun,
                CancelCommit, InLoop
  <2>2. QED
    BY <2>1 DEF MemoryAgrees, Launched, Known
<1>5. CASE \/ PickRun \/ LoadDefinition \/ EnsureNode \/ EnsureFails \/ FinalizeRun
           \/ RecordVerdict \/ SchedulerError \/ AbortError \/ Crash \/ AbortRun
  <2>1. ~InLoop'
    BY <1>5 DEF PickRun, LoadDefinition, EnsureNode, EnsureFails, FinalizeRun,
                RecordVerdict, SchedulerError, AbortError, Crash, AbortRun, Locals, InLoop
  <2>2. QED
    BY <2>1
<1>6. ASSUME NEW q \in Runs, NEW m \in Nodes,
              WorkerStart(q, m) \/ WorkerFinish(q, m) \/ AgentLost(q, m) \/ RemoteOverwrite(q, m)
      PROVE  /\ results'[n] # Unknown /\ n \notin Overwritable
                  => nodeStatus'[cur'][n] = results'[n]
             /\ n \in runningNodes' => Launched(cur, n)'
             /\ ~Known(n)' => nodeStatus'[cur'][n] = "pending"
  <2>1. UNCHANGED <<cur, results, runningNodes, pc>>
    BY <1>6 DEF WorkerStart, WorkerFinish, AgentLost, RemoteOverwrite, memory
  <2>2. InLoop /\ cur \in Runs
    BY <2>1 DEF InLoop, CurrentRun, TypeOK
  <2>3. results[n] # Unknown /\ n \notin Overwritable => nodeStatus'[cur][n] = results[n]
    <3>1. SUFFICES ASSUME results[n] # Unknown, n \notin Overwritable
                   PROVE  nodeStatus'[cur][n] = results[n]
      OBVIOUS
    <3>2. nodeStatus[cur][n] = results[n] /\ results[n] \in NodeTerminal
      BY <2>2, <3>1 DEF MemoryAgrees, TypeOK
    <3>3. QED
      BY <2>2, <3>1, <3>2, EndedStays
  <2>4. n \in runningNodes => Launched(cur, n)'
    BY <2>1, <2>2, LaunchedStays DEF MemoryAgrees, Launched
  <2>5. ~Known(n) => nodeStatus'[cur][n] = "pending"
    <3>1. SUFFICES ASSUME ~Known(n) PROVE nodeStatus'[cur][n] = "pending"
      OBVIOUS
    <3>2. nodeStatus[cur][n] = "pending"
      BY <2>2, <3>1 DEF MemoryAgrees
    <3>3. nodeStatus[q][m] # "pending"
      <4>1. CASE WorkerFinish(q, m)
        BY <4>1 DEF WorkerFinish, WorkersAgree
      <4>2. CASE WorkerStart(q, m) \/ AgentLost(q, m)
        BY <4>2 DEF WorkerStart, AgentLost
      <4>3. CASE RemoteOverwrite(q, m)
        BY <4>3 DEF RemoteOverwrite, NodeReported
      <4>4. QED
        BY <1>6, <4>1, <4>2, <4>3
    <3>4. PICK s \in NodeStatuses : SetNode(q, m, s)
      BY <1>6, StatusFacts
         DEF WorkerStart, WorkerFinish, AgentLost, RemoteOverwrite, Outcomes, NodeReported
    <3>5. q # cur \/ m # n
      BY <3>2, <3>3
    <3>6. QED
      BY <2>2, <3>2, <3>4, <3>5, SetNodeFacts DEF TypeOK
  <2>6. QED
    BY <2>1, <2>3, <2>4, <2>5 DEF Known
<1>7. QED
  BY ONLY [Next]_vars, <1>1, <1>2, <1>3, <1>4, <1>5, <1>6 DEF Next, Scheduler

-----------------------------------------------------------------------------
(* A node is in one of the maps of execute_run at most. *)
LEMMA ApartStep ==
  TypeOK /\ CurrentRun /\ Prepared /\ Apart /\ [Next]_vars => Apart'
<1> SUFFICES ASSUME TypeOK, CurrentRun, Prepared, Apart, [Next]_vars, InLoop',
                    NEW n \in runningNodes'
             PROVE  results'[n] = Unknown
    BY DEF Apart
<1>1. CASE SkipNode \/ QueueNode \/ RefuseNode
  <2>1. InLoop /\ ~Known(idx)
    BY <1>1 DEF SkipNode, QueueNode, RefuseNode, Ready, AtNode, InLoop
  <2>2. QED
    BY <1>1, <2>1 DEF SkipNode, QueueNode, RefuseNode, Known, Apart, TypeOK
<1>2. CASE ReadFinished
  BY <1>2 DEF ReadFinished, Apart, InLoop, TypeOK
<1>3. CASE StartJob
  BY <1>3 DEF StartJob, Prepared
<1>4. CASE \/ IdleTick \/ LoadFails \/ UNCHANGED vars
           \/ CheckCancel \/ PassOver \/ EndPass \/ ReadUnfinished \/ ReadCancelFlag
           \/ (\E r \in Runs : CreateRun(r) \/ CancelRead(r) \/ CancelCommit(r))
           \/ (\E r \in Runs, m \in Nodes :
                 \/ WorkerStart(r, m) \/ WorkerFinish(r, m) \/ AgentLost(r, m)
                 \/ TaskLost(r, m) \/ RemoteOverwrite(r, m))
  <2>1. UNCHANGED <<results, runningNodes>> /\ InLoop
    BY <1>4 DEF IdleTick, LoadFails, vars, memory, CheckCancel, PassOver, EndPass,
                ReadUnfinished, ReadCancelFlag, CreateRun, CancelRead, CancelCommit,
                WorkerStart, WorkerFinish, AgentLost, TaskLost, RemoteOverwrite, InLoop
  <2>2. QED
    BY <2>1 DEF Apart
<1>5. CASE \/ PickRun \/ LoadDefinition \/ EnsureNode \/ EnsureFails \/ FinalizeRun
           \/ RecordVerdict \/ SchedulerError \/ AbortError \/ Crash \/ AbortRun
  <2>1. ~InLoop'
    BY <1>5 DEF PickRun, LoadDefinition, EnsureNode, EnsureFails, FinalizeRun,
                RecordVerdict, SchedulerError, AbortError, Crash, AbortRun, Locals, InLoop
  <2>2. QED
    BY <2>1
<1>6. QED
  BY ONLY [Next]_vars, <1>1, <1>2, <1>3, <1>4, <1>5 DEF Next, Scheduler

(* The flags are raised, and nodes skipped, only when something that       *)
(* excludes success is recorded.                                           *)
LEMMA StopStep ==
  TypeOK /\ CurrentRun /\ Prepared /\ Apart /\ StopIsRecorded /\ [Next]_vars
    => StopIsRecorded'
<1> SUFFICES ASSUME TypeOK, CurrentRun, Prepared, Apart, StopIsRecorded, [Next]_vars,
                    InLoop', (stopScheduling \/ \E n \in Nodes : results[n] = "skipped")'
             PROVE  Spoiled'
    BY DEF StopIsRecorded
<1>n. 0 \notin Runs /\ Nodes = 1..NumNodes
  BY DEF Runs, Nodes
<1>1. CASE SkipNode
  <2>1. idx \in Nodes /\ ~Known(idx) /\ cur \in Runs /\ InLoop
    BY <1>1, <1>n DEF SkipNode, AtNode, TypeOK, CurrentRun, InLoop
  <2>2. results' = [results EXCEPT ![idx] = "skipped"] /\ canceling' = canceling
    BY <1>1 DEF SkipNode
  <2>3. Spoiled
    <3>1. CASE stopScheduling \/ canceling
      BY <2>1, <3>1 DEF StopIsRecorded, Spoiled
    <3>2. CASE Blocked(idx)
      <4>1. PICK m \in deps[cur][idx] : results[m] \notin {Unknown, "success"}
        BY <3>2 DEF Blocked
      <4>2. m \in Nodes
        BY <2>1, <4>1 DEF TypeOK, Definitions
      <4>3. results[m] \in NodeUnsuccessful \cup {"skipped"}
        BY <4>1, <4>2, StatusFacts DEF TypeOK
      <4>4. QED
        BY <2>1, <4>2, <4>3 DEF StopIsRecorded, Spoiled
    <3>3. QED
      BY <1>1, <3>1, <3>2 DEF SkipNode
  <2>4. results[idx] \notin NodeUnsuccessful
    BY <2>1, StatusFacts DEF Known, NodeUnsuccessful, NodeReported, Unknown, Apart
  <2>5. QED
    BY <2>1, <2>2, <2>3, <2>4 DEF Spoiled, TypeOK
<1>2. CASE RefuseNode
  <2>1. idx \in Nodes
    BY <1>2, <1>n DEF RefuseNode, AtNode, TypeOK
  <2>2. results'[idx] = "failed"
    BY <1>2, <2>1 DEF RefuseNode, TypeOK
  <2>3. QED
    BY <2>1, <2>2, StatusFacts DEF Spoiled
<1>3. CASE ReadFinished
  <2>1. PICK k \in runningNodes \ scanned :
          /\ nodeStatus[cur][k] \in NodeReported
          /\ results' = [results EXCEPT ![k] = nodeStatus[cur][k]]
          /\ stopScheduling' = (stopScheduling \/ nodeStatus[cur][k] \in NodeUnsuccessful)
          /\ canceling' = (canceling \/ nodeStatus[cur][k] = "canceled")
    BY <1>3 DEF ReadFinished
  <2>2. k \in Nodes /\ results[k] = Unknown /\ results'[k] = nodeStatus[cur][k]
    BY <1>3, <2>1 DEF ReadFinished, TypeOK, Apart, InLoop
  <2>3. CASE nodeStatus[cur][k] \in NodeUnsuccessful
    BY <2>2, <2>3 DEF Spoiled
  <2>4. CASE nodeStatus[cur][k] \notin NodeUnsuccessful
    <3>1. \A m \in Nodes : m # k => results'[m] = results[m]
      BY <2>1 DEF TypeOK
    <3>2. results'[k] # "skipped" /\ results[k] \notin NodeUnsuccessful
      BY <2>1, <2>2, StatusFacts DEF NodeUnsuccessful, NodeReported, Unknown
    <3>3. stopScheduling \/ \E m \in Nodes : results[m] = "skipped"
      BY <2>1, <2>4, <3>1, <3>2
    <3>4. Spoiled
      BY <1>3, <3>3 DEF StopIsRecorded, ReadFinished, InLoop
    <3>5. QED
      BY <2>1, <2>2, <3>1, <3>2, <3>4 DEF Spoiled
  <2>5. QED
    BY <2>3, <2>4
<1>4. CASE ReadCancelFlag
  <2>1. InLoop /\ results' = results
    BY <1>4 DEF ReadCancelFlag, InLoop
  <2>2. (stopScheduling' => stopScheduling \/ canceling') /\ (canceling => canceling')
    BY <1>4 DEF ReadCancelFlag
  <2>3. QED
    BY <2>1, <2>2 DEF StopIsRecorded, Spoiled
<1>5. CASE StartJob
  <2>1. results' = NothingKnown /\ stopScheduling' = stopScheduling
    BY <1>5 DEF StartJob, Prepared
  <2>2. stopScheduling = FALSE
    BY <1>5 DEF StartJob, Prepared
  <2>3. QED
    BY <2>1, <2>2 DEF NothingKnown, Unknown
<1>6. CASE \/ IdleTick \/ LoadFails \/ UNCHANGED vars \/ CheckCancel
           \/ PassOver \/ QueueNode \/ EndPass \/ ReadUnfinished
           \/ (\E r \in Runs : CreateRun(r) \/ CancelRead(r) \/ CancelCommit(r))
           \/ (\E r \in Runs, m \in Nodes :
                 \/ WorkerStart(r, m) \/ WorkerFinish(r, m) \/ AgentLost(r, m)
                 \/ TaskLost(r, m) \/ RemoteOverwrite(r, m))
  <2>1. UNCHANGED <<results, stopScheduling>> /\ InLoop
    BY <1>6 DEF IdleTick, LoadFails, vars, memory, CheckCancel, PassOver, QueueNode, AtNode,
                EndPass, ReadUnfinished, CreateRun, CancelRead, CancelCommit,
                WorkerStart, WorkerFinish, AgentLost, TaskLost, RemoteOverwrite, InLoop
  <2>2. canceling => canceling'
    <3>1. CASE CheckCancel
      BY <3>1 DEF CheckCancel
    <3>2. CASE ~CheckCancel
      BY <1>6, <3>2 DEF IdleTick, LoadFails, vars, memory, PassOver, QueueNode, AtNode,
                EndPass, ReadUnfinished, CreateRun, CancelRead, CancelCommit,
                WorkerStart, WorkerFinish, AgentLost, TaskLost, RemoteOverwrite
    <3>3. QED
      BY <3>1, <3>2
  <2>3. QED
    BY <2>1, <2>2 DEF StopIsRecorded, Spoiled
<1>7. CASE \/ PickRun \/ LoadDefinition \/ EnsureNode \/ EnsureFails \/ FinalizeRun
           \/ RecordVerdict \/ SchedulerError \/ AbortError \/ Crash \/ AbortRun
  <2>1. ~InLoop'
    BY <1>7 DEF PickRun, LoadDefinition, EnsureNode, EnsureFails, FinalizeRun,
                RecordVerdict, SchedulerError, AbortError, Crash, AbortRun, Locals, InLoop
  <2>2. QED
    BY <2>1
<1>8. QED
  BY ONLY [Next]_vars, <1>1, <1>2, <1>3, <1>4, <1>5, <1>6, <1>7 DEF Next, Scheduler

-----------------------------------------------------------------------------
(* Dependencies come earlier in the list, so a node left unresolved by a   *)
(* pass has a running node before it, and an empty running set means that  *)
(* everything is resolved.                                                 *)
LEMMA ProgressStep ==
  TypeOK /\ CurrentRun /\ PassProgress /\ [Next]_vars => PassProgress'
<1> SUFFICES ASSUME TypeOK, CurrentRun, PassProgress, [Next]_vars PROVE PassProgress'
    OBVIOUS
<1>n. 0 \notin Runs /\ Nodes = 1..NumNodes /\ NumNodes \in Nat
  BY NodesAssumption DEF Runs, Nodes
<1>1. CASE PassOver
  <2>1. /\ pc = "pass" /\ idx \in Nodes /\ idx' = idx + 1 /\ cur \in Runs
        /\ UNCHANGED <<pc, results, runningNodes>>
    BY <1>1, <1>n DEF PassOver, AtNode, TypeOK, CurrentRun
  <2>2. results[idx] # Unknown \/ \E m \in runningNodes : m <= idx
    <3>1. CASE Known(idx)
      BY <2>1, <3>1, <1>n DEF Known, TypeOK
    <3>2. CASE Waiting(idx)
      <4>1. PICK d \in deps[cur][idx] : results[d] = Unknown
        BY <3>2 DEF Waiting
      <4>2. deps[cur][idx] \subseteq 1..(idx-1) /\ deps[cur][idx] \subseteq Nodes
        BY <2>1 DEF TypeOK, Definitions
      <4>3. d \in Nodes /\ d < idx
        BY <2>1, <4>1, <4>2, <1>n
      <4>4. PICK m \in runningNodes : m <= d
        BY <2>1, <4>1, <4>3 DEF PassProgress
      <4>5. m \in Nodes
        BY <4>4 DEF TypeOK
      <4>6. QED
        BY <2>1, <4>3, <4>4, <4>5, <1>n
    <3>3. QED
      BY <1>1, <3>1, <3>2 DEF PassOver
  <2>3. \A n \in Nodes : n < idx + 1 => n < idx \/ n = idx
    BY <2>1, <1>n
  <2>4. QED
    BY <2>1, <2>2, <2>3 DEF PassProgress
<1>2. CASE SkipNode \/ QueueNode \/ RefuseNode
  <2>1. /\ pc = "pass" /\ pc' = "pass" /\ idx \in Nodes /\ idx' = idx + 1
        /\ runningNodes \subseteq runningNodes'
    BY <1>2, <1>n DEF SkipNode, QueueNode, RefuseNode, AtNode, TypeOK
  <2>2. \A n \in Nodes : n # idx => results'[n] = results[n]
    BY <1>2 DEF SkipNode, QueueNode, RefuseNode, TypeOK
  <2>3. results'[idx] # Unknown \/ idx \in runningNodes'
    BY <1>2, <2>1 DEF SkipNode, QueueNode, RefuseNode, TypeOK, Unknown
  <2>4. \A n \in Nodes : n < idx + 1 => n < idx \/ n = idx
    BY <2>1, <1>n
  <2>5. \A n \in Nodes : n < idx => n # idx
    BY <2>1, <1>n
  <2>6. idx <= idx
    BY <2>1, <1>n
  <2>7. QED
    BY <2>1, <2>2, <2>3, <2>4, <2>5, <2>6 DEF PassProgress
<1>3. CASE EndPass
  <2>1. /\ pc = "pass" /\ idx = NumNodes + 1 /\ UNCHANGED <<results, runningNodes>>
        /\ pc' = (IF runningNodes = {} THEN "final" ELSE "wait")
    BY <1>3 DEF EndPass
  <2>2. \A n \in Nodes : n < idx
    BY <2>1, <1>n
  <2>3. QED
    BY <2>1, <2>2 DEF PassProgress
<1>4. CASE CheckCancel
  <2>1. pc' = "pass" /\ idx' = 1
    BY <1>4 DEF CheckCancel
  <2>2. \A n \in Nodes : ~(n < 1)
    BY <1>n
  <2>3. QED
    BY <2>1, <2>2 DEF PassProgress
<1>5. CASE \/ IdleTick \/ UNCHANGED vars
           \/ (\E r \in Runs : CreateRun(r) \/ CancelRead(r) \/ CancelCommit(r))
           \/ (\E r \in Runs, m \in Nodes :
                 \/ WorkerStart(r, m) \/ WorkerFinish(r, m) \/ AgentLost(r, m)
                 \/ TaskLost(r, m) \/ RemoteOverwrite(r, m))
  <2>1. UNCHANGED <<pc, idx, results, runningNodes>>
    BY <1>5 DEF IdleTick, vars, memory, CreateRun, CancelRead, CancelCommit,
                WorkerStart, WorkerFinish, AgentLost, TaskLost, RemoteOverwrite
  <2>2. QED
    BY <2>1 DEF PassProgress
<1>6. CASE \/ PickRun \/ LoadDefinition \/ LoadFails \/ EnsureNode \/ EnsureFails
           \/ StartJob \/ ReadUnfinished \/ ReadFinished \/ ReadCancelFlag
           \/ FinalizeRun \/ RecordVerdict \/ SchedulerError \/ AbortError \/ Crash
           \/ AbortRun
  <2>1. pc' \notin {"pass", "final"}
    BY <1>6 DEF PickRun, LoadDefinition, LoadFails, EnsureNode, EnsureFails, StartJob,
                ReadUnfinished, ReadFinished, ReadCancelFlag, FinalizeRun,
                RecordVerdict, SchedulerError, AbortError, Crash, AbortRun, Locals
  <2>2. QED
    BY <2>1 DEF PassProgress
<1>7. QED
  BY ONLY [Next]_vars, <1>1, <1>2, <1>3, <1>4, <1>5, <1>6 DEF Next, Scheduler

(* The only write of success is finalize_job's, and by then every result   *)
(* is success and so is every row.                                         *)
LEMMA SuccessStep ==
  TypeOK /\ CurrentRun /\ MemoryAgrees /\ WorkersAgree /\ StopIsRecorded /\ PassProgress
    /\ SuccessMeansAll /\ [Next]_vars => SuccessMeansAll'
<1> SUFFICES ASSUME TypeOK, CurrentRun, MemoryAgrees, WorkersAgree, StopIsRecorded,
                    PassProgress, SuccessMeansAll, [Next]_vars,
                    NEW r \in Runs, jobStatus'[r] = "success",
                    NEW n \in Nodes, n \notin Overwritable
             PROVE  nodeStatus'[r][n] = "success"
    BY DEF SuccessMeansAll, Overwritable
<1>1. CASE jobStatus[r] = "success"
  <2>1. nodeStatus[r][n] = "success"
    BY <1>1 DEF SuccessMeansAll
  <2>2. QED
    BY <2>1, EndedStays DEF NodeTerminal, NodeReported
<1>2. CASE jobStatus[r] # "success"
  <2>1. FinalizeRun /\ cur = r
    <3>1. CASE FinalizeRun
      <4>1. cur \in Runs
        BY <3>1 DEF FinalizeRun, CurrentRun, TypeOK
      <4>2. cur = r
        BY <1>2, <3>1 DEF FinalizeRun, SetJob, TypeOK
      <4>3. QED
        BY <3>1, <4>2
    <3>2. CASE \/ StartJob \/ AbortRun
               \/ (\E q \in Runs : CreateRun(q) \/ CancelCommit(q))
      BY <1>2, <3>2 DEF StartJob, AbortRun, CreateRun, CancelCommit, SetJob, TypeOK
    <3>3. CASE ~(\/ FinalizeRun \/ StartJob \/ AbortRun
                 \/ (\E q \in Runs : CreateRun(q) \/ CancelCommit(q)))
      <4>1. UNCHANGED jobStatus
        BY <3>3 DEF Next, Scheduler, IdleTick, LoadFails, vars, tables, PickRun, LoadDefinition,
              EnsureFails, EnsureNode, CheckCancel, PassOver, EndPass, ReadUnfinished,
              ReadFinished, SkipNode, QueueNode, RefuseNode, ReadCancelFlag,
              RecordVerdict, SchedulerError, AbortError, Crash, CancelRead, TaskLost,
              WorkerStart, WorkerFinish, AgentLost, RemoteOverwrite
      <4>2. QED
        BY <1>2, <4>1
    <3>4. QED
      BY <3>1, <3>2, <3>3
  <2>2. Verdict = "success" /\ nodeStatus' = nodeStatus /\ pc = "final"
    BY <2>1 DEF FinalizeRun, SetJob, TypeOK
  <2>3. ~Spoiled
    BY <2>2 DEF Verdict, Ended, Spoiled, NodeUnsuccessful, NodeReported
  <2>4. results[n] # Unknown /\ results[n] # "skipped"
    BY <2>2, <2>3 DEF PassProgress, StopIsRecorded, InLoop
  <2>5. results[n] = "success"
    BY <2>3, <2>4, StatusFacts DEF Spoiled, TypeOK
  <2>6. QED
    BY <2>1, <2>2, <2>5 DEF MemoryAgrees, InLoop, Unknown
<1>3. QED
  BY <1>1, <1>2

-----------------------------------------------------------------------------
LEMMA InitInv == Init => IInv
<1> SUFFICES ASSUME Init PROVE IInv
    OBVIOUS
<1>1. TypeOK
  <2>1. [n \in Nodes |-> {}] \in Definitions
    BY DEF Definitions
  <2>2. 1 \in 1..(NumNodes + 1) /\ 0 \in 0..MaxFaults
    BY NodesAssumption, FaultAssumption
  <2>3. QED
    BY <2>1, <2>2 DEF Init, TypeOK, Steps, NothingKnown
<1>2. CurrentRun /\ Unstarted /\ Prepared /\ MemoryAgrees /\ Apart /\ WorkersAgree
  BY DEF Init, CurrentRun, Unstarted, Prepared, MemoryAgrees, Apart, WorkersAgree, InLoop
<1>3. StopIsRecorded /\ PassProgress
  BY DEF Init, StopIsRecorded, PassProgress, InLoop
<1>4. DependencyOrder /\ SuccessMeansAll
  BY DEF Init, DependencyOrder, SuccessMeansAll, Launched, NoRow, NodeReported
<1>5. QED
  BY <1>1, <1>2, <1>3, <1>4 DEF IInv

LEMMA StepInv == IInv /\ [Next]_vars => IInv'
<1> SUFFICES ASSUME IInv, [Next]_vars PROVE IInv'
    OBVIOUS
<1>1. TypeOK'
  BY TypeStep DEF IInv, CurrentRun, Typed
<1>2. CurrentRun' /\ Unstarted' /\ Prepared'
  BY CurrentRunStep, UnstartedStep, PreparedStep DEF IInv
<1>3. MemoryAgrees' /\ Apart' /\ WorkersAgree'
  BY MemoryStep, ApartStep, WorkersStep DEF IInv
<1>4. StopIsRecorded' /\ PassProgress'
  BY StopStep, ProgressStep DEF IInv
<1>5. DependencyOrder' /\ SuccessMeansAll'
  BY DependencyStep, SuccessStep DEF IInv
<1>6. QED
  BY <1>1, <1>2, <1>3, <1>4, <1>5 DEF IInv

(* The inductive invariant holds throughout every behaviour: the memory of *)
(* execute_run, the workers and the two tables stay tied together under    *)
(* every interleaving, database error and restart.                         *)
THEOREM Invariance == Spec => []IInv
<1>1. Init => IInv
  BY InitInv
<1>2. IInv /\ [Next]_vars => IInv'
  BY StepInv
<1>3. QED
  BY <1>1, <1>2, PTL DEF Spec

(* The variables keep their types (the tables their CHECK constraints).    *)
THEOREM TypeCorrectness == Spec => []TypeOK
<1>1. IInv => TypeOK
  BY DEF IInv
<1>2. QED
  BY <1>1, Invariance, PTL

(* Whatever the definition, the number of runs and the faults, no node is  *)
(* handed to a worker before all it depends on has succeeded.              *)
THEOREM DependenciesFirst == Spec => []DependencyOrder
<1>1. IInv => DependencyOrder
  BY DEF IInv
<1>2. QED
  BY <1>1, Invariance, PTL

(* A run is recorded as success only if every one of its nodes succeeded. *)
THEOREM SuccessIsComplete == Spec => []SuccessMeansAll
<1>1. IInv => SuccessMeansAll
  BY DEF IInv
<1>2. QED
  BY <1>1, Invariance, PTL

(* A node that has ended is never written again, races of agents aside.    *)
THEOREM EndedNodesStay == Spec => NodeFinality
<1>1. IInv /\ [Next]_vars =>
        [\A r \in Runs : \A n \in Nodes \ Overwritable :
           nodeStatus[r][n] \in NodeTerminal => nodeStatus'[r][n] = nodeStatus[r][n]]_vars
  BY EndedStays DEF IInv
<1>2. QED
  BY <1>1, Invariance, PTL DEF Spec, NodeFinality

-----------------------------------------------------------------------------
(* The refinement of RemoteWorkers, and its converse. *)

(* A write of one row is the same write in the table RemoteWorkers has. *)
LEMMA RowWritten ==
  ASSUME TypeOK, NEW r \in Runs, NEW n \in Nodes, NEW s \in NodeStatuses, SetNode(r, n, s)
  PROVE  /\ <<r, n>> \in Rows /\ Table[<<r, n>>] = Shown(nodeStatus[r][n])
         /\ Workers!Move(<<r, n>>, Shown(nodeStatus[r][n]), s)
<1>1. <<r, n>> \in Rows /\ Table[<<r, n>>] = Shown(nodeStatus[r][n]) /\ Shown(s) = s
  BY StatusFacts DEF Rows, Table, Shown
<1>2. ASSUME NEW t \in Rows
      PROVE  Table'[t] = IF t = <<r, n>> THEN s ELSE Table[t]
  <2>1. PICK q \in Runs, m \in Nodes : t = <<q, m>>
    BY DEF Rows
  <2>2. Table'[t] = Shown(nodeStatus'[q][m]) /\ Table[t] = Shown(nodeStatus[q][m])
    BY <2>1 DEF Table, Shown
  <2>3. nodeStatus'[q][m] = IF q = r /\ m = n THEN s ELSE nodeStatus[q][m]
    BY SetNodeFacts DEF TypeOK
  <2>4. QED
    BY <1>1, <2>1, <2>2, <2>3
<1>3. Table' = [Table EXCEPT ![<<r, n>>] = s]
  <2>1. Table = [t \in Rows |-> Table[t]] /\ Table' = [t \in Rows |-> Table'[t]]
    BY DEF Table
  <2>2. QED
    BY <1>1, <1>2, <2>1
<1>4. QED
  BY <1>1, <1>3 DEF Workers!Move

(* The scheduler queues, skips and refuses only what is pending. *)
LEMMA PassWrites ==
  ASSUME IInv, EnsureNode \/ SkipNode \/ QueueNode \/ RefuseNode
  PROVE  Workers!Next
<1>1. cur \in Runs /\ idx \in Nodes /\ executing' = executing
  BY DEF EnsureNode, SkipNode, QueueNode, RefuseNode, AtNode, InLoop, IInv, TypeOK,
         CurrentRun, Runs, Nodes, others
<1>2. CASE EnsureNode
  <2>1. Workers!Move(<<cur, idx>>, "pending", "pending") /\ Table[<<cur, idx>>] = "pending"
    BY <1>1, <1>2, RowWritten, StatusFacts DEF EnsureNode, IInv, Shown
  <2>2. Table' = Table
    BY <2>1 DEF Workers!Move, Table
  <2>3. QED
    BY <1>1, <2>2 DEF Workers!Next
<1>3. CASE SkipNode \/ QueueNode \/ RefuseNode
  <2>1. nodeStatus[cur][idx] = "pending" /\ Shown("pending") = "pending"
    BY <1>1, <1>3 DEF SkipNode, QueueNode, RefuseNode, AtNode, Ready, InLoop, IInv,
                      MemoryAgrees, Shown, NoRow
  <2>2. PICK s \in {"skipped", "queued", "failed"} : SetNode(cur, idx, s)
    BY <1>3 DEF SkipNode, QueueNode, RefuseNode
  <2>3. <<cur, idx>> \in Rows /\ Workers!Move(<<cur, idx>>, "pending", s)
    BY <1>1, <2>1, <2>2, RowWritten, StatusFacts DEF IInv
  <2>4. Workers!Skip(<<cur, idx>>) \/ Workers!Queue(<<cur, idx>>) \/ Workers!Refuse(<<cur, idx>>)
    BY <1>1, <2>3 DEF Workers!Skip, Workers!Queue, Workers!Refuse
  <2>5. QED
    BY <2>3, <2>4 DEF Workers!Next
<1>4. QED
  BY <1>2, <1>3

(* What the workers of the scheduler do, those of RemoteWorkers do. *)
LEMMA WorkersWrite ==
  ASSUME IInv, NEW r \in Runs, NEW n \in Nodes,
         \/ WorkerStart(r, n) \/ WorkerFinish(r, n) \/ AgentLost(r, n) \/ RemoteOverwrite(r, n)
  PROVE  Workers!Next
<1> DEFINE t == <<r, n>>
<1>1. ASSUME NEW s \in NodeStatuses, SetNode(r, n, s), nodeStatus[r][n] # NoRow
      PROVE  t \in Rows /\ Table[t] = nodeStatus[r][n] /\ Workers!Move(t, nodeStatus[r][n], s)
  BY <1>1, RowWritten DEF IInv, Shown
<1>2. CASE WorkerStart(r, n)
  <2>1. t \in Rows /\ Workers!Move(t, "queued", "running")
    BY <1>1, <1>2, StatusFacts DEF WorkerStart
  <2>2. QED
    BY <1>2, <2>1 DEF WorkerStart, Workers!Start, Workers!Next
<1>3. CASE WorkerFinish(r, n)
  <2>1. t \in executing /\ nodeStatus[r][n] = "running" /\ executing' = executing \ {t}
    BY <1>3 DEF WorkerFinish, IInv, WorkersAgree
  <2>2. PICK s \in NodeReported : SetNode(r, n, s)
    BY <1>3 DEF WorkerFinish, Outcomes
  <2>3. t \in Rows /\ Workers!Move(t, "running", s)
    BY <1>1, <2>1, <2>2, StatusFacts
  <2>4. QED
    BY <2>1, <2>3 DEF Workers!Finish, Workers!Next, Workers!NodeReported, NodeReported
<1>4. CASE AgentLost(r, n)
  <2>1. t \in Rows /\ (Workers!Move(t, "queued", "failed") \/ Workers!Move(t, "running", "failed"))
    BY <1>1, <1>4, StatusFacts DEF AgentLost
  <2>2. QED
    BY <1>4, <2>1 DEF AgentLost, Workers!Lose, Workers!Next
<1>5. CASE RemoteOverwrite(r, n)
  <2>1. nodeStatus[r][n] \in NodeReported /\ n \in Overwritable
    BY <1>5 DEF RemoteOverwrite, Fault, Overwritable
  <2>2. PICK s \in NodeReported \cup {"running"} :
          /\ SetNode(r, n, s)
          /\ executing' = IF s = "running" THEN executing \cup {t} ELSE executing
    BY <1>5 DEF RemoteOverwrite
  <2>3. t \in Rows /\ Table[t] = nodeStatus[r][n] /\ Workers!Move(t, nodeStatus[r][n], s)
    BY <1>1, <2>1, <2>2, StatusFacts
  <2>4. Workers!Rewrite(t)
    BY <2>1, <2>2, <2>3 DEF Workers!Rewrite, Workers!NodeReported, NodeReported
  <2>5. QED
    BY <2>3, <2>4 DEF Workers!Next
<1>6. QED
  BY <1>2, <1>3, <1>4, <1>5

LEMMA NextRefinesWorkers == IInv /\ [Next]_vars => [Workers!Next]_(Workers!vars)
<1> SUFFICES ASSUME IInv, [Next]_vars PROVE [Workers!Next]_(Workers!vars)
    OBVIOUS
<1>1. CASE EnsureNode \/ SkipNode \/ QueueNode \/ RefuseNode
  BY <1>1, PassWrites
<1>2. ASSUME NEW r \in Runs, NEW n \in Nodes,
             \/ WorkerStart(r, n) \/ WorkerFinish(r, n) \/ AgentLost(r, n)
             \/ RemoteOverwrite(r, n)
      PROVE  Workers!Next
  BY <1>2, WorkersWrite
<1>3. CASE \/ IdleTick \/ LoadFails \/ UNCHANGED vars \/ PickRun \/ LoadDefinition
           \/ EnsureFails \/ StartJob
           \/ CheckCancel \/ PassOver \/ EndPass \/ ReadUnfinished \/ ReadFinished
           \/ ReadCancelFlag \/ FinalizeRun \/ RecordVerdict \/ AbortRun
           \/ SchedulerError \/ AbortError \/ Crash
           \/ (\E r \in Runs : CreateRun(r) \/ CancelRead(r) \/ CancelCommit(r))
           \/ (\E r \in Runs, n \in Nodes : TaskLost(r, n))
  <2>1. UNCHANGED nodeStatus /\ executing' \subseteq executing
    BY <1>3 DEF IdleTick, LoadFails, vars, tables, others, PickRun, LoadDefinition, EnsureFails,
              StartJob, CheckCancel, PassOver, EndPass, ReadUnfinished, ReadFinished,
              ReadCancelFlag, FinalizeRun, RecordVerdict, AbortRun, SchedulerError,
              AbortError, Crash, CreateRun, CancelRead, CancelCommit, TaskLost
  <2>2. Table' = Table
    BY <2>1 DEF Table
  <2>3. QED
    BY <2>1, <2>2 DEF Workers!Next
<1>4. QED
  BY ONLY [Next]_vars, <1>1, <1>2, <1>3 DEF Next, Scheduler

(* RunScheduler implements RemoteWorkers under every fault: execute_run    *)
(* decides on its maps and writes rows by id, and still no row is queued   *)
(* or skipped twice, ended by anybody but who executes it, or written      *)
(* after its end unless a remote race strikes.                             *)
THEOREM SchedulerImplementsWorkers == Spec => ImplementsWorkers
<1>1. Init => Workers!Init
  <2> SUFFICES ASSUME Init PROVE Workers!Init
    OBVIOUS
  <2>1. Table = [t \in Rows |-> "pending"] /\ executing = {}
    BY DEF Init, Table, Shown, Rows
  <2>2. Runs \X Overwritable \subseteq Rows
    BY TargetAssumption DEF Overwritable, Rows, Nodes
  <2>3. QED
    BY <2>1, <2>2 DEF Workers!Init
<1>2. QED
  BY <1>1, NextRefinesWorkers, Invariance, PTL DEF Spec, ImplementsWorkers, Workers!Spec

(* Conversely, what RemoteWorkers allows to happen to a node that is with  *)
(* an agent is a step of RunScheduler.  The modules that implement         *)
(* RemoteWorkers (poll_task, report_result, check_agent_heartbeats) thus   *)
(* do nothing the theorems about the scheduler do not reckon with.         *)
THEOREM WorkersAdmitted ==
  ASSUME TypeOK, NEW r \in Runs, NEW n \in Targeted \cap assigned[r],
         nodeStatus' \in [Runs -> [Nodes -> NodeStatuses \cup {NoRow}]],
         \A q \in Runs, m \in Nodes : nodeStatus'[q][m] = NoRow <=> nodeStatus[q][m] = NoRow,
         UNCHANGED <<jobStatus, assigned, deps, memory, cancelPending>>,
         \/ /\ Workers!Start(<<r, n>>) \/ Workers!Finish(<<r, n>>) \/ Workers!Lose(<<r, n>>)
            /\ faults' = faults
         \/ /\ Workers!Rewrite(<<r, n>>)
            /\ faults < MaxFaults /\ faults' = faults + 1
         \/ /\ Table' = Table /\ <<r, n>> \in executing /\ executing' = executing \ {<<r, n>>}
            /\ Fault("task_lost")
  PROVE  Next
<1> DEFINE t == <<r, n>>
<1>1. n \in Nodes /\ t \in Rows
  BY TargetAssumption DEF Nodes, Rows
<1>2. \A q \in Runs, m \in Nodes : /\ Table[<<q, m>>] = Shown(nodeStatus[q][m])
                                   /\ Table'[<<q, m>>] = Shown(nodeStatus'[q][m])
  BY DEF Table, Rows, Shown
<1>3. ASSUME NEW from, NEW s \in {"running"} \cup NodeReported, from # "pending",
             Workers!Move(t, from, s)
      PROVE  nodeStatus[r][n] = from /\ SetNode(r, n, s)
  <2>1. Table[t] = from /\ Table' = [Table EXCEPT ![t] = s] /\ DOMAIN Table = Rows
    BY <1>3 DEF Workers!Move, Table
  <2>2. nodeStatus[r][n] = from
    BY <1>1, <1>2, <1>3, <2>1 DEF Shown
  <2>3. ASSUME NEW q \in Runs, NEW m \in Nodes
        PROVE  nodeStatus'[q][m] = IF q = r /\ m = n THEN s ELSE nodeStatus[q][m]
    <3>1. <<q, m>> \in Rows /\ (<<q, m>> = t <=> q = r /\ m = n)
      BY DEF Rows
    <3>2. Shown(nodeStatus'[q][m]) = IF q = r /\ m = n THEN s ELSE Shown(nodeStatus[q][m])
      BY <1>2, <2>1, <3>1
    <3>3. s # "pending" /\ s # NoRow
      BY StatusFacts
    <3>4. QED
      BY <3>2, <3>3 DEF Shown
  <2>4. nodeStatus' = [nodeStatus EXCEPT ![r][n] = s]
    BY <1>1, <2>3 DEF TypeOK
  <2>5. QED
    BY <2>2, <2>4 DEF SetNode
<1>4. CASE Workers!Start(t) /\ faults' = faults
  BY <1>1, <1>3, <1>4 DEF Workers!Start, WorkerStart, Next
<1>5. CASE Workers!Finish(t) /\ faults' = faults
  <2>1. PICK s \in NodeReported : Workers!Move(t, "running", s)
    BY <1>5 DEF Workers!Finish, Workers!NodeReported, NodeReported
  <2>2. t \in executing /\ executing' = executing \ {t} /\ SetNode(r, n, s)
    BY <1>3, <1>5, <2>1 DEF Workers!Finish
  <2>3. WorkerFinish(r, n)
    BY <1>5, <2>2 DEF WorkerFinish, Outcomes
  <2>4. QED
    BY <1>1, <2>3 DEF Next
<1>6. CASE Workers!Lose(t) /\ faults' = faults
  <2>1. nodeStatus[r][n] \in {"queued", "running"} /\ SetNode(r, n, "failed")
    <3>1. CASE Workers!Move(t, "queued", "failed")
      BY <1>3, <3>1 DEF NodeReported
    <3>2. CASE Workers!Move(t, "running", "failed")
      BY <1>3, <3>2 DEF NodeReported
    <3>3. QED
      BY <1>6, <3>1, <3>2 DEF Workers!Lose
  <2>2. AgentLost(r, n)
    BY <1>6, <2>1 DEF Workers!Lose, AgentLost
  <2>3. QED
    BY <1>1, <2>2 DEF Next
<1>7. CASE Workers!Rewrite(t) /\ faults < MaxFaults /\ faults' = faults + 1
  <2>1. n \in Overwritable /\ "remote_race" \in FaultKinds
    BY <1>7 DEF Workers!Rewrite, Overwritable
  <2>2. Table[t] \in NodeReported /\ Table[t] # "pending"
    BY <1>7 DEF Workers!Rewrite, Workers!NodeReported, NodeReported
  <2>3. PICK s \in NodeReported \cup {"running"} :
          /\ Workers!Move(t, Table[t], s)
          /\ executing' = IF s = "running" THEN executing \cup {t} ELSE executing
    BY <1>7 DEF Workers!Rewrite, Workers!NodeReported, NodeReported
  <2>4. nodeStatus[r][n] \in NodeReported /\ SetNode(r, n, s)
    BY <1>3, <2>2, <2>3
  <2>5. RemoteOverwrite(r, n)
    BY <1>7, <2>1, <2>3, <2>4 DEF RemoteOverwrite, Fault
  <2>6. QED
    BY <1>1, <2>5 DEF Next
<1>8. CASE Table' = Table /\ t \in executing /\ executing' = executing \ {t} /\ Fault("task_lost")
  <2>1. ASSUME NEW q \in Runs, NEW m \in Nodes
        PROVE  nodeStatus'[q][m] = nodeStatus[q][m]
    <3>1. Shown(nodeStatus'[q][m]) = Shown(nodeStatus[q][m])
      BY <1>2, <1>8
    <3>2. nodeStatus'[q][m] = NoRow <=> nodeStatus[q][m] = NoRow
      OBVIOUS
    <3>3. QED
      BY <3>1, <3>2 DEF Shown
  <2>2. nodeStatus' = nodeStatus
    BY <2>1 DEF TypeOK
  <2>3. QED
    BY <1>1, <1>8, <2>2 DEF TaskLost, tables, Next
<1>9. QED
  BY <1>4, <1>5, <1>6, <1>7, <1>8
=============================================================================
