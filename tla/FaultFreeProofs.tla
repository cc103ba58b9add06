--------------------------- MODULE FaultFreeProofs ---------------------------
(***************************************************************************)
(* Proofs about RunScheduler while nothing fails, for any number of nodes  *)
(* and runs: a run is told its end when its nodes have ended, with their   *)
(* verdict, one run is at work at a time, and the tables change only as    *)
(* DagExecution says.  And, whatever fails, runs start in order.           *)
(***************************************************************************)
EXTENDS RunSchedulerProofs

-----------------------------------------------------------------------------
(* Runs are created, picked and started in order, whatever fails. *)

LEMMA CurFacts ==
  ASSUME IInv
  PROVE  /\ 0 \notin Runs /\ Nodes = 1..NumNodes /\ NumNodes \in Nat \ {0}
         /\ pc # "idle" => cur \in Runs /\ jobStatus[cur] # NoRow
         /\ faults \in Nat
BY NodesAssumption, FaultAssumption DEF IInv, TypeOK, CurrentRun, Runs, Nodes

(* A step that writes no status of a run and takes up no run. *)
LEMMA SameQueue ==
  ASSUME QueueOrder, UNCHANGED jobStatus,
         \A r \in cancelPending' : r \in cancelPending \/ jobStatus[r] # NoRow,
         pc' \in {"load", "ensure"} => pc \in {"load", "ensure"} /\ cur' = cur
  PROVE  QueueOrder'
BY DEF QueueOrder

(* A step that moves an existing run on. *)
LEMMA RunMoved ==
  ASSUME QueueOrder, jobStatus \in [Runs -> JobStatuses \cup {NoRow}],
         NEW r \in Runs, jobStatus[r] # NoRow,
         NEW s \in JobStatuses \ {"created", "queued"}, SetJob(r, s), cancelPending' \subseteq cancelPending,
         cancelPending \subseteq Runs,
         pc' \in {"load", "ensure"} => pc \in {"load", "ensure"} /\ cur' = cur /\ cur \in Runs
  PROVE  QueueOrder'
<1>1. jobStatus'[r] = s /\ s # NoRow /\ \A q \in Runs : q # r => jobStatus'[q] = jobStatus[q]
  BY SetJobFacts, StatusFacts
<1>2. \A q \in Runs : jobStatus'[q] # NoRow <=> jobStatus[q] # NoRow
  BY <1>1
<1>3. \A q \in Runs : \A k \in 1..(q-1) : k \in Runs
  BY RunsAssumption DEF Runs
<1>4. \A q \in Runs : jobStatus'[q] # "created" /\ (jobStatus'[q] = "queued" => jobStatus[q] = "queued")
  BY <1>1 DEF QueueOrder
<1> QED BY <1>2, <1>3, <1>4 DEF QueueOrder

LEMMA QueueOrderStep ==
  ASSUME IInv, QueueOrder, [Next]_vars
  PROVE  QueueOrder'
<1>n. /\ 0 \notin Runs /\ (pc # "idle" => cur \in Runs /\ jobStatus[cur] # NoRow)
      /\ jobStatus \in [Runs -> JobStatuses \cup {NoRow}] /\ cancelPending \subseteq Runs
      /\ \A q \in Runs : \A k \in 1..(q-1) : k \in Runs
  BY CurFacts, RunsAssumption DEF IInv, TypeOK, Runs
<1>1. CASE \/ IdleTick \/ LoadDefinition \/ LoadFails \/ EnsureNode \/ EnsureFails \/ CheckCancel
           \/ PassOver \/ SkipNode \/ QueueNode \/ RefuseNode \/ EndPass
           \/ ReadUnfinished \/ ReadFinished \/ ReadCancelFlag \/ RecordVerdict
           \/ SchedulerError \/ AbortError \/ UNCHANGED vars
           \/ \E r \in Runs, n \in Nodes :
                \/ WorkerStart(r, n) \/ WorkerFinish(r, n) \/ AgentLost(r, n)
                \/ TaskLost(r, n) \/ RemoteOverwrite(r, n)
  <2>1. UNCHANGED <<jobStatus, cancelPending>>
    BY <1>1 DEF IdleTick, LoadDefinition, LoadFails, EnsureNode, EnsureFails, CheckCancel, PassOver,
              SkipNode, QueueNode, RefuseNode, EndPass, ReadUnfinished, ReadFinished, ReadCancelFlag,
              RecordVerdict, SchedulerError, AbortError, vars, tables, others, WorkerStart, WorkerFinish,
              AgentLost, TaskLost, RemoteOverwrite
  <2>2. pc' \in {"load", "ensure"} => pc \in {"load", "ensure"} /\ cur' = cur
    BY <1>1 DEF IdleTick, LoadDefinition, LoadFails, EnsureNode, EnsureFails, CheckCancel, PassOver,
              SkipNode, QueueNode, RefuseNode, EndPass, ReadUnfinished, ReadFinished, ReadCancelFlag,
              RecordVerdict, SchedulerError, AbortError, vars, memory, Locals, WorkerStart, WorkerFinish,
              AgentLost, TaskLost, RemoteOverwrite
  <2> QED BY <2>1, <2>2, SameQueue
<1>2. CASE Crash
  BY <1>2, SameQueue DEF Crash, tables, Locals
<1>3. CASE PickRun
  <2>1. PICK r \in Queued : (\A q \in Queued : r <= q) /\ Locals("load", r)
    BY <1>3 DEF PickRun
  <2>2. UNCHANGED <<jobStatus, cancelPending>> /\ cur' = r /\ r \in Runs
    BY <1>3, <2>1 DEF PickRun, tables, others, Locals, Queued
  <2>3. \A q \in 1..(r-1) : jobStatus[q] # "queued"
    BY <2>1, <2>2, <1>n DEF Queued, Runs
  <2> QED BY <2>2, <2>3 DEF QueueOrder
<1>4. CASE StartJob
  <2>1. CASE jobStatus[cur] = "queued"
    BY <1>4, <1>n, <2>1, RunMoved, StatusFacts DEF StartJob, SetJob, others
  <2>2. CASE jobStatus[cur] # "queued"
    BY <1>4, <1>n, <2>2, SameQueue DEF StartJob, others
  <2> QED BY <2>1, <2>2
<1>5. CASE FinalizeRun \/ AbortRun
  <2>1. PICK s \in JobTerminal : SetJob(cur, s)
    BY <1>5, VerdictType DEF FinalizeRun, AbortRun, JobTerminal
  <2>2. cancelPending' = cancelPending /\ pc' \notin {"load", "ensure"} /\ pc # "idle"
    BY <1>5 DEF FinalizeRun, AbortRun, others, Locals
  <2>3. s \in JobStatuses \ {"created", "queued"}
    BY DEF JobTerminal, JobStatuses
  <2> QED BY <1>n, <2>1, <2>2, <2>3, RunMoved
<1>6. ASSUME NEW r \in Runs, CreateRun(r) PROVE QueueOrder'
  <2>1. /\ jobStatus[r] = NoRow /\ (\A q \in 1..(r-1) : jobStatus[q] # NoRow)
        /\ jobStatus'[r] = "queued" /\ (\A q \in Runs : q # r => jobStatus'[q] = jobStatus[q])
        /\ UNCHANGED <<pc, cur, cancelPending>>
    BY <1>6, <1>n, SetJobFacts, StatusFacts DEF CreateRun, memory, others
  <2>2. pc \in {"load", "ensure"} => r \notin 1..(cur-1)
    BY <2>1, <1>n DEF QueueOrder
  <2> QED BY <2>1, <2>2, <1>n DEF QueueOrder, NoRow
<1>7. ASSUME NEW r \in Runs, CancelRead(r) PROVE QueueOrder'
  BY <1>7, SameQueue DEF CancelRead, tables, memory, NoRow
<1>8. ASSUME NEW r \in Runs, CancelCommit(r) PROVE QueueOrder'
  <2>1. jobStatus[r] # NoRow
    BY <1>8 DEF CancelCommit, QueueOrder
  <2>2. "cancel_requested" \in JobStatuses \ {"created", "queued"}
    BY DEF JobStatuses
  <2> QED BY <1>8, <1>n, <2>1, <2>2, RunMoved DEF CancelCommit, memory
<1> QED BY ONLY [Next]_vars, <1>1, <1>2, <1>3, <1>4, <1>5, <1>6, <1>7, <1>8 DEF Next, Scheduler

-----------------------------------------------------------------------------
(* While nothing fails, only the run of the scheduler is at work. *)

LEMMA AtWork ==
  ASSUME IInv, FaultFree, faults = 0, NEW r \in Runs, NEW n \in Nodes,
         nodeStatus[r][n] \in {"queued", "running"}
  PROVE  r = cur /\ InLoop /\ results[n] = Unknown
<1>1. ~AtRest(r)
  BY StatusFacts DEF AtRest, Unplanned, Settled
<1>2. r = cur /\ pc # "record"
  BY <1>1 DEF FaultFree
<1>3. pc \notin {"load", "abort"}
  BY <1>2 DEF FaultFree, Unplanned, NoRow
<1>4. pc # "ensure"
  BY <1>2 DEF IInv, Unstarted, NoRow
<1>5. pc # "idle"
  BY <1>2, CurFacts DEF IInv, CurrentRun
<1>p. pc \in Steps /\ results \in [Nodes -> NodeTerminal \cup {Unknown}]
  BY DEF IInv, TypeOK
<1>6. InLoop
  BY <1>p, <1>2, <1>3, <1>4, <1>5 DEF Steps, InLoop
<1>7. results[n] = Unknown
  BY <1>p, <1>2, <1>6, StatusFacts DEF FaultFree
<1> QED BY <1>2, <1>6, <1>7

(* A run that has its verdict is at rest. *)
LEMMA EndedAtRest ==
  ASSUME IInv, FaultFree, faults = 0, NEW r \in Runs, jobStatus[r] \in JobTerminal
  PROVE  AtRest(r) /\ (r # cur \/ pc = "record")
<1>1. jobStatus[r] \notin {"queued", "running", "cancel_requested"}
  BY StatusFacts
<1>p. pc \in Steps /\ (pc = "idle" => cur # r)
  BY CurFacts DEF IInv, TypeOK, CurrentRun
<1>2. r # cur \/ pc = "record"
  BY <1>p, <1>1 DEF FaultFree, Steps, InLoop
<1> QED BY <1>2 DEF FaultFree

(* One row of the run in the loop changes. *)
LEMMA RowChanges ==
  ASSUME IInv, FaultFree, VerdictAgrees, faults = 0, InLoop, InLoop',
         NEW n \in Nodes, NEW s \in NodeStatuses, SetNode(cur, n, s), results[n] = Unknown,
         UNCHANGED <<jobStatus, cur, canceling, faults>>,
         \A m \in Nodes \ {n} : results'[m] = results[m], results'[n] \in {Unknown, s}
  PROVE  FaultFree' /\ VerdictAgrees'
<1>1. cur \in Runs /\ nodeStatus \in [Runs -> [Nodes -> NodeStatuses \cup {NoRow}]]
  BY CurFacts DEF IInv, TypeOK, InLoop
<1>2. /\ nodeStatus'[cur][n] = s
      /\ \A r \in Runs, m \in Nodes : r # cur \/ m # n => nodeStatus'[r][m] = nodeStatus[r][m]
  BY <1>1, SetNodeFacts
<1>3. pc' \notin {"record", "load", "ensure", "abort"} /\ pc # "record"
  BY DEF InLoop
<1>4. \A r \in Runs : r # cur => AtRest(r) /\ AtRest(r)'
  BY <1>2 DEF FaultFree, AtRest, Unplanned, Settled
<1>5. \A m \in Nodes : results'[m] # Unknown => nodeStatus'[cur][m] = results'[m]
  BY <1>1, <1>2 DEF FaultFree
<1>6. Ended("canceled") => Ended("canceled")'
  BY DEF Ended, Unknown
<1>7. jobStatus[cur] \in {"running", "cancel_requested"}
      /\ (canceling => jobStatus[cur] = "cancel_requested" \/ Ended("canceled"))
  BY DEF FaultFree
<1>8. FaultFree'
  BY <1>3, <1>4, <1>5, <1>6, <1>7 DEF FaultFree
<1>9. VerdictAgrees'
  <2> SUFFICES ASSUME NEW r \in Runs
               PROVE  LET Some(t) == \E m \in Nodes : nodeStatus'[r][m] = t IN
                      /\ jobStatus'[r] = "timed_out" => Some("timed_out")
                      /\ jobStatus'[r] = "failed" =>
                           \/ ~Some("timed_out") /\ Some("failed")
                           \/ \A m \in Nodes : nodeStatus'[r][m] = NoRow
                      /\ jobStatus'[r] = "canceled" => ~Some("timed_out") /\ ~Some("failed")
    BY DEF VerdictAgrees
  <2>1. CASE r = cur
    BY <2>1, <1>7
  <2>2. CASE r # cur
    <3>1. jobStatus'[r] = jobStatus[r] /\ \A m \in Nodes : nodeStatus'[r][m] = nodeStatus[r][m]
      BY <1>2, <2>2
    <3> QED BY <3>1 DEF VerdictAgrees
  <2> QED BY <2>1, <2>2
<1> QED BY <1>8, <1>9

LEMMA WorkerQuiet ==
  ASSUME IInv, FaultFree, VerdictAgrees, faults = 0, NEW r \in Runs, NEW n \in Nodes,
         WorkerStart(r, n) \/ WorkerFinish(r, n) \/ AgentLost(r, n)
  PROVE  FaultFree' /\ VerdictAgrees'
<1>1. nodeStatus[r][n] \in {"queued", "running"}
  BY DEF WorkerStart, WorkerFinish, AgentLost, IInv, WorkersAgree
<1>2. r = cur /\ InLoop /\ results[n] = Unknown
  BY <1>1, AtWork
<1>3. UNCHANGED <<jobStatus, memory, faults>>
  BY DEF WorkerStart, WorkerFinish, AgentLost
<1>4. UNCHANGED <<pc, cur, results, canceling>>
  BY <1>3 DEF memory
<1>5. InLoop'
  BY <1>2, <1>4 DEF InLoop
<1>6. \E s \in NodeStatuses : SetNode(r, n, s)
  BY StatusFacts DEF WorkerStart, WorkerFinish, AgentLost, Outcomes
<1> QED BY <1>2, <1>3, <1>4, <1>5, <1>6, RowChanges

LEMMA PassQuiet ==
  ASSUME IInv, FaultFree, VerdictAgrees, faults = 0, SkipNode \/ QueueNode \/ RefuseNode
  PROVE  FaultFree' /\ VerdictAgrees'
<1>1. InLoop /\ InLoop' /\ idx \in Nodes /\ cur \in Runs /\ results[idx] = Unknown
      /\ nodeStatus[cur][idx] = "pending"
  BY CurFacts DEF SkipNode, QueueNode, RefuseNode, AtNode, InLoop, IInv, TypeOK, Known, Ready, MemoryAgrees
<1>2. UNCHANGED <<jobStatus, cur, canceling, faults>>
  BY DEF SkipNode, QueueNode, RefuseNode, others
<1>3. \E s \in NodeStatuses :
        /\ SetNode(cur, idx, s) /\ results'[idx] \in {Unknown, s}
        /\ \A m \in Nodes \ {idx} : results'[m] = results[m]
  BY <1>1, StatusFacts DEF SkipNode, QueueNode, RefuseNode, IInv, TypeOK
<1> QED BY <1>1, <1>2, <1>3, RowChanges

(* A step of the scheduler in the loop that writes no row. *)
LEMMA LoopQuiet ==
  ASSUME IInv, FaultFree, VerdictAgrees, faults = 0,
         \/ CheckCancel \/ PassOver \/ EndPass
         \/ ReadUnfinished \/ ReadFinished \/ ReadCancelFlag
  PROVE  FaultFree' /\ VerdictAgrees'
<1>1. /\ InLoop /\ InLoop' /\ pc # "record" /\ pc' \notin {"record", "load", "ensure", "abort"}
      /\ UNCHANGED <<jobStatus, nodeStatus, faults, cur>>
  BY DEF CheckCancel, PassOver, EndPass, ReadUnfinished, ReadFinished, ReadCancelFlag,
         InLoop, AtNode, tables, others
<1>2. \A m \in Nodes : results'[m] # Unknown => nodeStatus[cur][m] = results'[m]
  <2>1. CASE ReadFinished
    BY <1>1, <2>1 DEF ReadFinished, FaultFree, IInv, TypeOK
  <2>2. CASE ~ReadFinished
    <3>1. results' = results
      BY <2>2 DEF CheckCancel, PassOver, EndPass, ReadUnfinished, ReadCancelFlag
    <3> QED BY <1>1, <3>1 DEF FaultFree
  <2> QED BY <2>1, <2>2
<1>3. canceling' => jobStatus[cur] = "cancel_requested" \/ Ended("canceled")'
  <2>1. CASE ReadFinished
    <3>1. PICK n \in runningNodes \ scanned :
            /\ nodeStatus[cur][n] \in NodeReported
            /\ results' = [results EXCEPT ![n] = nodeStatus[cur][n]]
            /\ canceling' = (canceling \/ nodeStatus[cur][n] = "canceled")
      BY <2>1 DEF ReadFinished
    <3>2. n \in Nodes /\ results[n] = Unknown /\ results \in [Nodes -> NodeTerminal \cup {Unknown}]
      BY <1>1, <3>1 DEF IInv, TypeOK, Apart
    <3>3. Ended("canceled") => Ended("canceled")'
      BY <3>1, <3>2 DEF Ended, Unknown
    <3>4. nodeStatus[cur][n] = "canceled" => Ended("canceled")'
      BY <3>1, <3>2 DEF Ended
    <3> QED BY <1>1, <3>1, <3>3, <3>4 DEF FaultFree
  <2>2. CASE ~ReadFinished
    <3>1. results' = results
      BY <2>2 DEF CheckCancel, PassOver, EndPass, ReadUnfinished, ReadCancelFlag
    <3>2. CASE PassOver \/ EndPass \/ ReadUnfinished
      <4>1. canceling' = canceling
        BY <3>2 DEF PassOver, EndPass, ReadUnfinished
      <4> QED BY <1>1, <3>1, <4>1 DEF FaultFree, Ended
    <3>3. CASE CheckCancel \/ ReadCancelFlag
      <4>1. canceling' => canceling \/ jobStatus[cur] = "cancel_requested"
        BY <3>3 DEF CheckCancel, ReadCancelFlag
      <4> QED BY <1>1, <3>1, <4>1 DEF FaultFree, Ended
    <3> QED BY <2>2, <3>2, <3>3
  <2> QED BY <2>1, <2>2
<1>4. \A r \in Runs : AtRest(r) => AtRest(r)'
  BY <1>1 DEF AtRest, Unplanned, Settled
<1>5. FaultFree'
  BY <1>1, <1>2, <1>3, <1>4 DEF FaultFree
<1>6. VerdictAgrees'
  BY <1>1 DEF VerdictAgrees
<1> QED BY <1>5, <1>6

(* Picking a run, loading its definition and telling its end. *)
LEMMA TurnQuiet ==
  ASSUME IInv, QueueOrder, FaultFree, VerdictAgrees, faults = 0,
         \/ IdleTick \/ UNCHANGED vars \/ PickRun \/ LoadDefinition \/ LoadFails \/ EnsureFails
         \/ RecordVerdict
  PROVE  FaultFree' /\ VerdictAgrees'
<1>n. /\ 0 \notin Runs /\ pc \in Steps /\ idx \in 1..(NumNodes + 1)
      /\ (pc = "idle" <=> cur = 0) /\ (cur # 0 => cur \in Runs)
  BY CurFacts DEF IInv, TypeOK, CurrentRun
<1>1. UNCHANGED <<jobStatus, nodeStatus, faults>>
  BY DEF IdleTick, vars, PickRun, LoadDefinition, LoadFails, EnsureFails, RecordVerdict, tables, others
<1>2. \A r \in Runs : AtRest(r) => AtRest(r)'
  BY <1>1 DEF AtRest, Unplanned, Settled
<1>3. VerdictAgrees'
  BY <1>1 DEF VerdictAgrees
<1>4. CASE IdleTick \/ UNCHANGED vars
  <2>1. UNCHANGED <<jobStatus, nodeStatus, faults, pc, cur, idx, results, canceling>>
    BY <1>4 DEF IdleTick, vars, tables, memory, others
  <2> QED BY <2>1, <1>2, <1>3 DEF FaultFree, InLoop, Ended, Unplanned
<1>5. CASE PickRun
  <2>1. PICK r \in Runs : /\ jobStatus[r] = "queued" /\ cur' = r /\ pc' = "load" /\ pc = "idle"
                          /\ canceling' = FALSE
    BY <1>5 DEF PickRun, Queued, Locals
  <2>2. AtRest(r)
    BY <2>1, <1>n DEF FaultFree
  <2>3. Unplanned(r)
    BY <2>1, <2>2, StatusFacts DEF AtRest
  <2>4. \A q \in Runs : AtRest(q)
    BY <2>1, <1>n DEF FaultFree
  <2> QED BY <1>1, <1>2, <1>3, <2>1, <2>3, <2>4 DEF FaultFree, InLoop, Unplanned
<1>6. CASE LoadDefinition \/ LoadFails
  <2>1. /\ pc = "load" /\ pc' \in {"ensure", "abort"} /\ UNCHANGED <<cur, idx, canceling>>
    BY <1>6 DEF LoadDefinition, LoadFails
  <2>2. Unplanned(cur) /\ cur \in Runs /\ jobStatus[cur] \in {"queued", "cancel_requested"}
        /\ \A r \in Runs : r # cur => AtRest(r)
    BY <2>1, <1>n DEF FaultFree
  <2>3. pc' \notin {"record", "load"} /\ ~InLoop'
    BY <2>1 DEF InLoop
  <2> QED BY <1>1, <1>2, <1>3, <2>1, <2>2, <2>3 DEF FaultFree, Unplanned
<1>7. CASE EnsureFails
  <2>1. pc = "ensure" /\ idx \in Nodes /\ nodeStatus[cur][idx] # NoRow
    BY <1>7, <1>n, CurFacts DEF EnsureFails
  <2> QED BY <2>1, CurFacts DEF FaultFree
<1>8. CASE RecordVerdict
  <2>1. pc = "record" /\ pc' = "idle" /\ cur' = 0
    BY <1>8 DEF RecordVerdict, Locals
  <2>2. \A r \in Runs : AtRest(r)
    BY <2>1 DEF FaultFree
  <2> QED BY <1>1, <1>2, <1>3, <2>1, <2>2 DEF FaultFree, InLoop
<1> QED BY <1>4, <1>5, <1>6, <1>7, <1>8

(* Preparing the rows of a run, starting it, and giving up on it. *)
LEMMA PrepareQuiet ==
  ASSUME IInv, FaultFree, VerdictAgrees, faults = 0, EnsureNode \/ StartJob \/ AbortRun
  PROVE  FaultFree' /\ VerdictAgrees'
<1>n. /\ 0 \notin Runs /\ pc \in Steps /\ idx \in 1..(NumNodes + 1) /\ cur \in Runs /\ pc # "idle"
      /\ pc # "record" /\ ~InLoop
      /\ jobStatus \in [Runs -> JobStatuses \cup {NoRow}]
      /\ nodeStatus \in [Runs -> [Nodes -> NodeStatuses \cup {NoRow}]]
  BY CurFacts DEF IInv, TypeOK, CurrentRun, EnsureNode, StartJob, AbortRun, InLoop
<1>1. /\ \A r \in Runs : r # cur => AtRest(r)
      /\ jobStatus[cur] \in {"queued", "cancel_requested"}
      /\ faults' = faults
  BY <1>n DEF EnsureNode, StartJob, AbortRun, FaultFree, others
<1>2. CASE EnsureNode
  <2>1. /\ idx \in Nodes /\ "pending" \in NodeStatuses /\ pc = "ensure" /\ pc' = "ensure"
        /\ UNCHANGED <<cur, jobStatus, canceling>> /\ idx' = idx + 1
        /\ SetNode(cur, idx, "pending") /\ nodeStatus[cur][idx] = NoRow
    BY <1>2, <1>n, CurFacts DEF EnsureNode, NodeStatuses, others
  <2>2. /\ nodeStatus'[cur][idx] = "pending"
        /\ \A r \in Runs, m \in Nodes : r # cur \/ m # idx => nodeStatus'[r][m] = nodeStatus[r][m]
    BY <1>n, <2>1, SetNodeFacts
  <2>3. \A r \in Runs : r # cur => AtRest(r)'
    BY <1>1, <2>1, <2>2 DEF AtRest, Unplanned, Settled
  <2>4. \A n \in Nodes : n >= idx' => nodeStatus'[cur][n] = NoRow
    BY <1>n, <2>1, <2>2, CurFacts DEF FaultFree
  <2>5. FaultFree'
    BY <1>1, <2>1, <2>3, <2>4 DEF FaultFree, InLoop
  <2>6. VerdictAgrees'
    <3> SUFFICES ASSUME NEW r \in Runs
                 PROVE  LET Some(t) == \E m \in Nodes : nodeStatus'[r][m] = t IN
                        /\ jobStatus'[r] = "timed_out" => Some("timed_out")
                        /\ jobStatus'[r] = "failed" =>
                             \/ ~Some("timed_out") /\ Some("failed")
                             \/ \A m \in Nodes : nodeStatus'[r][m] = NoRow
                        /\ jobStatus'[r] = "canceled" => ~Some("timed_out") /\ ~Some("failed")
      BY DEF VerdictAgrees
    <3>1. CASE r = cur
      BY <3>1, <1>1, <2>1
    <3>2. CASE r # cur
      <4>1. jobStatus'[r] = jobStatus[r] /\ \A m \in Nodes : nodeStatus'[r][m] = nodeStatus[r][m]
        BY <2>1, <2>2, <3>2
      <4> QED BY <4>1 DEF VerdictAgrees
    <3> QED BY <3>1, <3>2
  <2> QED BY <2>5, <2>6
<1>3. CASE StartJob
  <2>1. /\ pc' = "check" /\ cur' = cur /\ nodeStatus' = nodeStatus /\ results' = results
        /\ jobStatus'[cur] \in {"running", "cancel_requested"} /\ canceling' = canceling
        /\ \A r \in Runs : r # cur => jobStatus'[r] = jobStatus[r]
        /\ pc = "ensure"
    BY <1>3, <1>n, <1>1 DEF StartJob
  <2>2. \A r \in Runs : r # cur => AtRest(r)'
    BY <1>1, <2>1 DEF AtRest, Unplanned, Settled
  <2>3. \A n \in Nodes : results[n] = Unknown
    BY <2>1 DEF IInv, Prepared, NothingKnown
  <2>4. ~canceling'
    BY <2>1 DEF FaultFree
  <2>5. FaultFree'
    BY <1>1, <2>1, <2>2, <2>3, <2>4 DEF FaultFree
  <2>6. VerdictAgrees'
    BY <1>1, <2>1 DEF VerdictAgrees
  <2> QED BY <2>5, <2>6
<1>4. CASE AbortRun
  <2>1. /\ pc = "abort" /\ pc' = "idle" /\ cur' = 0 /\ nodeStatus' = nodeStatus
        /\ SetJob(cur, "failed") /\ "failed" \in JobStatuses
    BY <1>4 DEF AbortRun, Locals, JobStatuses, JobTerminal
  <2>2. jobStatus'[cur] = "failed" /\ \A r \in Runs : r # cur => jobStatus'[r] = jobStatus[r]
    BY <1>n, <2>1, SetJobFacts
  <2>3. Unplanned(cur)
    BY <2>1 DEF FaultFree
  <2>4. \A r \in Runs : AtRest(r)'
    BY <1>1, <2>1, <2>2, <2>3 DEF AtRest, Unplanned, Settled
  <2>5. FaultFree'
    BY <1>1, <2>1, <2>4 DEF FaultFree, InLoop
  <2>6. VerdictAgrees'
    <3> SUFFICES ASSUME NEW r \in Runs
                 PROVE  LET Some(t) == \E m \in Nodes : nodeStatus[r][m] = t IN
                        /\ jobStatus'[r] = "timed_out" => Some("timed_out")
                        /\ jobStatus'[r] = "failed" =>
                             \/ ~Some("timed_out") /\ Some("failed")
                             \/ \A m \in Nodes : nodeStatus[r][m] = NoRow
                        /\ jobStatus'[r] = "canceled" => ~Some("timed_out") /\ ~Some("failed")
      BY <2>1 DEF VerdictAgrees
    <3> QED BY <2>2, <2>3, <1>1 DEF VerdictAgrees, Unplanned
  <2> QED BY <2>5, <2>6
<1> QED BY <1>2, <1>3, <1>4

(* The verdict on what the scheduler remembers is the verdict on the rows. *)
LEMMA VerdictOfRows ==
  ASSUME IInv, FaultFree, faults = 0, pc = "final"
  PROVE  LET Some(s) == \E n \in Nodes : nodeStatus[cur][n] = s IN
         /\ Settled(cur)
         /\ \A s \in NodeTerminal : Ended(s) <=> Some(s)
         /\ Verdict = "timed_out" => Some("timed_out")
         /\ Verdict = "failed" => ~Some("timed_out") /\ Some("failed")
         /\ Verdict = "canceled" =>
              /\ ~Some("timed_out") /\ ~Some("failed")
              /\ jobStatus[cur] = "cancel_requested" \/ Some("canceled")
         /\ Verdict = "success" => \A n \in Nodes : nodeStatus[cur][n] = "success"
<1>1. InLoop /\ results \in [Nodes -> NodeTerminal \cup {Unknown}]
      /\ \A n \in Nodes : results[n] # Unknown
  BY DEF InLoop, IInv, TypeOK, PassProgress
<1>2. \A n \in Nodes : nodeStatus[cur][n] = results[n] /\ results[n] \in NodeTerminal
  BY <1>1 DEF FaultFree
<1>3. {"timed_out", "failed", "canceled", "success", "skipped"} = NodeTerminal
  BY DEF NodeTerminal, NodeReported
<1>4. Verdict = "canceled" => canceling \/ Ended("canceled")
  BY DEF Verdict
<1>5. canceling => jobStatus[cur] = "cancel_requested" \/ Ended("canceled")
  BY <1>1 DEF FaultFree
<1>6. Verdict = "success" => \A n \in Nodes : results[n] = "success"
  <2> SUFFICES ASSUME Verdict = "success", NEW n \in Nodes PROVE results[n] = "success"
    OBVIOUS
  <2>1. ~Ended("timed_out") /\ ~Ended("failed") /\ ~canceling /\ ~Ended("canceled")
    BY DEF Verdict
  <2>2. ~Spoiled
    BY <2>1 DEF Spoiled, Ended, NodeUnsuccessful, NodeReported
  <2>3. results[n] # "skipped"
    BY <1>1, <2>2 DEF IInv, StopIsRecorded
  <2> QED BY <2>1, <2>3, <1>2, <1>3 DEF Ended
<1>7. \A s \in NodeTerminal : Ended(s) <=> \E n \in Nodes : nodeStatus[cur][n] = s
  BY <1>2 DEF Ended
<1>8. /\ Verdict = "timed_out" => Ended("timed_out")
      /\ Verdict = "failed" => ~Ended("timed_out") /\ Ended("failed")
      /\ Verdict = "canceled" => ~Ended("timed_out") /\ ~Ended("failed")
  BY DEF Verdict
<1>9. Settled(cur)
  BY <1>2 DEF Settled
<1> QED BY <1>2, <1>3, <1>4, <1>5, <1>6, <1>7, <1>8, <1>9

LEMMA FinalizeQuiet ==
  ASSUME IInv, FaultFree, VerdictAgrees, faults = 0, FinalizeRun
  PROVE  FaultFree' /\ VerdictAgrees'
<1>n. /\ pc = "final" /\ pc' = "record" /\ cur \in Runs /\ cur' = cur /\ InLoop
      /\ UNCHANGED <<nodeStatus, faults>>
      /\ Verdict \in JobTerminal /\ SetJob(cur, Verdict)
      /\ jobStatus \in [Runs -> JobStatuses \cup {NoRow}]
  BY CurFacts, VerdictType DEF FinalizeRun, others, InLoop, IInv, TypeOK
<1>1. jobStatus'[cur] = Verdict /\ \A r \in Runs : r # cur => jobStatus'[r] = jobStatus[r]
  BY <1>n, SetJobFacts, StatusFacts
<1>2. Settled(cur)
  BY <1>n, VerdictOfRows
<1>3. \A r \in Runs : r # cur => AtRest(r)
  BY <1>n DEF FaultFree
<1>4. \A r \in Runs : AtRest(r)'
  BY <1>n, <1>1, <1>2, <1>3 DEF AtRest, Unplanned, Settled
<1>5. FaultFree'
  BY <1>n, <1>4 DEF FaultFree, InLoop
<1>6. VerdictAgrees'
  BY <1>n, <1>1, VerdictOfRows DEF VerdictAgrees
<1> QED BY <1>5, <1>6

(* The handlers change the status of a run at rest, or of the current one. *)
LEMMA HandlerQuiet ==
  ASSUME IInv, QueueOrder, FaultFree, VerdictAgrees, faults = 0, NEW r \in Runs,
         CreateRun(r) \/ CancelRead(r) \/ CancelCommit(r)
  PROVE  FaultFree' /\ VerdictAgrees'
<1>n. UNCHANGED <<pc, cur, idx, results, canceling, nodeStatus, faults>>
  BY DEF CreateRun, CancelRead, CancelCommit, tables, memory, others
<1>1. CASE CancelRead(r)
  <2>1. jobStatus' = jobStatus
    BY <1>1 DEF CancelRead, tables
  <2> QED BY <1>n, <2>1 DEF FaultFree, VerdictAgrees, AtRest, Unplanned, Settled, InLoop, Ended
<1>2. CASE CreateRun(r) \/ CancelCommit(r)
  <2>1. PICK s \in {"queued", "cancel_requested"} :
          /\ SetJob(r, s)
          /\ s = "queued" => jobStatus[r] = NoRow
          /\ s = "cancel_requested" => jobStatus[r] # NoRow
    BY <1>2 DEF CreateRun, CancelCommit, QueueOrder
  <2>2. jobStatus'[r] = s /\ \A q \in Runs : q # r => jobStatus'[q] = jobStatus[q]
    BY <2>1, SetJobFacts, StatusFacts DEF IInv, TypeOK
  <2>3. s = "queued" => r # cur \/ pc = "idle"
    BY <2>1, CurFacts
  <2>4. AtRest(r) => AtRest(r)'
    BY <1>n, <2>1, <2>2 DEF AtRest, Unplanned, Settled, NoRow, JobTerminal
  <2>5. \A q \in Runs : AtRest(q) => AtRest(q)'
    BY <1>n, <2>2, <2>4 DEF AtRest, Unplanned, Settled
  <2>6. pc = "idle" => cur \notin Runs
    BY CurFacts DEF IInv, CurrentRun
  <2>7. pc \in {"load", "ensure", "abort"} => jobStatus'[cur] \in {"queued", "cancel_requested"}
    BY <2>1, <2>2, CurFacts DEF FaultFree
  <2>8. InLoop => /\ jobStatus'[cur] \in {"running", "cancel_requested"}
                  /\ canceling => jobStatus'[cur] = "cancel_requested" \/ Ended("canceled")
    BY <2>1, <2>2, <2>3, CurFacts DEF FaultFree, InLoop
  <2>9. FaultFree'
    BY <1>n, <2>5, <2>7, <2>8 DEF FaultFree, InLoop, Unplanned, Ended
  <2>10. VerdictAgrees'
    BY <1>n, <2>2 DEF VerdictAgrees
  <2> QED BY <2>9, <2>10
<1> QED BY <1>1, <1>2

LEMMA FaultFreeStep ==
  ASSUME IInv, QuietInv, [Next]_vars
  PROVE  FaultFree' /\ VerdictAgrees'
<1>1. CASE \/ SchedulerError \/ AbortError \/ Crash
           \/ \E r \in Runs, n \in Nodes : TaskLost(r, n) \/ RemoteOverwrite(r, n)
  <2>1. faults' = faults + 1
    BY <1>1 DEF SchedulerError, AbortError, Crash, TaskLost, RemoteOverwrite, Fault
  <2>2. faults' # 0
    BY <2>1, CurFacts
  <2> QED BY <2>2 DEF FaultFree, VerdictAgrees
<1>2. CASE ~(\/ SchedulerError \/ AbortError \/ Crash
             \/ \E r \in Runs, n \in Nodes : TaskLost(r, n) \/ RemoteOverwrite(r, n))
  <2>1. faults' = faults
    BY ONLY <1>2, [Next]_vars
       DEF Next, Scheduler, IdleTick, PickRun, LoadDefinition, LoadFails, EnsureNode, EnsureFails,
           StartJob, CheckCancel, PassOver, SkipNode, QueueNode, RefuseNode, EndPass,
           ReadUnfinished, ReadFinished, ReadCancelFlag, FinalizeRun, RecordVerdict, AbortRun,
           CreateRun, CancelRead, CancelCommit, WorkerStart, WorkerFinish, AgentLost, vars, others
  <2>2. CASE faults # 0
    BY <2>1, <2>2 DEF FaultFree, VerdictAgrees
  <2>3. CASE faults = 0
    <3>q. QueueOrder /\ FaultFree /\ VerdictAgrees
      BY DEF QuietInv
    <3>1. CASE \/ SkipNode \/ QueueNode \/ RefuseNode
      BY <2>3, <3>q, <3>1, PassQuiet
    <3>2. CASE CheckCancel \/ PassOver \/ EndPass \/ ReadUnfinished \/ ReadFinished \/ ReadCancelFlag
      BY <2>3, <3>q, <3>2, LoopQuiet
    <3>3. CASE \/ IdleTick \/ UNCHANGED vars \/ PickRun \/ LoadDefinition \/ LoadFails
               \/ EnsureFails \/ RecordVerdict
      BY <2>3, <3>q, <3>3, TurnQuiet
    <3>4. CASE EnsureNode \/ StartJob \/ AbortRun
      BY <2>3, <3>q, <3>4, PrepareQuiet
    <3>5. CASE FinalizeRun
      BY <2>3, <3>q, <3>5, FinalizeQuiet
    <3>6. ASSUME NEW r \in Runs, CreateRun(r) \/ CancelRead(r) \/ CancelCommit(r)
          PROVE  FaultFree' /\ VerdictAgrees'
      BY <2>3, <3>q, <3>6, HandlerQuiet
    <3>7. ASSUME NEW r \in Runs, NEW n \in Nodes,
                 WorkerStart(r, n) \/ WorkerFinish(r, n) \/ AgentLost(r, n)
          PROVE  FaultFree' /\ VerdictAgrees'
      BY <2>3, <3>q, <3>7, WorkerQuiet
    <3> QED
      BY ONLY [Next]_vars, <1>2, <3>1, <3>2, <3>3, <3>4, <3>5, <3>6, <3>7 DEF Next, Scheduler
  <2> QED BY <2>2, <2>3
<1> QED BY <1>1, <1>2

LEMMA InitQuiet == Init => QuietInv
<1> SUFFICES ASSUME Init PROVE QuietInv
  OBVIOUS
<1>1. QueueOrder
  BY DEF Init, QueueOrder, NoRow
<1>2. \A r \in Runs : AtRest(r)
  BY DEF Init, AtRest, Unplanned
<1>3. FaultFree
  BY <1>2, RunsAssumption DEF Init, FaultFree, InLoop
<1>4. VerdictAgrees
  BY DEF Init, VerdictAgrees, NoRow
<1> QED BY <1>1, <1>3, <1>4 DEF QuietInv

-----------------------------------------------------------------------------
(* The queue, the runs at rest and the verdicts, in every reachable state: *)
(* what the scheduler of runner.rs keeps true while nothing fails.         *)
THEOREM QuietInvariance == Spec => []QuietInv
<1>1. IInv /\ QuietInv /\ [Next]_vars => QuietInv'
  BY QueueOrderStep, FaultFreeStep DEF QuietInv
<1> QED BY <1>1, InitQuiet, Invariance, PTL DEF Spec

(* A run is given its final status when none of its nodes can change any   *)
(* more (finalize_job in runner.rs).                                       *)
THEOREM NothingLeftBehind == Spec => []SettledAtEnd
<1>1. IInv /\ QuietInv => SettledAtEnd
  <2> SUFFICES ASSUME IInv, QuietInv, faults = 0, NEW r \in Runs, jobStatus[r] \in JobTerminal,
                      NEW n \in Nodes
               PROVE  nodeStatus[r][n] \notin {"pending", "queued", "running"}
    BY DEF SettledAtEnd
  <2>1. AtRest(r)
    BY EndedAtRest DEF QuietInv
  <2> QED BY <2>1, StatusFacts DEF AtRest, Unplanned, Settled, NoRow
<1> QED BY <1>1, Invariance, QuietInvariance, PTL

(* The final status is the gravest of the rows' (determine_job_status).    *)
THEOREM VerdictsAreTrue == Spec => []VerdictAgrees
<1>1. QuietInv => VerdictAgrees
  BY DEF QuietInv
<1> QED BY <1>1, QuietInvariance, PTL

(* Only the nodes of the run the scheduler has are with workers.           *)
THEOREM OneAtATime == Spec => []OneRunAtATime
<1>1. IInv /\ QuietInv => OneRunAtATime
  BY AtWork DEF QuietInv, OneRunAtATime
<1> QED BY <1>1, Invariance, QuietInvariance, PTL

(* Runs start in the order of their creation (the ORDER BY of              *)
(* process_next_run), whatever fails.                                      *)
THEOREM StartsInOrder == Spec => NoOvertaking
<1>1. ASSUME IInv, QueueOrder, [Next]_vars, NEW r \in Runs, jobStatus[r] = "queued",
             jobStatus'[r] = "running"
      PROVE  \A q \in 1..(r-1) : jobStatus[q] # "queued"
  <2>1. CASE StartJob
    <3>1. r = cur /\ pc = "ensure"
      BY <2>1, <1>1, CurFacts DEF StartJob, IInv, TypeOK
    <3> QED BY <1>1, <3>1 DEF QueueOrder
  <2>2. CASE ~StartJob
    <3>1. \/ jobStatus' = jobStatus
          \/ \E q \in Runs, s \in JobStatuses \ {"running"} : SetJob(q, s)
      <4>1. CASE FinalizeRun \/ AbortRun
        <5>1. cur \in Runs /\ \E s \in JobTerminal : SetJob(cur, s)
          BY <1>1, <4>1, VerdictType, CurFacts DEF FinalizeRun, AbortRun, JobTerminal
        <5> QED BY <5>1, StatusFacts
      <4>2. CASE \E q \in Runs : CreateRun(q) \/ CancelCommit(q)
        BY <4>2, StatusFacts DEF CreateRun, CancelCommit
      <4>3. CASE ~(FinalizeRun \/ AbortRun \/ \E q \in Runs : CreateRun(q) \/ CancelCommit(q))
        BY ONLY <1>1, <2>2, <4>3
           DEF Next, Scheduler, IdleTick, PickRun, LoadDefinition, LoadFails, EnsureNode, EnsureFails,
               CheckCancel, PassOver, SkipNode, QueueNode, RefuseNode, EndPass, ReadUnfinished,
               ReadFinished, ReadCancelFlag, RecordVerdict, CancelRead, WorkerStart, WorkerFinish,
               AgentLost, SchedulerError, AbortError, Crash, TaskLost, RemoteOverwrite, vars, tables
      <4> QED BY <4>1, <4>2, <4>3
    <3>2. jobStatus'[r] \in {jobStatus[r]} \cup (JobStatuses \ {"running"})
      BY <1>1, <3>1, SetJobFacts DEF IInv, TypeOK
    <3> QED BY <1>1, <3>2
  <2> QED BY <2>1, <2>2
<1>2. IInv /\ QuietInv /\ [Next]_vars =>
        [\A r \in Runs : jobStatus[r] = "queued" /\ jobStatus'[r] = "running"
           => \A q \in 1..(r-1) : jobStatus[q] # "queued"]_vars
  BY <1>1 DEF QuietInv
<1> QED BY <1>2, Invariance, QuietInvariance, PTL DEF Spec, NoOvertaking

-----------------------------------------------------------------------------
(* While nothing fails, every step is one of DagExecution, or changes no   *)
(* table.                                                                  *)

LEMMA DagNames ==
  /\ Dag!Nodes = Nodes /\ Dag!Runs = Runs /\ Dag!Definitions = Definitions
  /\ Dag!NoRow = NoRow /\ Dag!JobTerminal = JobTerminal
  /\ Dag!NodeTerminal = NodeTerminal /\ Dag!NodeReported = NodeReported
  /\ Dag!NodeUnsuccessful = NodeUnsuccessful
BY DEF Dag!Nodes, Dag!Runs, Dag!Definitions, Dag!NoRow, Dag!JobTerminal, Dag!NodeTerminal,
       Dag!NodeReported, Dag!NodeUnsuccessful, Nodes, Runs, Definitions, NoRow, JobTerminal,
       NodeTerminal, NodeReported, NodeUnsuccessful

DagStep == [Dag!Next]_(Dag!vars)

(* The scheduler passes a node: the rows show why it is queued or skipped. *)
LEMMA PassRefines ==
  ASSUME IInv, FaultFree, faults = 0, SkipNode \/ QueueNode \/ RefuseNode
  PROVE  Dag!Next
<1>1. /\ InLoop /\ idx \in Nodes /\ cur \in Runs /\ nodeStatus[cur][idx] = "pending"
      /\ UNCHANGED <<jobStatus, deps>>
  BY CurFacts DEF SkipNode, QueueNode, RefuseNode, AtNode, InLoop, IInv, TypeOK, Known, Ready,
                  MemoryAgrees, others
<1>2. Dag!Active(cur) /\ \A n \in Nodes : results[n] # Unknown => nodeStatus[cur][n] = results[n]
  BY <1>1 DEF FaultFree, Dag!Active
<1>3. deps[cur][idx] \subseteq Nodes /\ results \in [Nodes -> NodeTerminal \cup {Unknown}]
  BY <1>1 DEF IInv, TypeOK, Definitions
<1>4. CASE QueueNode \/ RefuseNode
  <2>1. \A m \in deps[cur][idx] : nodeStatus[cur][m] = "success"
    <3>1. \A m \in deps[cur][idx] : results[m] = "success"
      BY <1>4 DEF QueueNode, RefuseNode, Ready, Blocked, Waiting
    <3> QED BY <1>2, <1>3, <3>1 DEF Unknown
  <2>2. Dag!Launch(cur, idx)
    BY <1>1, <1>2, <1>4, <2>1 DEF QueueNode, RefuseNode, SetNode, Dag!Launch, Dag!NodeStep
  <2> QED BY <1>1, <2>2, DagNames DEF Dag!Next
<1>5. CASE SkipNode
  <2>1. \/ \E m \in deps[cur][idx] : nodeStatus[cur][m] \in NodeTerminal \ {"success"}
        \/ \E m \in Nodes : nodeStatus[cur][m] \in NodeUnsuccessful
        \/ jobStatus[cur] = "cancel_requested"
    <3>1. CASE Blocked(idx)
      <4>1. PICK m \in deps[cur][idx] : results[m] \notin {Unknown, "success"}
        BY <3>1 DEF Blocked
      <4> QED BY <1>2, <1>3, <4>1
    <3>2. CASE ~Blocked(idx)
      <4>1. stopScheduling \/ canceling
        BY <1>5, <3>2 DEF SkipNode
      <4>2. canceling \/ \E m \in Nodes : results[m] \in NodeUnsuccessful
        BY <1>1, <4>1 DEF IInv, StopIsRecorded, Spoiled
      <4>3. CASE \E m \in Nodes : results[m] \in NodeUnsuccessful
        BY <1>2, <4>3, StatusFacts
      <4>4. CASE canceling
        <5>1. jobStatus[cur] = "cancel_requested" \/ Ended("canceled")
          BY <1>1, <4>4 DEF FaultFree
        <5>2. "canceled" \in NodeUnsuccessful /\ "canceled" # Unknown
          BY DEF NodeUnsuccessful, NodeReported, Unknown
        <5> QED BY <1>2, <5>1, <5>2 DEF Ended
      <4> QED BY <4>2, <4>3, <4>4
    <3> QED BY <3>1, <3>2
  <2>2. Dag!Skip(cur, idx)
    BY <1>1, <1>2, <1>5, <2>1, DagNames DEF SkipNode, SetNode, Dag!Skip, Dag!NodeStep
  <2> QED BY <1>1, <2>2, DagNames DEF Dag!Next
<1> QED BY <1>4, <1>5

(* Workers and the heartbeat monitor touch the run of the scheduler only. *)
LEMMA WorkerRefines ==
  ASSUME IInv, FaultFree, faults = 0, NEW r \in Runs, NEW n \in Nodes,
         WorkerStart(r, n) \/ WorkerFinish(r, n) \/ AgentLost(r, n)
  PROVE  Dag!Next
<1>1. nodeStatus[r][n] \in {"queued", "running"} /\ UNCHANGED <<jobStatus, deps>>
  BY DEF WorkerStart, WorkerFinish, AgentLost, IInv, WorkersAgree
<1>2. r = cur /\ InLoop
  BY <1>1, AtWork
<1>3. Dag!Active(r)
  BY <1>2 DEF FaultFree, Dag!Active
<1>4. CASE WorkerStart(r, n)
  <2>1. Dag!Start(r, n)
    BY <1>1, <1>3, <1>4 DEF WorkerStart, SetNode, Dag!Start, Dag!NodeStep
  <2> QED BY <2>1, DagNames DEF Dag!Next
<1>5. CASE WorkerFinish(r, n)
  <2>1. PICK s \in Outcomes(n) : SetNode(r, n, s)
    BY <1>5 DEF WorkerFinish
  <2>2. nodeStatus[r][n] = "running"
    BY <1>5 DEF WorkerFinish, IInv, WorkersAgree
  <2>3. s \in NodeReported /\ (s = "canceled" => n \in Targeted)
    BY <2>1 DEF Outcomes
  <2>4. Dag!Finish(r, n)
    BY <1>1, <1>3, <2>1, <2>2, <2>3, DagNames DEF SetNode, Dag!Finish, Dag!NodeStep
  <2> QED BY <2>4, DagNames DEF Dag!Next
<1>6. CASE AgentLost(r, n)
  <2>1. Dag!Lose(r, n)
    BY <1>1, <1>3, <1>6 DEF AgentLost, SetNode, Dag!Lose, Dag!NodeStep
  <2> QED BY <2>1, DagNames DEF Dag!Next
<1> QED BY <1>4, <1>5, <1>6

(* From the load of the definition to the first pass. *)
LEMMA PrepareRefines ==
  ASSUME IInv, FaultFree, faults = 0, LoadDefinition \/ EnsureNode \/ StartJob \/ AbortRun
  PROVE  DagStep
<1>1. /\ cur \in Runs /\ jobStatus[cur] \in {"queued", "cancel_requested"}
      /\ pc \in {"load", "abort"} => Unplanned(cur)
      /\ jobStatus \in [Runs -> JobStatuses \cup {NoRow}]
  BY CurFacts DEF LoadDefinition, EnsureNode, StartJob, AbortRun, FaultFree, IInv, TypeOK
<1>2. CASE LoadDefinition
  <2>1. Dag!Load(cur)
    BY <1>1, <1>2, DagNames DEF LoadDefinition, Dag!Load, Dag!Unplanned, Unplanned, NoRow
  <2> QED BY <1>1, <2>1, DagNames DEF Dag!Next, DagStep
<1>3. CASE EnsureNode
  <2>1. idx \in Nodes
    BY <1>3, CurFacts DEF EnsureNode, IInv, TypeOK
  <2>2. Dag!Plan(cur, idx)
    BY <1>1, <1>3, DagNames DEF EnsureNode, SetNode, Dag!Plan, Dag!NodeStep, JobTerminal
  <2> QED BY <1>1, <2>1, <2>2, DagNames DEF Dag!Next, DagStep
<1>4. CASE StartJob
  <2>1. CASE jobStatus[cur] = "queued"
    <3>0. pc = "ensure" /\ \A n \in Nodes : n < idx
      BY <1>4, CurFacts DEF StartJob
    <3>1. \A n \in Nodes : nodeStatus[cur][n] = "pending"
      BY <3>0 DEF IInv, Prepared
    <3>2. Dag!Begin(cur)
      BY <1>4, <2>1, <3>1, DagNames DEF StartJob, Dag!Begin, Dag!JobStep
    <3> QED BY <1>1, <3>2, DagNames DEF Dag!Next, DagStep
  <2>2. CASE jobStatus[cur] # "queued"
    <3>1. UNCHANGED <<jobStatus, nodeStatus, deps>>
      BY <1>1, <1>4, <2>2 DEF StartJob
    <3> QED BY <3>1 DEF DagStep, Dag!vars
  <2> QED BY <2>1, <2>2
<1>5. CASE AbortRun
  <2>1. Dag!Reject(cur)
    BY <1>1, <1>5, DagNames
       DEF AbortRun, SetJob, Dag!Reject, Dag!JobStep, Dag!Unplanned, Unplanned
  <2> QED BY <1>1, <2>1, DagNames DEF Dag!Next, DagStep
<1> QED BY <1>2, <1>3, <1>4, <1>5

(* The verdict is one the rows call for. *)
LEMMA FinalizeRefines ==
  ASSUME IInv, FaultFree, faults = 0, FinalizeRun
  PROVE  Dag!Next
<1>1. /\ cur \in Runs /\ pc = "final" /\ UNCHANGED <<nodeStatus, deps>>
      /\ jobStatus[cur] \in {"running", "cancel_requested"} /\ SetJob(cur, Verdict)
  BY CurFacts DEF FinalizeRun, FaultFree, InLoop
<1>2. Dag!Settled(cur) /\ Verdict \in JobTerminal
  BY <1>1, VerdictOfRows, VerdictType, DagNames DEF Settled, Dag!Settled
<1>3. CASE Verdict = "timed_out"
  <2>1. Dag!Some(cur, "timed_out")
    BY <1>1, <1>3, VerdictOfRows, DagNames DEF Dag!Some
  <2>2. Dag!Conclude(cur)
    BY <1>1, <1>2, <1>3, <2>1 DEF SetJob, Dag!Conclude, Dag!JobStep
  <2> QED BY <1>1, <2>2, DagNames DEF Dag!Next
<1>4. CASE Verdict = "failed"
  <2>1. Dag!Some(cur, "failed") /\ ~Dag!Some(cur, "timed_out")
    BY <1>1, <1>4, VerdictOfRows, DagNames DEF Dag!Some
  <2>2. Dag!Conclude(cur)
    BY <1>1, <1>2, <1>4, <2>1 DEF SetJob, Dag!Conclude, Dag!JobStep
  <2> QED BY <1>1, <2>2, DagNames DEF Dag!Next
<1>5. CASE Verdict = "canceled"
  <2>1. /\ ~Dag!Some(cur, "failed") /\ ~Dag!Some(cur, "timed_out")
        /\ jobStatus[cur] = "cancel_requested" \/ Dag!Some(cur, "canceled")
    BY <1>1, <1>5, VerdictOfRows, DagNames DEF Dag!Some
  <2>2. Dag!Conclude(cur)
    BY <1>1, <1>2, <1>5, <2>1 DEF SetJob, Dag!Conclude, Dag!JobStep
  <2> QED BY <1>1, <2>2, DagNames DEF Dag!Next
<1>6. CASE Verdict = "success"
  <2>1. \A n \in Nodes : nodeStatus[cur][n] = "success"
    BY <1>1, <1>6, VerdictOfRows
  <2>2. Dag!Conclude(cur)
    BY <1>1, <1>2, <1>6, <2>1, DagNames DEF SetJob, Dag!Conclude, Dag!JobStep
  <2> QED BY <1>1, <2>2, DagNames DEF Dag!Next
<1> QED BY <1>2, <1>3, <1>4, <1>5, <1>6 DEF JobTerminal

(* A cancellation counts, comes late, or repeats what was requested. *)
LEMMA HandlerRefines ==
  ASSUME IInv, QueueOrder, NEW r \in Runs, CreateRun(r) \/ CancelCommit(r)
  PROVE  DagStep
<1>1. UNCHANGED <<nodeStatus, deps>> /\ jobStatus \in [Runs -> JobStatuses \cup {NoRow}]
  BY DEF CreateRun, CancelCommit, IInv, TypeOK
<1>2. CASE CreateRun(r)
  <2>1. Dag!Submit(r)
    BY <1>1, <1>2, DagNames DEF CreateRun, SetJob, Dag!Submit, Dag!JobStep
  <2> QED BY <2>1, DagNames DEF Dag!Next, DagStep
<1>3. CASE CancelCommit(r)
  <2>1. jobStatus[r] \in {"queued", "running", "cancel_requested"} \cup JobTerminal
    BY <1>1, <1>3 DEF CancelCommit, QueueOrder, JobStatuses
  <2>2. CASE jobStatus[r] \in {"queued", "running"}
    <3>1. Dag!RequestCancel(r)
      BY <1>1, <1>3, <2>2 DEF CancelCommit, SetJob, Dag!RequestCancel, Dag!JobStep
    <3> QED BY <3>1, DagNames DEF Dag!Next, DagStep
  <2>3. CASE jobStatus[r] \in JobTerminal
    <3>1. Dag!AnswerLate(r)
      BY <1>1, <1>3, <2>3, DagNames DEF CancelCommit, SetJob, Dag!AnswerLate, Dag!JobStep
    <3> QED BY <3>1, DagNames DEF Dag!Next, DagStep
  <2>4. CASE jobStatus[r] = "cancel_requested"
    <3>1. jobStatus' = jobStatus
      BY <1>1, <1>3, <2>4 DEF CancelCommit, SetJob
    <3> QED BY <1>1, <3>1 DEF DagStep, Dag!vars
  <2> QED BY <2>1, <2>2, <2>3, <2>4
<1> QED BY <1>2, <1>3

LEMMA NextRefinesDag ==
  ASSUME IInv, QuietInv, faults = 0, faults' = 0, [Next]_vars
  PROVE  DagStep
<1>q. QueueOrder /\ FaultFree
  BY DEF QuietInv
<1>1. CASE SkipNode \/ QueueNode \/ RefuseNode
  BY <1>q, <1>1, PassRefines DEF DagStep
<1>2. CASE LoadDefinition \/ EnsureNode \/ StartJob \/ AbortRun
  BY <1>q, <1>2, PrepareRefines
<1>3. CASE FinalizeRun
  BY <1>q, <1>3, FinalizeRefines DEF DagStep
<1>4. ASSUME NEW r \in Runs, CreateRun(r) \/ CancelCommit(r) PROVE DagStep
  BY <1>q, <1>4, HandlerRefines
<1>5. ASSUME NEW r \in Runs, NEW n \in Nodes,
             WorkerStart(r, n) \/ WorkerFinish(r, n) \/ AgentLost(r, n)
      PROVE  DagStep
  BY <1>q, <1>5, WorkerRefines DEF DagStep
<1>6. CASE \/ IdleTick \/ PickRun \/ LoadFails \/ EnsureFails \/ CheckCancel \/ PassOver \/ EndPass
           \/ ReadUnfinished \/ ReadFinished \/ ReadCancelFlag \/ RecordVerdict \/ UNCHANGED vars
           \/ \E r \in Runs : CancelRead(r)
  <2>1. UNCHANGED <<jobStatus, nodeStatus, deps>>
    BY <1>6 DEF IdleTick, PickRun, LoadFails, EnsureFails, CheckCancel, PassOver, EndPass,
                ReadUnfinished, ReadFinished, ReadCancelFlag, RecordVerdict, CancelRead, vars, tables
  <2> QED BY <2>1 DEF DagStep, Dag!vars
<1>7. ~(\/ SchedulerError \/ AbortError \/ Crash
        \/ \E r \in Runs, n \in Nodes : TaskLost(r, n) \/ RemoteOverwrite(r, n))
  BY DEF SchedulerError, AbortError, Crash, TaskLost, RemoteOverwrite, Fault
<1> QED
  BY ONLY [Next]_vars, <1>1, <1>2, <1>3, <1>4, <1>5, <1>6, <1>7 DEF Next, Scheduler

(* RunScheduler implements DagExecution as long as nothing fails: rows of  *)
(* node_runs and job_runs change for the reasons the rows show, whatever   *)
(* the scheduler, the workers and the handlers remember (runner.rs).       *)
THEOREM SchedulerImplementsDag == Spec /\ [](faults = 0) => ImplementsDag
<1>1. Init => Dag!Init
  BY DagNames DEF Init, Dag!Init
<1>2. IInv /\ QuietInv /\ faults = 0 /\ (faults = 0)' /\ [Next]_vars => [Dag!Next]_(Dag!vars)
  BY NextRefinesDag DEF DagStep
<1> QED BY <1>1, <1>2, Invariance, QuietInvariance, PTL DEF Spec, ImplementsDag, Dag!Spec
=============================================================================
