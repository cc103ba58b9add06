------------------------ MODULE AgentProtocolProofs --------------------------
(***************************************************************************)
(* For any agents, tasks and number of faults: a node is executed once and *)
(* its row is honest, and all the requests, heartbeats and faults change   *)
(* the rows only as RemoteWorkers says.                                    *)
(***************************************************************************)
EXTENDS AgentProtocolInv, FiniteSetTheorems, TLAPS

Worker == [phase : Phases, task : Tasks \cup {NoTask},
           report : Outcomes \cup {Unknown}, retry : BOOLEAN]

(* The phases in which an agent has a task. *)
Busy(a) == ~At(a, {"rest", "choosing"})

-----------------------------------------------------------------------------
(* What a step that touches little leaves alone. *)

LEMMA RestingTyped == Resting \in Worker /\ Resting.phase = "rest"
BY DEF Resting, Worker, Phases

LEMMA Fields ==
  ASSUME TypeOK, NEW a \in Agents
  PROVE  /\ worker[a] \in Worker
         /\ worker[a].phase \in Phases /\ worker[a].task \in Tasks \cup {NoTask}
         /\ worker[a].report \in Outcomes \cup {Unknown} /\ worker[a].retry \in BOOLEAN
BY DEF TypeOK, Worker

(* An agent that moves on keeps its task and its report. *)
LEMMA Stepped ==
  ASSUME TypeOK, NEW a \in Agents, NEW from, NEW to \in Phases, Step(a, from, to)
  PROVE  /\ worker' \in [Agents -> Worker] /\ \A b \in Agents \ {a} : worker'[b] = worker[b]
         /\ worker[a].phase = from /\ worker'[a].phase = to
         /\ worker'[a].task = worker[a].task
         /\ worker'[a].report = worker[a].report /\ worker'[a].retry = worker[a].retry
<1> DEFINE w == [worker[a] EXCEPT !.phase = to]
<1>1. worker[a] \in Worker /\ worker \in [Agents -> Worker]
  BY DEF TypeOK, Worker
<1>2. /\ w \in Worker /\ w.phase = to /\ w.task = worker[a].task
      /\ w.report = worker[a].report /\ w.retry = worker[a].retry
  BY <1>1 DEF Worker
<1>3. worker' = [worker EXCEPT ![a] = w] /\ worker[a].phase = from
  BY DEF Step
<1> HIDE DEF w
<1> QED BY <1>1, <1>2, <1>3

(* What disturbs a node does so for good. *)
LEMMA DisturbedStays ==
  ASSUME assignedTo \subseteq assignedTo', silenced \subseteq silenced',
         \A t \in Tasks : lost[t] > 0 => lost'[t] > 0
  PROVE  Disturbed \subseteq Disturbed'
BY DEF Disturbed, AssignedTo

LEMMA RowStays ==
  ASSUME NEW t \in Tasks, RowFits(t),
         nodeStatus'[t] = nodeStatus[t], executions'[t] = executions[t],
         actual'[t] = actual[t], lost'[t] <= faults'
  PROVE  RowFits(t)'
BY DEF RowFits

LEMMA WorkerStays ==
  ASSUME NEW b \in Agents, WorkerFits(b), worker'[b] = worker[b],
         Busy(b) => /\ nodeStatus'[worker[b].task] = nodeStatus[worker[b].task]
                    /\ executions'[worker[b].task] = executions[worker[b].task]
                    /\ actual'[worker[b].task] = actual[worker[b].task],
         assignedTo \subseteq assignedTo', Disturbed \subseteq Disturbed'
  PROVE  WorkerFits(b)'
<1>1. \A S : At(b, S)' = At(b, S)
  BY DEF At
<1>2. AssignedTo(b) \subseteq AssignedTo(b)'
  BY DEF AssignedTo
<1> QED BY <1>1, <1>2 DEF WorkerFits, Busy, At

LEMMA VictimsStay ==
  ASSUME VictimsFit, victims' \subseteq victims, assignedTo \subseteq assignedTo',
         silenced \subseteq silenced', Disturbed \subseteq Disturbed',
         \A a \in Agents : a \notin alive /\ (\E t \in Tasks : t \in AssignedTo(a)) => a \notin alive',
         victims \subseteq Tasks,
         \A t \in victims' : nodeStatus'[t] \in NodeReported /\ nodeStatus'[t] # nodeStatus[t]
                               => t \in Disturbed'
  PROVE  VictimsFit'
<1>1. \A a \in Agents : AssignedTo(a) \subseteq AssignedTo(a)'
  BY DEF AssignedTo
<1>2. \A t \in victims', a \in Agents : t \in AssignedTo(a) /\ Unheard(a) => t \in AssignedTo(a)' /\ Unheard(a)'
  BY <1>1 DEF Unheard
<1>3. \A t \in victims' : (\E a \in Agents : t \in AssignedTo(a) /\ Unheard(a))'
  BY <1>2 DEF VictimsFit
<1> QED BY <1>3 DEF VictimsFit

(* What the other agents are doing with other tasks is not affected. *)
LEMMA OthersFit ==
  ASSUME IInv, NEW a \in Agents, Busy(a), assignedTo' = assignedTo, Disturbed \subseteq Disturbed',
         \A b \in Agents \ {a} : worker'[b] = worker[b],
         \A u \in Tasks \ {worker[a].task} : /\ nodeStatus'[u] = nodeStatus[u]
                                             /\ executions'[u] = executions[u]
                                             /\ actual'[u] = actual[u]
  PROVE  \A b \in Agents \ {a} : WorkerFits(b)'
<1> SUFFICES ASSUME NEW b \in Agents \ {a} PROVE WorkerFits(b)'
  OBVIOUS
<1>1. WorkerFits(a) /\ WorkerFits(b) /\ AssignedOnce
  BY DEF IInv
<1>2. Busy(b) => worker[b].task \in Tasks /\ worker[b].task # worker[a].task
  BY <1>1 DEF WorkerFits, AssignedOnce, Busy
<1> QED BY <1>1, <1>2, WorkerStays

-----------------------------------------------------------------------------
(* The inductive invariant holds initially ... *)

LEMMA InitIInv == Init => IInv
<1> SUFFICES ASSUME Init PROVE IInv
  OBVIOUS
<1> USE DEF Init
<1>1. Cardinality({}) = 0
  BY FS_EmptySet
<1>2. TypeOK
  BY <1>1, RestingTyped, FaultsAssumption DEF TypeOK, Worker, NodeStatuses, Unknown
<1>3. AssignedOnce /\ VictimsFit
  BY DEF AssignedOnce, VictimsFit, AssignedTo
<1>4. AgentsFit
  BY DEF AgentsFit, NoRow
<1>5. \A t \in Tasks : RowFits(t)
  BY DEF RowFits, NodeReported
<1>6. \A a \in Agents : WorkerFits(a)
  BY DEF WorkerFits, At, Resting
<1> QED BY <1>2, <1>3, <1>4, <1>5, <1>6 DEF IInv

(* ... and every step preserves it: first those of the scheduler. *)

LEMMA ChooseAgentIInv ==
  ASSUME IInv, NEW t \in Tasks, NEW a \in Agents, ChooseAgent(t, a)
  PROVE  IInv'
<1> USE DEF ChooseAgent
<1>0. UNCHANGED <<agentStatus, stale, nodeStatus, assignedTo, alive, worker, beating, monitor,
                  victims, executions, actual, lost, silenced, faults>>
  BY DEF tables, agents, mon, history
<1>1. Cardinality(chosen') = 1
  BY FS_Singleton
<1>2. TypeOK'
  BY <1>0, <1>1 DEF IInv, TypeOK
<1>3. agentStatus[a] # NoRow /\ \A u \in Tasks, b \in Agents : <<u, b>> \in chosen' => u = t /\ b = a
  BY DEF Online, NoRow
<1>4. Disturbed' = Disturbed /\ (\A b : AssignedTo(b)' = AssignedTo(b))
  BY <1>0 DEF Disturbed, AssignedTo
<1>5. AssignedOnce'
  BY <1>0, <1>3, <1>4 DEF IInv, AssignedOnce
<1>6. AgentsFit'
  BY <1>0, <1>3 DEF IInv, AgentsFit, Unheard
<1>7. VictimsFit'
  BY <1>0, <1>4 DEF IInv, VictimsFit, Unheard
<1>8. \A u \in Tasks : RowFits(u)'
  BY <1>0 DEF IInv, RowFits
<1>9. \A b \in Agents : WorkerFits(b)'
  BY <1>0, <1>4, WorkerStays DEF IInv
<1> QED BY <1>2, <1>5, <1>6, <1>7, <1>8, <1>9 DEF IInv

(* Nobody works on a node that is still pending. *)
LEMMA PendingUntouched ==
  ASSUME IInv, NEW t \in Tasks, nodeStatus[t] = "pending"
  PROVE  /\ t \notin victims
         /\ \A b \in Agents : Busy(b) => worker[b].task \in Tasks \ {t}
<1>1. \A b \in Agents : t \notin AssignedTo(b)
  BY DEF IInv, AssignedOnce
<1> QED BY <1>1 DEF IInv, VictimsFit, WorkerFits, Busy

LEMMA QueueNodeIInv ==
  ASSUME IInv, NEW t \in Tasks, NEW a \in Agents, QueueNode(t, a)
  PROVE  IInv'
<1> USE DEF QueueNode
<1>0. UNCHANGED <<agentStatus, stale, alive, worker, beating, monitor, victims,
                  executions, actual, lost, silenced, faults>>
  BY DEF agents, mon, history
<1>1. nodeStatus[t] = "pending" /\ agentStatus[a] # NoRow
  BY DEF IInv, AssignedOnce, AgentsFit
<1>2. nodeStatus' \in [Tasks -> NodeStatuses] /\ nodeStatus'[t] = "queued"
      /\ \A u \in Tasks \ {t} : nodeStatus'[u] = nodeStatus[u]
  BY DEF IInv, TypeOK, SetNode, NodeStatuses
<1>3. \A b \in Agents : t \notin AssignedTo(b)
  BY <1>1 DEF IInv, AssignedOnce
<1>4. \A b \in Agents, u \in Tasks : u \in AssignedTo(b)' <=> u \in AssignedTo(b) \/ (u = t /\ b = a)
  BY DEF AssignedTo
<1>5. Disturbed \subseteq Disturbed'
  BY <1>0, DisturbedStays
<1>6. TypeOK'
  <2>1. assignedTo' \subseteq Tasks \X Agents
    BY DEF IInv, TypeOK
  <2>2. Cardinality(chosen') = 0
    BY FS_EmptySet
  <2> QED BY <1>0, <1>2, <2>1, <2>2 DEF IInv, TypeOK
<1>7. AssignedOnce'
  BY <1>2, <1>3, <1>4 DEF IInv, AssignedOnce
<1>8. AgentsFit'
  BY <1>0, <1>1 DEF IInv, AgentsFit, Unheard
<1>9. t \notin victims /\ (\A b \in Agents : Busy(b) => worker[b].task \in Tasks \ {t})
  BY <1>1, PendingUntouched
<1>10. VictimsFit'
  BY <1>0, <1>2, <1>5, <1>9, VictimsStay DEF IInv, TypeOK
<1>11. \A u \in Tasks : RowFits(u)'
  BY <1>0, <1>1, <1>2 DEF IInv, RowFits, NodeReported
<1>12. \A b \in Agents : WorkerFits(b)'
  BY <1>0, <1>2, <1>5, <1>9, WorkerStays DEF IInv
<1> QED BY <1>6, <1>7, <1>8, <1>10, <1>11, <1>12 DEF IInv

LEMMA RefuseNodeIInv ==
  ASSUME IInv, NEW t \in Tasks, RefuseNode(t)
  PROVE  IInv'
<1> USE DEF RefuseNode
<1>0. UNCHANGED <<agentStatus, stale, assignedTo, chosen, alive, worker, beating, monitor, victims,
                  executions, actual, lost, silenced, faults>>
  BY DEF agents, mon, history
<1>1. nodeStatus' \in [Tasks -> NodeStatuses] /\ nodeStatus'[t] = "failed"
      /\ \A u \in Tasks \ {t} : nodeStatus'[u] = nodeStatus[u]
  BY DEF IInv, TypeOK, SetNode, NodeStatuses, NodeTerminal, NodeReported
<1>2. Disturbed' = Disturbed /\ (\A b : AssignedTo(b)' = AssignedTo(b))
  BY <1>0 DEF Disturbed, AssignedTo
<1>3. TypeOK'
  BY <1>0, <1>1 DEF IInv, TypeOK
<1>4. AssignedOnce'
  BY <1>0, <1>1, <1>2 DEF IInv, AssignedOnce
<1>5. AgentsFit'
  BY <1>0 DEF IInv, AgentsFit, Unheard
<1>6. t \notin victims /\ (\A b \in Agents : Busy(b) => worker[b].task \in Tasks \ {t})
  BY PendingUntouched
<1>7. VictimsFit'
  BY <1>0, <1>1, <1>2, <1>6, VictimsStay DEF IInv, TypeOK
<1>8. \A u \in Tasks : RowFits(u)'
  BY <1>0, <1>1 DEF IInv, RowFits, NodeReported
<1>9. \A b \in Agents : WorkerFits(b)'
  BY <1>0, <1>1, <1>2, <1>6, WorkerStays DEF IInv
<1> QED BY <1>3, <1>4, <1>5, <1>7, <1>8, <1>9 DEF IInv

-----------------------------------------------------------------------------
(* The steps of poll_loop, of an agent that is alive, touch its own task   *)
(* only.                                                                   *)

LEMMA AliveIfNotResting ==
  ASSUME IInv, NEW a \in Agents, ~At(a, {"rest"})
  PROVE  a \in alive
BY RestingTyped DEF IInv, AgentsFit, At

LEMMA BusyFacts ==
  ASSUME IInv, NEW a \in Agents, Busy(a)
  PROVE  /\ a \in alive /\ worker[a].task \in Tasks /\ worker[a].task \in AssignedTo(a)
         /\ nodeStatus[worker[a].task] # "pending"
         /\ \A b \in Agents \ {a} : worker[a].task \notin AssignedTo(b)
<1>1. a \in alive
  BY AliveIfNotResting DEF Busy, At
<1>2. worker[a].task \in Tasks /\ worker[a].task \in AssignedTo(a)
  BY DEF IInv, WorkerFits, Busy
<1> QED BY <1>1, <1>2 DEF IInv, AssignedOnce

LEMMA PollStep ==
  ASSUME IInv, NEW a \in Agents, a \in alive,
         UNCHANGED <<agentStatus, stale, assignedTo, chosen, alive, beating, monitor, victims, silenced>>,
         worker' \in [Agents -> Worker], \A b \in Agents \ {a} : worker'[b] = worker[b],
         nodeStatus' \in [Tasks -> NodeStatuses], executions' \in [Tasks -> Nat],
         actual' \in [Tasks -> Outcomes \cup {Unknown}],
         lost' \in [Tasks -> 0..MaxFaults], faults' \in 0..MaxFaults, faults <= faults',
         \A u \in Tasks : ~Busy(a) \/ u # worker[a].task =>
           /\ nodeStatus'[u] = nodeStatus[u] /\ executions'[u] = executions[u]
           /\ actual'[u] = actual[u] /\ lost'[u] = lost[u],
         \A u \in Tasks : Busy(a) /\ u = worker[a].task =>
           nodeStatus'[u] # "pending" /\ RowFits(u)' /\ lost'[u] >= lost[u],
         WorkerFits(a)'
  PROVE  IInv'
<1>1. TypeOK'
  BY DEF IInv, TypeOK, Worker
<1>2. \A b : AssignedTo(b)' = AssignedTo(b)
  BY DEF AssignedTo
<1>3. \A u \in Tasks : lost[u] \in Nat /\ lost'[u] \in Nat /\ lost'[u] >= lost[u]
  BY DEF IInv, TypeOK
<1>4. Disturbed \subseteq Disturbed'
  BY <1>3, DisturbedStays
<1>5. \A u \in Tasks : nodeStatus'[u] = "pending" <=> nodeStatus[u] = "pending"
  BY BusyFacts
<1>6. AssignedOnce'
  BY <1>2, <1>5 DEF IInv, AssignedOnce
<1>7. AgentsFit'
  BY DEF IInv, AgentsFit, Unheard
<1>8. VictimsFit'
  <2>1. \A t \in victims : nodeStatus'[t] # nodeStatus[t] => t \in Disturbed'
    <3> SUFFICES ASSUME NEW t \in victims, nodeStatus'[t] # nodeStatus[t] PROVE t \in Disturbed'
      OBVIOUS
    <3>1. t \in Tasks /\ Busy(a) /\ t = worker[a].task
      BY DEF IInv, TypeOK
    <3>2. PICK b \in Agents : t \in AssignedTo(b) /\ Unheard(b)
      BY DEF IInv, VictimsFit
    <3>3. b = a /\ a \in silenced
      BY <3>1, <3>2, BusyFacts DEF Unheard
    <3>4. t \in Disturbed
      BY <3>1, <3>2, <3>3 DEF Disturbed
    <3> QED BY <3>4, <1>4
  <2>2. victims \subseteq Tasks
    BY DEF IInv, TypeOK
  <2> QED BY <1>4, <2>1, <2>2, VictimsStay DEF IInv
<1>9. \A u \in Tasks : RowFits(u)'
  <2> SUFFICES ASSUME NEW u \in Tasks PROVE RowFits(u)'
    OBVIOUS
  <2>1. CASE Busy(a) /\ u = worker[a].task
    BY <2>1
  <2>2. CASE ~Busy(a) \/ u # worker[a].task
    <3>1. lost'[u] <= faults'
      BY <2>2, <1>3 DEF IInv, RowFits, TypeOK
    <3> QED BY <3>1, <2>2, RowStays DEF IInv
  <2> QED BY <2>1, <2>2
<1>10. \A b \in Agents \ {a} : WorkerFits(b)'
  <2>1. CASE Busy(a)
    BY <2>1, <1>4, OthersFit
  <2>2. CASE ~Busy(a)
    <3> SUFFICES ASSUME NEW b \in Agents \ {a} PROVE WorkerFits(b)'
      OBVIOUS
    <3>1. Busy(b) => worker[b].task \in Tasks
      BY DEF IInv, WorkerFits, Busy
    <3> QED BY <3>1, <2>2, <1>4, WorkerStays DEF IInv
  <2> QED BY <2>1, <2>2
<1> QED BY <1>1, <1>6, <1>7, <1>8, <1>9, <1>10 DEF IInv

(* After a failed report an agent makes its second attempt, or none.  A    *)
(* row that has ended is then known to be disturbed.                       *)
LEMMA GaveUp ==
  ASSUME TypeOK, NEW a \in Agents, WorkerFits(a), At(a, {"reporting", "writing", "written"}),
         worker'[a] = GiveUp(worker[a]),
         UNCHANGED <<nodeStatus, assignedTo, executions, actual>>, Disturbed \subseteq Disturbed',
         At(a, {"written"}) => \A t \in Tasks : t = worker[a].task => t \in Disturbed'
  PROVE  worker'[a] \in Worker /\ WorkerFits(a)'
<1>1. worker[a] \in Worker
  BY Fields
<1>2. AssignedTo(a)' = AssignedTo(a)
  BY DEF AssignedTo
<1>3. CASE worker[a].retry
  <2>1. worker'[a] = Resting
    BY <1>3 DEF GiveUp
  <2> QED BY <2>1, RestingTyped DEF WorkerFits, At
<1>4. CASE ~worker[a].retry
  <2> DEFINE w == [worker[a] EXCEPT !.phase = "reporting", !.report = "failed", !.retry = TRUE]
  <2>1. w \in Worker /\ w.phase = "reporting" /\ w.report = "failed" /\ w.task = worker[a].task
    BY <1>1 DEF Worker, Phases, Outcomes
  <2>2. worker'[a] = w
    BY <1>4 DEF GiveUp
  <2> HIDE DEF w
  <2>3. WorkerFits(a)'
    BY <1>2, <2>1, <2>2 DEF WorkerFits, At, Outcomes
  <2> QED BY <2>1, <2>2, <2>3
<1> QED BY <1>3, <1>4

(* The steps before a task is found, and the refusal of a report, change   *)
(* no row.                                                                 *)
LEMMA QuietPollIInv ==
  ASSUME IInv, NEW a \in Agents, AdmitPoll(a) \/ SelectTask(a) \/ AdmitReport(a) \/ ReceiveOk(a) \/ RefuseReport(a)
  PROVE  IInv'
<1>0. UNCHANGED <<agentStatus, stale, nodeStatus, assignedTo, chosen, alive, beating, monitor, victims,
                  executions, actual, lost, silenced, faults>>
  BY DEF AdmitPoll, SelectTask, AdmitReport, ReceiveOk, RefuseReport, tables, mon, history
<1>1. worker[a] \in Worker /\ worker \in [Agents -> Worker] /\ TypeOK /\ WorkerFits(a)
  BY Fields DEF IInv, TypeOK, Worker
<1>2. Disturbed' = Disturbed /\ (\A b : AssignedTo(b)' = AssignedTo(b))
  BY <1>0 DEF Disturbed, AssignedTo
<1>3. \A u \in Tasks : Busy(a) /\ u = worker[a].task =>
        nodeStatus'[u] # "pending" /\ RowFits(u)' /\ lost'[u] >= lost[u]
  BY <1>0, BusyFacts DEF IInv, RowFits, TypeOK
<1>4. /\ worker' \in [Agents -> Worker] /\ \A b \in Agents \ {a} : worker'[b] = worker[b]
      /\ a \in alive /\ WorkerFits(a)'
  <2>1. CASE AdmitPoll(a)
    <3>1. worker'[a] = [Resting EXCEPT !.phase = "choosing"]
      BY <1>1, <2>1 DEF AdmitPoll, Step, WorkerFits, At
    <3>2. worker' \in [Agents -> Worker] /\ \A b \in Agents \ {a} : worker'[b] = worker[b]
      BY <1>1, <2>1, Stepped DEF AdmitPoll, Phases
    <3>3. worker'[a].phase = "choosing"
      BY <3>1 DEF Resting
    <3>4. WorkerFits(a)'
      BY <3>1, <3>3 DEF WorkerFits, At
    <3> QED BY <2>1, <3>2, <3>4 DEF AdmitPoll
  <2>2. CASE SelectTask(a)
    <3>1. At(a, {"choosing"}) /\ a \in alive
      BY <2>2, AliveIfNotResting DEF SelectTask, At
    <3>2. CASE worker' = [worker EXCEPT ![a] = Resting]
      <4>1. worker'[a] = Resting /\ worker' \in [Agents -> Worker] /\ \A b \in Agents \ {a} : worker'[b] = worker[b]
        BY <1>1, <3>2, RestingTyped
      <4>2. WorkerFits(a)'
        BY <4>1, RestingTyped DEF WorkerFits, At
      <4> QED BY <3>1, <4>1, <4>2
    <3>3. CASE \E t \in {u \in AssignedTo(a) : nodeStatus[u] = "queued"} :
                 worker' = [worker EXCEPT ![a].phase = "marking", ![a].task = t]
      <4>1. PICK t \in AssignedTo(a) : nodeStatus[t] = "queued"
                 /\ worker' = [worker EXCEPT ![a].phase = "marking", ![a].task = t]
        BY <3>3
      <4> DEFINE w == [worker[a] EXCEPT !.phase = "marking", !.task = t]
      <4>2. t \in Tasks
        BY DEF AssignedTo
      <4>3. w \in Worker /\ w.phase = "marking" /\ w.task = t /\ w.retry = FALSE
        BY <1>1, <3>1, <4>2 DEF Worker, Phases, WorkerFits, Resting
      <4>4. worker' = [worker EXCEPT ![a] = w]
        BY <4>1, <1>1
      <4> HIDE DEF w
      <4>5. worker' \in [Agents -> Worker] /\ worker'[a] = w /\ \A b \in Agents \ {a} : worker'[b] = worker[b]
        BY <1>1, <4>3, <4>4
      <4>6. executions[t] = 0
        BY <4>1, <4>2 DEF IInv, RowFits
      <4>7. WorkerFits(a)'
        BY <1>0, <1>2, <4>1, <4>2, <4>3, <4>5, <4>6 DEF WorkerFits, At, NodeReported
      <4> QED BY <3>1, <4>5, <4>7
    <3> QED BY <2>2, <3>2, <3>3 DEF SelectTask
  <2>3. CASE AdmitReport(a)
    <3>1. Step(a, "reporting", "writing") /\ "writing" \in Phases
      BY <2>3 DEF AdmitReport, Phases
    <3>2. a \in alive
      BY <3>1, AliveIfNotResting DEF Step, At
    <3>3. WorkerFits(a)'
      BY <1>0, <1>1, <1>2, <3>1, Stepped DEF WorkerFits, At
    <3> QED BY <1>1, <3>1, <3>2, <3>3, Stepped
  <2>4. CASE ReceiveOk(a)
    <3>1. a \in alive
      BY <2>4, AliveIfNotResting DEF ReceiveOk, At
    <3>2. worker'[a] = Resting /\ worker' \in [Agents -> Worker] /\ \A b \in Agents \ {a} : worker'[b] = worker[b]
      BY <1>1, <2>4, RestingTyped DEF ReceiveOk
    <3>3. WorkerFits(a)'
      BY <3>2, RestingTyped DEF WorkerFits, At
    <3> QED BY <3>1, <3>2, <3>3
  <2>5. CASE RefuseReport(a)
    <3>1. At(a, {"reporting"}) /\ a \in alive
      BY <2>5, AliveIfNotResting DEF RefuseReport, At
    <3>2. worker'[a] = GiveUp(worker[a]) /\ \A b \in Agents \ {a} : worker'[b] = worker[b]
      BY <1>1, <2>5 DEF RefuseReport
    <3>3. worker'[a] \in Worker /\ WorkerFits(a)'
      BY <1>0, <1>1, <1>2, <3>1, <3>2, GaveUp DEF At
    <3> QED BY <1>1, <2>5, <3>1, <3>2, <3>3 DEF RefuseReport
  <2> QED BY <2>1, <2>2, <2>3, <2>4, <2>5
<1> QED BY <1>0, <1>1, <1>3, <1>4, PollStep DEF IInv, TypeOK

LEMMA RunTaskIInv ==
  ASSUME IInv, NEW a \in Agents, MarkRunning(a) \/ ReceiveTask(a) \/ EndProcess(a) \/ WriteResult(a)
  PROVE  IInv'
<1> DEFINE t == worker[a].task
<1>0. /\ UNCHANGED <<agentStatus, stale, assignedTo, chosen, alive, beating, monitor, victims,
                     lost, silenced, faults>>
      /\ At(a, {"marking", "answered", "executing", "writing"})
  BY DEF MarkRunning, ReceiveTask, EndProcess, WriteResult, Step, At, tables, mon, history
<1>1. worker[a] \in Worker /\ worker \in [Agents -> Worker] /\ TypeOK /\ WorkerFits(a)
  BY Fields DEF IInv, TypeOK, Worker
<1>2. Disturbed' = Disturbed /\ (\A b : AssignedTo(b)' = AssignedTo(b))
  BY <1>0 DEF Disturbed, AssignedTo
<1>3. Busy(a) /\ a \in alive /\ t \in Tasks /\ t \in AssignedTo(a) /\ RowFits(t) /\ lost[t] <= faults
  BY <1>0, BusyFacts DEF Busy, At, IInv, RowFits
<1>4. CASE MarkRunning(a)
  <2> USE <1>4 DEF MarkRunning
  <2>1. Step(a, "marking", "answered") /\ "answered" \in Phases
    BY DEF Phases
  <2>2. nodeStatus' \in [Tasks -> NodeStatuses] /\ nodeStatus'[t] = "running"
        /\ (\A u \in Tasks \ {t} : nodeStatus'[u] = nodeStatus[u]) /\ UNCHANGED <<executions, actual>>
    BY <1>1, <1>3 DEF SetNode, TypeOK, NodeStatuses, history
  <2>3. executions[t] = 0
    BY <1>1, <2>1 DEF WorkerFits, Step, At
  <2>4. RowFits(t) /\ nodeStatus'[t] = "running" => \A u \in Tasks : u = t => RowFits(u)'
    BY <1>0, <2>2, <2>3 DEF RowFits, NodeReported
  <2>5. WorkerFits(a)'
    BY <1>1, <1>2, <1>3, <2>1, <2>2, <2>3, Stepped DEF WorkerFits, At, NodeReported
  <2> QED BY <1>0, <1>1, <1>3, <2>1, <2>2, <2>4, <2>5, Stepped, PollStep DEF TypeOK
<1>5. CASE ReceiveTask(a)
  <2> USE <1>5 DEF ReceiveTask
  <2>1. Step(a, "answered", "executing") /\ "executing" \in Phases
    BY DEF Phases
  <2>2. executions[t] = 0 /\ nodeStatus[t] \in {"running", "failed"}
    BY <1>1, <2>1 DEF WorkerFits, Step, At
  <2>3. executions' \in [Tasks -> Nat] /\ executions'[t] = 1
        /\ (\A u \in Tasks \ {t} : executions'[u] = executions[u]) /\ UNCHANGED <<nodeStatus, actual>>
    BY <1>1, <1>3, <2>2 DEF TypeOK, tables
  <2>4. \A u \in Tasks : u = t => RowFits(u)'
    BY <1>0, <1>3, <2>2, <2>3 DEF RowFits, NodeReported
  <2>5. WorkerFits(a)'
    BY <1>1, <1>2, <1>3, <2>1, <2>2, <2>3, Stepped DEF WorkerFits, At
  <2> QED BY <1>0, <1>1, <1>3, <2>1, <2>2, <2>3, <2>4, <2>5, Stepped, PollStep DEF TypeOK
<1>6. CASE EndProcess(a)
  <2>1. PICK s \in Outcomes :
          /\ worker' = [worker EXCEPT ![a].phase = "reporting", ![a].report = s]
          /\ actual' = [actual EXCEPT ![worker[a].task] = s]
    BY <1>6 DEF EndProcess
  <2> DEFINE w == [worker[a] EXCEPT !.phase = "reporting", !.report = s]
  <2>2. w \in Worker /\ w.phase = "reporting" /\ w.report = s /\ w.task = t
    BY <1>1, <2>1 DEF Worker, Phases
  <2>3. worker' = [worker EXCEPT ![a] = w]
    BY <1>1, <2>1
  <2> HIDE DEF w
  <2>4. worker'[a] = w /\ worker' \in [Agents -> Worker] /\ \A b \in Agents \ {a} : worker'[b] = worker[b]
    BY <1>1, <2>2, <2>3
  <2>5. actual' \in [Tasks -> Outcomes \cup {Unknown}] /\ actual'[t] = s
        /\ (\A u \in Tasks \ {t} : actual'[u] = actual[u]) /\ UNCHANGED <<nodeStatus, executions>>
    BY <1>1, <1>3, <1>6, <2>1 DEF TypeOK, EndProcess, tables
  <2>6. nodeStatus[t] \in {"running", "failed"} /\ worker[a].phase = "executing"
    BY <1>1, <1>6 DEF WorkerFits, EndProcess, At
  <2>7. \A u \in Tasks : u = t => RowFits(u)'
    BY <1>0, <1>3, <2>5, <2>6 DEF RowFits, NodeReported
  <2>8. WorkerFits(a)'
    BY <1>1, <1>2, <1>3, <2>2, <2>4, <2>5, <2>6 DEF WorkerFits, At, NodeReported
  <2> QED BY <1>0, <1>1, <1>3, <2>4, <2>5, <2>6, <2>7, <2>8, PollStep DEF TypeOK
<1>7. CASE WriteResult(a)
  <2> USE <1>7 DEF WriteResult
  <2>1. Step(a, "writing", "written") /\ "written" \in Phases
    BY DEF Phases
  <2>2. worker[a].report \in {actual[t], "failed"} \cap Outcomes /\ Outcomes \subseteq NodeReported
        /\ nodeStatus[t] \notin {"pending", "queued"}
    BY <1>1, <2>1 DEF WorkerFits, Step, At, Outcomes, NodeReported
  <2>3. nodeStatus' \in [Tasks -> NodeStatuses] /\ nodeStatus'[t] = worker[a].report
        /\ (\A u \in Tasks \ {t} : nodeStatus'[u] = nodeStatus[u]) /\ UNCHANGED <<executions, actual>>
    BY <1>1, <1>3, <2>2 DEF SetNode, TypeOK, NodeStatuses, NodeTerminal, history
  <2>4. \A u \in Tasks : u = t => RowFits(u)' /\ nodeStatus'[u] # "pending"
    BY <1>0, <1>3, <2>2, <2>3 DEF RowFits, NodeReported
  <2>5. WorkerFits(a)'
    BY <1>1, <1>2, <1>3, <2>1, <2>2, <2>3, Stepped DEF WorkerFits, At, NodeReported
  <2> QED BY <1>0, <1>1, <1>3, <2>1, <2>3, <2>4, <2>5, Stepped, PollStep DEF TypeOK
<1> QED BY <1>4, <1>5, <1>6, <1>7

LEMMA LosePollIInv ==
  ASSUME IInv, NEW a \in Agents, LosePoll(a)
  PROVE  IInv'
<1>0. /\ UNCHANGED <<agentStatus, stale, nodeStatus, assignedTo, chosen, alive, beating, monitor, victims,
                     executions, actual, lost, silenced>>
      /\ ~At(a, {"rest"}) /\ faults' = faults + 1 /\ faults < MaxFaults
  BY DEF LosePoll, Fault, At, tables, mon, history
<1>1. worker \in [Agents -> Worker] /\ TypeOK
  BY DEF IInv, TypeOK, Worker
<1>2. faults \in Nat /\ faults' \in 0..MaxFaults /\ faults <= faults' /\ \A u \in Tasks : lost[u] <= faults' /\ lost[u] \in Nat
  BY <1>0, <1>1, FaultsAssumption DEF TypeOK, IInv, RowFits
<1>3. \A u \in Tasks : Busy(a) /\ u = worker[a].task =>
        nodeStatus'[u] # "pending" /\ RowFits(u)' /\ lost'[u] >= lost[u]
  BY <1>0, <1>2, BusyFacts, RowStays DEF IInv
<1>4. worker'[a] = Resting /\ worker' \in [Agents -> Worker] /\ \A b \in Agents \ {a} : worker'[b] = worker[b]
  BY <1>1, RestingTyped DEF LosePoll
<1>5. WorkerFits(a)'
  BY <1>4, RestingTyped DEF WorkerFits, At
<1> QED BY <1>0, <1>1, <1>2, <1>3, <1>4, <1>5, AliveIfNotResting, PollStep DEF TypeOK

LEMMA LoseReportIInv ==
  ASSUME IInv, NEW a \in Agents, LoseReport(a)
  PROVE  IInv'
<1> DEFINE t == worker[a].task
<1>0. /\ UNCHANGED <<agentStatus, stale, nodeStatus, assignedTo, chosen, alive, beating, monitor, victims,
                     executions, actual, silenced>>
      /\ At(a, {"reporting", "writing", "written"}) /\ faults' = faults + 1 /\ faults < MaxFaults
      /\ worker' = [worker EXCEPT ![a] = GiveUp(worker[a])]
      /\ lost' = [lost EXCEPT ![t] = @ + 1]
  BY DEF LoseReport, Fault, At, tables, mon
<1>1. TypeOK /\ WorkerFits(a)
  BY DEF IInv
<1>2. Busy(a) /\ t \in Tasks /\ nodeStatus[t] # "pending"
  BY <1>0, BusyFacts DEF Busy, At
<1>3. /\ faults \in Nat /\ faults' \in 0..MaxFaults /\ faults <= faults'
      /\ \A u \in Tasks : lost[u] \in Nat /\ lost[u] <= faults
  BY <1>0, <1>1, FaultsAssumption DEF TypeOK, IInv, RowFits
<1>4. /\ lost'[t] = lost[t] + 1 /\ lost' \in [Tasks -> 0..MaxFaults]
      /\ \A u \in Tasks \ {t} : lost'[u] = lost[u]
  <2>1. lost[t] + 1 \in 0..MaxFaults
    BY <1>0, <1>2, <1>3, FaultsAssumption
  <2> QED BY <1>0, <1>1, <1>2, <2>1 DEF TypeOK
<1>5. \A u \in Tasks : u = t => nodeStatus'[u] # "pending" /\ RowFits(u)' /\ lost'[u] >= lost[u]
  BY <1>0, <1>2, <1>3, <1>4, RowStays DEF IInv
<1>6. Disturbed \subseteq Disturbed' /\ \A u \in Tasks : u = t => u \in Disturbed'
  <2>1. Disturbed \subseteq Disturbed'
    BY <1>0, <1>3, <1>4, DisturbedStays
  <2>2. \A u \in Tasks : u = t => u \in Disturbed'
    BY <1>3, <1>4 DEF Disturbed
  <2> QED BY <2>1, <2>2
<1>7. /\ worker' \in [Agents -> Worker] /\ \A b \in Agents \ {a} : worker'[b] = worker[b]
      /\ WorkerFits(a)'
  <2>1. worker \in [Agents -> Worker] /\ worker'[a] = GiveUp(worker[a])
    BY <1>0, <1>1 DEF TypeOK, Worker
  <2>3. worker'[a] \in Worker /\ WorkerFits(a)'
    BY <1>0, <1>1, <1>6, <2>1, GaveUp
  <2> QED BY <1>0, <2>1, <2>3
<1>8. a \in alive
  BY <1>2, BusyFacts
<1> QED BY <1>0, <1>1, <1>2, <1>3, <1>4, <1>5, <1>7, <1>8, PollStep DEF TypeOK

-----------------------------------------------------------------------------
(* Agents register and go, send heartbeats, and fall silent. *)

(* A step that leaves the work on the tasks alone. *)
LEMMA AgentStep ==
  ASSUME IInv, TypeOK',
         UNCHANGED <<nodeStatus, assignedTo, chosen, worker, executions, actual, lost>>,
         faults <= faults', silenced \subseteq silenced',
         victims' \subseteq victims \/ VictimsFit',
         \A a \in Agents : a \notin alive /\ (\E t \in Tasks : t \in AssignedTo(a)) => a \notin alive',
         AgentsFit'
  PROVE  IInv'
<1>1. Disturbed \subseteq Disturbed' /\ (\A b : AssignedTo(b)' = AssignedTo(b))
  BY DisturbedStays DEF AssignedTo
<1>2. AssignedOnce'
  BY <1>1 DEF IInv, AssignedOnce
<1>3. VictimsFit'
  BY <1>1, VictimsStay DEF IInv, TypeOK
<1>4. \A u \in Tasks : RowFits(u)'
  <2>1. \A u \in Tasks : lost'[u] <= faults'
    BY FaultsAssumption DEF IInv, RowFits, TypeOK
  <2> QED BY <2>1, RowStays DEF IInv
<1>5. \A b \in Agents : WorkerFits(b)'
  BY <1>1, WorkerStays DEF IInv
<1> QED BY <1>2, <1>3, <1>4, <1>5 DEF IInv

LEMMA RegisterIInv ==
  ASSUME IInv, NEW a \in Agents, Register(a)
  PROVE  IInv'
<1>0. /\ UNCHANGED <<stale, nodeStatus, assignedTo, chosen, worker, beating, monitor, victims,
                     executions, actual, lost, silenced, faults>>
      /\ agentStatus[a] = NoRow /\ alive' = alive \cup {a}
      /\ agentStatus' = [agentStatus EXCEPT ![a] = "online"]
  BY DEF Register, mon, history
<1>1. TypeOK'
  BY <1>0 DEF IInv, TypeOK
<1>2. \A t \in Tasks : t \notin AssignedTo(a)
  BY <1>0 DEF IInv, AgentsFit, AssignedTo
<1>3. a \notin stale /\ agentStatus'[a] = "online" /\ \A b \in Agents \ {a} : agentStatus'[b] = agentStatus[b]
  BY <1>0 DEF IInv, AgentsFit, TypeOK
<1>4. AgentsFit'
  BY <1>0, <1>3 DEF IInv, AgentsFit, Unheard, NoRow
<1>5. faults <= faults'
  BY <1>0, FaultsAssumption DEF IInv, TypeOK
<1> QED BY <1>0, <1>1, <1>2, <1>4, <1>5, AgentStep

LEMMA AgentTableIInv ==
  ASSUME IInv, NEW a \in Agents, DeleteAgent(a) \/ AdmitBeat(a) \/ WriteBeat(a) \/ GoStale(a)
  PROVE  IInv'
<1>0. UNCHANGED <<nodeStatus, assignedTo, chosen, alive, worker, monitor, victims, executions, actual, lost>>
  BY DEF DeleteAgent, AdmitBeat, WriteBeat, GoStale, Fault, tables, agents, mon, history
<1>1. faults \in 0..MaxFaults /\ faults' \in 0..MaxFaults /\ faults <= faults'
  BY FaultsAssumption DEF IInv, TypeOK, DeleteAgent, AdmitBeat, WriteBeat, GoStale, Fault
<1>2. silenced \subseteq silenced' /\ silenced' \subseteq Agents
  BY DEF IInv, TypeOK, DeleteAgent, AdmitBeat, WriteBeat, GoStale, history
<1>3. CASE DeleteAgent(a)
  <2>1. /\ agentStatus' = [agentStatus EXCEPT ![a] = Deleted] /\ UNCHANGED <<stale, beating, silenced>>
        /\ agentStatus[a] # NoRow
    BY <1>3 DEF DeleteAgent, agents, history, NoRow
  <2>2. TypeOK'
    BY <1>0, <1>1, <2>1 DEF IInv, TypeOK
  <2>3. AgentsFit'
    BY <1>0, <2>1 DEF IInv, AgentsFit, Unheard, Deleted, NoRow, TypeOK
  <2> QED BY <1>0, <1>1, <1>2, <2>2, <2>3, AgentStep
<1>4. CASE AdmitBeat(a)
  <2>1. UNCHANGED <<agentStatus, stale, silenced>> /\ beating' = beating \cup {a} /\ a \in alive
    BY <1>4 DEF AdmitBeat, tables, history
  <2>2. TypeOK'
    BY <1>0, <1>1, <2>1 DEF IInv, TypeOK
  <2>3. AgentsFit'
    BY <1>0, <2>1 DEF IInv, AgentsFit, Unheard
  <2> QED BY <1>0, <1>1, <1>2, <2>2, <2>3, AgentStep
<1>5. CASE WriteBeat(a)
  <2>1. /\ agentStatus' = [agentStatus EXCEPT ![a] = IF @ = Deleted THEN @ ELSE "online"]
        /\ stale' = stale \ {a} /\ beating' = beating \ {a} /\ UNCHANGED silenced /\ a \in alive
    BY <1>5 DEF WriteBeat, history, IInv, TypeOK
  <2>2. TypeOK'
    BY <1>0, <1>1, <2>1 DEF IInv, TypeOK
  <2>3. AgentsFit'
    BY <1>0, <2>1 DEF IInv, AgentsFit, Unheard, Deleted, NoRow, TypeOK
  <2> QED BY <1>0, <1>1, <1>2, <2>2, <2>3, AgentStep
<1>6. CASE GoStale(a)
  <2>1. /\ UNCHANGED <<agentStatus, beating>> /\ stale' = stale \cup {a}
        /\ agentStatus[a] # NoRow /\ a \in silenced' \cup (Agents \ alive)
    BY <1>6 DEF GoStale, agents, Online, NoRow
  <2>2. TypeOK'
    BY <1>0, <1>1, <1>2, <2>1 DEF IInv, TypeOK
  <2>3. AgentsFit'
    BY <1>0, <1>2, <2>1 DEF IInv, AgentsFit, Unheard
  <2> QED BY <1>0, <1>1, <1>2, <2>2, <2>3, AgentStep
<1> QED BY <1>3, <1>4, <1>5, <1>6

-----------------------------------------------------------------------------
(* The monitor. *)

LEMMA MarkOfflineIInv ==
  ASSUME IInv, MarkOffline
  PROVE  IInv'
<1>0. /\ UNCHANGED <<stale, nodeStatus, assignedTo, chosen, alive, worker, beating, victims,
                     executions, actual, lost, silenced, faults>>
      /\ monitor = "idle" /\ monitor' = "select"
      /\ agentStatus' = [a \in Agents |-> IF a \in Online \cap stale THEN "offline" ELSE agentStatus[a]]
  BY DEF MarkOffline, agents, history
<1>1. TypeOK'
  BY <1>0 DEF IInv, TypeOK
<1>2. AgentsFit'
  BY <1>0 DEF IInv, AgentsFit, Unheard, Online, NoRow
<1>3. faults <= faults'
  BY <1>0, FaultsAssumption DEF IInv, TypeOK
<1> QED BY <1>0, <1>1, <1>2, <1>3, AgentStep

LEMMA SelectVictimsIInv ==
  ASSUME IInv, SelectVictims
  PROVE  IInv'
<1>0. /\ UNCHANGED <<agentStatus, stale, nodeStatus, assignedTo, chosen, alive, worker, beating,
                     executions, actual, lost, silenced, faults>>
      /\ monitor' = IF victims' = {} THEN "idle" ELSE "fail"
      /\ victims' = {t \in Tasks :
           /\ nodeStatus[t] \in {"queued", "running"}
           /\ \E a \in Agents : t \in AssignedTo(a) /\ agentStatus[a] = "offline"}
  BY DEF SelectVictims, tables, agents, history
<1>1. TypeOK'
  BY <1>0 DEF IInv, TypeOK
<1>2. AgentsFit'
  BY <1>0 DEF IInv, AgentsFit, Unheard
<1>3. faults <= faults'
  BY <1>0, FaultsAssumption DEF IInv, TypeOK
<1>4. \A t \in victims' : /\ nodeStatus'[t] \notin NodeReported
                          /\ \E a \in Agents : t \in AssignedTo(a) /\ Unheard(a)
  BY <1>0 DEF IInv, AgentsFit, NodeReported
<1>5. VictimsFit'
  BY <1>0, <1>4 DEF VictimsFit, AssignedTo, Unheard
<1> QED BY <1>0, <1>1, <1>2, <1>3, <1>5, AgentStep

(* Whoever still holds the node of a victim has been silent. *)
LEMMA VictimHolder ==
  ASSUME IInv, NEW t \in victims, NEW a \in Agents, Busy(a), worker[a].task = t
  PROVE  t \in Disturbed
<1>1. PICK b \in Agents : t \in AssignedTo(b) /\ Unheard(b)
  BY DEF IInv, VictimsFit
<1>2. b = a /\ a \in silenced
  BY <1>1, BusyFacts DEF Unheard
<1>3. t \in Tasks
  BY DEF IInv, TypeOK
<1> QED BY <1>1, <1>2, <1>3 DEF Disturbed

LEMMA FailVictimIInv ==
  ASSUME IInv, FailVictim
  PROVE  IInv'
<1>0. /\ UNCHANGED <<agentStatus, stale, assignedTo, chosen, alive, worker, beating,
                     executions, actual, lost, silenced, faults>>
      /\ monitor' = IF victims' = {} THEN "idle" ELSE "fail"
  BY DEF FailVictim, agents, history
<1>1. PICK t \in victims : SetNode(t, "failed") /\ victims' = victims \ {t}
  BY DEF FailVictim
<1>2. t \in Tasks /\ victims \subseteq Tasks
  BY DEF IInv, TypeOK
<1>3. nodeStatus' \in [Tasks -> NodeStatuses] /\ nodeStatus'[t] = "failed"
      /\ \A u \in Tasks \ {t} : nodeStatus'[u] = nodeStatus[u]
  BY <1>1, <1>2 DEF IInv, TypeOK, SetNode, NodeStatuses, NodeTerminal, NodeReported
<1>4. TypeOK'
  BY <1>0, <1>1, <1>3 DEF IInv, TypeOK
<1>5. Disturbed' = Disturbed /\ (\A b : AssignedTo(b)' = AssignedTo(b))
  BY <1>0 DEF Disturbed, AssignedTo
<1>6. nodeStatus[t] # "pending"
  BY <1>2 DEF IInv, VictimsFit, AssignedOnce
<1>7. AssignedOnce'
  BY <1>0, <1>2, <1>3, <1>5, <1>6 DEF IInv, AssignedOnce
<1>8. AgentsFit'
  BY <1>0 DEF IInv, AgentsFit, Unheard
<1>9. VictimsFit'
  BY <1>0, <1>1, <1>2, <1>3, <1>5, VictimsStay DEF IInv
<1>10. \A u \in Tasks : RowFits(u)'
  BY <1>0, <1>3, <1>6 DEF IInv, RowFits, NodeReported
<1>11. ASSUME NEW a \in Agents PROVE WorkerFits(a)'
  <2>1. CASE Busy(a) /\ worker[a].task = t
    <3>1. t \in Disturbed /\ WorkerFits(a)
      BY <2>1, VictimHolder DEF IInv
    <3> QED BY <1>0, <1>2, <1>3, <1>5, <2>1, <3>1 DEF WorkerFits, At, Busy, NodeReported
  <2>2. CASE Busy(a) /\ worker[a].task # t
    <3>1. worker[a].task \in Tasks \ {t}
      BY <2>2, BusyFacts
    <3> QED BY <1>0, <1>3, <1>5, <3>1, WorkerStays DEF IInv
  <2>3. CASE ~Busy(a)
    BY <1>0, <1>5, <2>3, WorkerStays DEF IInv
  <2> QED BY <2>1, <2>2, <2>3
<1> QED BY <1>4, <1>7, <1>8, <1>9, <1>10, <1>11 DEF IInv

-----------------------------------------------------------------------------
(* Processes end. *)

LEMMA AgentCrashIInv ==
  ASSUME IInv, NEW a \in Agents, AgentCrash(a)
  PROVE  IInv'
<1>0. /\ UNCHANGED <<agentStatus, stale, nodeStatus, assignedTo, chosen, monitor, victims,
                     executions, actual, lost, silenced>>
      /\ faults' = faults + 1 /\ faults < MaxFaults
      /\ alive' = alive \ {a} /\ beating' = beating \ {a}
      /\ worker' = [worker EXCEPT ![a] = Resting]
  BY DEF AgentCrash, Fault, tables, mon, history
<1>1. worker \in [Agents -> Worker]
  BY DEF IInv, TypeOK, Worker
<1>2. /\ worker' \in [Agents -> Worker] /\ worker'[a] = Resting
      /\ \A b \in Agents \ {a} : worker'[b] = worker[b]
  BY <1>0, <1>1, RestingTyped
<1>3. faults' \in 0..MaxFaults /\ \A u \in Tasks : lost'[u] <= faults'
  BY <1>0, FaultsAssumption DEF IInv, TypeOK, RowFits
<1>4. TypeOK'
  BY <1>0, <1>2, <1>3 DEF IInv, TypeOK, Worker
<1>5. Disturbed' = Disturbed /\ (\A b : AssignedTo(b)' = AssignedTo(b))
  BY <1>0 DEF Disturbed, AssignedTo
<1>6. AssignedOnce'
  BY <1>0, <1>5 DEF IInv, AssignedOnce
<1>7. AgentsFit'
  BY <1>0, <1>2 DEF IInv, AgentsFit, Unheard
<1>8. VictimsFit'
  BY <1>0, <1>5 DEF IInv, VictimsFit, Unheard
<1>9. \A u \in Tasks : RowFits(u)'
  BY <1>0, <1>3, RowStays DEF IInv
<1>10. WorkerFits(a)'
  BY <1>2, RestingTyped DEF WorkerFits, At
<1>11. \A b \in Agents \ {a} : WorkerFits(b)'
  BY <1>0, <1>2, <1>5, WorkerStays DEF IInv
<1> QED BY <1>4, <1>6, <1>7, <1>8, <1>9, <1>10, <1>11 DEF IInv

(* Everything the server was doing is gone; an agent whose report was      *)
(* being taken makes its second attempt.                                   *)
LEMMA RestartIInv ==
  ASSUME IInv, Restart
  PROVE  IInv'
<1> DEFINE taken(t) == \E a \in Agents : worker[a].task = t /\ worker[a].phase \in {"writing", "written"}
<1>0. /\ UNCHANGED <<agentStatus, stale, nodeStatus, assignedTo, alive, executions, actual, silenced>>
      /\ faults' = faults + 1 /\ faults < MaxFaults
      /\ beating' = {} /\ chosen' = {} /\ monitor' = "idle" /\ victims' = {}
      /\ lost' = [t \in Tasks |-> IF taken(t) THEN lost[t] + 1 ELSE lost[t]]
  BY DEF Restart, Fault, tables
<1>1. worker \in [Agents -> Worker] /\ TypeOK
  BY DEF IInv, TypeOK, Worker
<1>2. /\ faults \in Nat /\ faults' \in 0..MaxFaults
      /\ \A u \in Tasks : lost[u] \in Nat /\ lost[u] <= faults
  BY <1>0, <1>1, FaultsAssumption DEF TypeOK, IInv, RowFits
<1>3. lost' \in [Tasks -> 0..MaxFaults] /\ \A u \in Tasks : lost'[u] <= faults' /\ lost'[u] >= lost[u]
  BY <1>0, <1>2, FaultsAssumption
<1>4. Disturbed \subseteq Disturbed' /\ (\A b : AssignedTo(b)' = AssignedTo(b))
  BY <1>0, <1>2, <1>3, DisturbedStays DEF AssignedTo
<1>5. \A u \in Tasks : taken(u) => u \in Disturbed'
  BY <1>0, <1>2 DEF Disturbed
<1>6. ASSUME NEW a \in Agents
      PROVE  worker'[a] \in Worker /\ WorkerFits(a)' /\ (worker[a] = Resting => worker'[a] = Resting)
  <2>1. CASE worker[a].phase \in {"choosing", "marking", "answered"}
    <3>1. worker'[a] = Resting
      BY <2>1 DEF Restart
    <3> QED BY <3>1, RestingTyped DEF WorkerFits, At
  <2>2. CASE worker[a].phase \in {"writing", "written"}
    <3>1. worker'[a] = GiveUp(worker[a]) /\ worker[a] # Resting
      BY <2>2, RestingTyped DEF Restart
    <3>2. worker[a].task \in Tasks /\ WorkerFits(a)
      BY <2>2, BusyFacts DEF Busy, At, IInv
    <3>3. \A t \in Tasks : t = worker[a].task => t \in Disturbed'
      BY <1>5, <2>2
    <3> QED BY <1>0, <1>1, <1>4, <2>2, <3>1, <3>2, <3>3, GaveUp DEF At
  <2>3. CASE worker[a].phase \notin {"choosing", "marking", "answered", "writing", "written"}
    <3>1. worker'[a] = worker[a]
      BY <2>3 DEF Restart
    <3> QED BY <1>0, <1>1, <1>4, <3>1, WorkerStays DEF IInv
  <2> QED BY <2>1, <2>2, <2>3
<1>7. TypeOK'
  <2>1. worker' \in [Agents -> Worker]
    BY <1>6 DEF Restart
  <2>2. Cardinality(chosen') = 0
    BY <1>0, FS_EmptySet
  <2> QED BY <1>0, <1>1, <1>2, <1>3, <2>1, <2>2 DEF TypeOK, Worker
<1>8. AssignedOnce'
  BY <1>0, <1>4 DEF IInv, AssignedOnce
<1>9. AgentsFit'
  BY <1>0, <1>6 DEF IInv, AgentsFit, Unheard
<1>10. VictimsFit'
  BY <1>0 DEF VictimsFit
<1>11. \A u \in Tasks : RowFits(u)'
  BY <1>0, <1>3, RowStays DEF IInv
<1> QED BY <1>6, <1>7, <1>8, <1>9, <1>10, <1>11 DEF IInv

LEMMA UnchangedIInv ==
  ASSUME IInv, UNCHANGED vars
  PROVE  IInv'
<1>1. UNCHANGED <<agentStatus, stale, nodeStatus, assignedTo, chosen, alive, worker, beating, monitor,
                  victims, executions, actual, lost, silenced, faults>>
  BY DEF vars, tables, agents, mon, history
<1>2. TypeOK' /\ AgentsFit'
  BY <1>1 DEF IInv, TypeOK, AgentsFit, Unheard
<1>3. faults <= faults'
  BY <1>1, FaultsAssumption DEF IInv, TypeOK
<1> QED BY <1>1, <1>2, <1>3, AgentStep

-----------------------------------------------------------------------------
LEMMA PollLoopIInv ==
  ASSUME IInv, NEW a \in Agents, PollLoop(a)
  PROVE  IInv'
BY QuietPollIInv, RunTaskIInv DEF PollLoop

LEMMA MonitorIInv ==
  ASSUME IInv, Monitor
  PROVE  IInv'
<1>1. CASE QuietTick
  <2>1. UNCHANGED vars
    BY <1>1 DEF QuietTick
  <2> QED BY <2>1, UnchangedIInv
<1> QED BY <1>1, MarkOfflineIInv, SelectVictimsIInv, FailVictimIInv DEF Monitor

LEMMA NextIInv ==
  ASSUME IInv, [Next]_vars
  PROVE  IInv'
<1>1. ASSUME NEW t \in Tasks, RefuseNode(t) \/ \E a \in Agents : ChooseAgent(t, a) \/ QueueNode(t, a)
      PROVE  IInv'
  BY <1>1, RefuseNodeIInv, ChooseAgentIInv, QueueNodeIInv
<1>2. ASSUME NEW a \in Agents,
             \/ Register(a) \/ DeleteAgent(a) \/ PollLoop(a) \/ LosePoll(a) \/ LoseReport(a)
             \/ AdmitBeat(a) \/ WriteBeat(a) \/ GoStale(a) \/ AgentCrash(a)
      PROVE  IInv'
  BY <1>2, RegisterIInv, AgentTableIInv, PollLoopIInv, LosePollIInv, LoseReportIInv, AgentCrashIInv
<1>3. CASE Monitor
  BY <1>3, MonitorIInv
<1>4. CASE Restart
  BY <1>4, RestartIInv
<1>5. CASE UNCHANGED vars
  BY <1>5, UnchangedIInv
<1> QED BY ONLY [Next]_vars, <1>1, <1>2, <1>3, <1>4, <1>5 DEF Next

(* The invariant IInv holds in every state of the protocol: where an agent *)
(* stands in poll_loop, the row of its task, and what the monitor has      *)
(* selected fit together through all faults.                               *)
THEOREM ProtocolInvariance == Spec => []IInv
<1>1. Init => IInv
  BY InitIInv
<1>2. IInv /\ [Next]_vars => IInv'
  BY NextIInv
<1> QED BY <1>1, <1>2, PTL DEF Spec

(* The tables, the agents, the monitor and the counters have their types;  *)
(* the scheduler is assigning at most one node at a time                   *)
(* (assign_to_agent).                                                      *)
THEOREM ProtocolTypes == Spec => []TypeOK
<1>1. IInv => TypeOK
  BY DEF IInv
<1> QED BY <1>1, ProtocolInvariance, PTL

(* No task is executed twice, however many polls and reports are lost,     *)
(* agents deleted or processes restarted (poll_task, assign_to_agent).     *)
THEOREM AtMostOnce == Spec => []ExecutedOnce
<1>1. IInv => ExecutedOnce
  BY DEF IInv, RowFits, ExecutedOnce
<1> QED BY <1>1, ProtocolInvariance, PTL

(* A row says success, timed_out or canceled only if that is how the       *)
(* process ended (report_result, check_agent_heartbeats).                  *)
THEOREM RowsAreHonest == Spec => []OutcomeHonest
<1>1. IInv => OutcomeHonest
  BY DEF IInv, RowFits, OutcomeHonest
<1> QED BY <1>1, ProtocolInvariance, PTL

-----------------------------------------------------------------------------
(* The refinement of RemoteWorkers. *)

Holds(a, t) ==
  worker[a].task = t /\ worker[a].phase \in {"answered", "executing", "reporting", "writing"}

(* The second attempt is for the same task, and none is made for one that  *)
(* runs when the first was written.                                        *)
LEMMA GivenUp ==
  ASSUME worker \in [Agents -> Worker], NEW a \in Agents, WorkerFits(a),
         At(a, {"reporting", "writing", "written"}), worker'[a] = GiveUp(worker[a])
  PROVE  \A t \in Tasks : nodeStatus[t] = "running" /\ Holds(a, t)' => Holds(a, t)
<1>1. CASE worker[a].retry
  BY <1>1, RestingTyped DEF GiveUp, Holds
<1>2. CASE ~worker[a].retry
  <2> DEFINE w == [worker[a] EXCEPT !.phase = "reporting", !.report = "failed", !.retry = TRUE]
  <2>1. w.task = worker[a].task
    BY DEF Worker
  <2>2. worker'[a] = w
    BY <1>2 DEF GiveUp
  <2> HIDE DEF w
  <2>3. ASSUME NEW t \in Tasks, nodeStatus[t] = "running", Holds(a, t)' PROVE Holds(a, t)
    BY <2>1, <2>2, <2>3 DEF Holds, WorkerFits, At, NodeReported
  <2> QED BY <2>3
<1> QED BY <1>1, <1>2

(* A step that changes no row, and starts no work on a running node. *)
LEMMA QuietRefines ==
  ASSUME UNCHANGED nodeStatus, Disturbed \subseteq Disturbed',
         \A a \in Agents, t \in Tasks : nodeStatus[t] = "running" /\ Holds(a, t)' => Holds(a, t)
  PROVE  Workers!Next
<1>1. Executing' \subseteq Executing
  BY DEF Executing, Holding, Holds
<1> QED BY <1>1 DEF Workers!Next

LEMMA StaysQuiet ==
  ASSUME IInv, UNCHANGED <<nodeStatus, worker>>, Disturbed \subseteq Disturbed'
  PROVE  Workers!Next
<1>1. \A a \in Agents, t \in Tasks : nodeStatus[t] = "running" /\ Holds(a, t)' => Holds(a, t)
  BY DEF Holds
<1> QED BY <1>1, QuietRefines

LEMMA PollRefines ==
  ASSUME IInv, NEW a \in Agents,
         \/ AdmitPoll(a) \/ SelectTask(a) \/ ReceiveTask(a) \/ EndProcess(a)
         \/ AdmitReport(a) \/ RefuseReport(a) \/ ReceiveOk(a) \/ LosePoll(a) \/ LoseReport(a) \/ AgentCrash(a)
  PROVE  Workers!Next
<1>0. UNCHANGED <<nodeStatus, assignedTo, silenced>> /\ \A u \in Tasks : lost[u] > 0 => lost'[u] > 0
  <2>1. CASE LoseReport(a)
    <3>1. UNCHANGED <<nodeStatus, assignedTo, silenced>> /\ lost' = [lost EXCEPT ![worker[a].task] = @ + 1]
      BY <2>1 DEF LoseReport, tables
    <3>2. lost \in [Tasks -> Nat]
      BY DEF IInv, TypeOK
    <3>3. worker[a].task \in Tasks
      BY <2>1, BusyFacts DEF LoseReport, Busy, At
    <3> QED BY <3>1, <3>2, <3>3
  <2>2. CASE ~LoseReport(a)
    BY <2>2 DEF AdmitPoll, SelectTask, ReceiveTask, EndProcess, AdmitReport, RefuseReport, ReceiveOk,
                LosePoll, AgentCrash, tables, history
  <2> QED BY <2>1, <2>2
<1>1. Disturbed \subseteq Disturbed'
  BY <1>0, DisturbedStays
<1>2. worker \in [Agents -> Worker] /\ TypeOK /\ WorkerFits(a)
  BY DEF IInv, TypeOK, Worker
<1>3. /\ \A b \in Agents \ {a} : worker'[b] = worker[b]
      /\ \A t \in Tasks : nodeStatus[t] = "running" /\ Holds(a, t)' => Holds(a, t)
  <2>1. CASE AdmitPoll(a)
    <3>1. Step(a, "rest", "choosing") /\ "choosing" \in Phases
      BY <2>1 DEF AdmitPoll, Phases
    <3> QED BY <1>2, <3>1, Stepped DEF Holds
  <2>2. CASE SelectTask(a)
    <3>1. CASE worker' = [worker EXCEPT ![a] = Resting]
      BY <1>2, <3>1, RestingTyped DEF Holds
    <3>2. CASE \E t \in Tasks : worker' = [worker EXCEPT ![a].phase = "marking", ![a].task = t]
      <4>1. PICK t \in Tasks : worker' = [worker EXCEPT ![a].phase = "marking", ![a].task = t]
        BY <3>2
      <4> DEFINE w == [worker[a] EXCEPT !.phase = "marking", !.task = t]
      <4>2. worker' = [worker EXCEPT ![a] = w] /\ w.phase = "marking"
        BY <4>1, <1>2 DEF Worker
      <4> HIDE DEF w
      <4> QED BY <4>2, <1>2 DEF Holds
    <3> QED BY <2>2, <3>1, <3>2 DEF SelectTask, AssignedTo
  <2>3. CASE ReceiveTask(a)
    <3>1. Step(a, "answered", "executing") /\ "executing" \in Phases
      BY <2>3 DEF ReceiveTask, Phases
    <3> QED BY <1>2, <3>1, Stepped DEF Holds
  <2>4. CASE EndProcess(a)
    <3>1. PICK s \in Outcomes : worker' = [worker EXCEPT ![a].phase = "reporting", ![a].report = s]
      BY <2>4 DEF EndProcess
    <3> DEFINE w == [worker[a] EXCEPT !.phase = "reporting", !.report = s]
    <3>2. worker' = [worker EXCEPT ![a] = w] /\ w.task = worker[a].task
      BY <3>1, <1>2 DEF Worker
    <3> HIDE DEF w
    <3> QED BY <3>2, <1>2, <2>4 DEF Holds, EndProcess
  <2>5. CASE AdmitReport(a)
    <3>1. Step(a, "reporting", "writing") /\ "writing" \in Phases
      BY <2>5 DEF AdmitReport, Phases
    <3> QED BY <1>2, <3>1, Stepped DEF Holds
  <2>6. CASE RefuseReport(a) \/ LoseReport(a)
    <3>1. worker' = [worker EXCEPT ![a] = GiveUp(worker[a])] /\ At(a, {"reporting", "writing", "written"})
      BY <2>6 DEF RefuseReport, LoseReport, At
    <3>2. worker'[a] = GiveUp(worker[a]) /\ \A b \in Agents \ {a} : worker'[b] = worker[b]
      BY <1>2, <3>1
    <3> QED BY <1>2, <3>1, <3>2, GivenUp
  <2>7. CASE ReceiveOk(a) \/ LosePoll(a) \/ AgentCrash(a)
    <3>1. worker' = [worker EXCEPT ![a] = Resting]
      BY <2>7 DEF ReceiveOk, LosePoll, AgentCrash
    <3> QED BY <1>2, <3>1, RestingTyped DEF Holds
  <2> QED BY <2>1, <2>2, <2>3, <2>4, <2>5, <2>6, <2>7
<1>4. \A b \in Agents, t \in Tasks : nodeStatus[t] = "running" /\ Holds(b, t)' => Holds(b, t)
  BY <1>3 DEF Holds
<1> QED BY <1>0, <1>1, <1>4, QuietRefines

LEMMA RestartRefines ==
  ASSUME IInv, Restart
  PROVE  Workers!Next
<1>0. UNCHANGED <<nodeStatus, assignedTo, silenced>> /\ \A t \in Tasks : lost[t] > 0 => lost'[t] > 0
  BY DEF Restart, tables, IInv, TypeOK
<1>1. Disturbed \subseteq Disturbed'
  BY <1>0, DisturbedStays
<1>2. worker \in [Agents -> Worker]
  BY DEF IInv, TypeOK, Worker
<1>3. ASSUME NEW a \in Agents PROVE \A t \in Tasks : nodeStatus[t] = "running" /\ Holds(a, t)' => Holds(a, t)
  <2>1. CASE worker[a].phase \in {"choosing", "marking", "answered"}
    <3>1. worker'[a] = Resting
      BY <2>1 DEF Restart
    <3> QED BY <3>1, RestingTyped DEF Holds
  <2>2. CASE worker[a].phase \in {"writing", "written"}
    <3>1. worker'[a] = GiveUp(worker[a])
      BY <2>2 DEF Restart
    <3> QED BY <1>2, <2>2, <3>1, GivenUp DEF IInv, At
  <2>3. CASE worker[a].phase \notin {"choosing", "marking", "answered", "writing", "written"}
    <3>1. worker'[a] = worker[a]
      BY <2>3 DEF Restart
    <3> QED BY <3>1 DEF Holds
  <2> QED BY <2>1, <2>2, <2>3
<1> QED BY <1>0, <1>1, <1>3, QuietRefines

(* A step that changes the row of t only, and the work on t only. *)
LEMMA OthersExecuting ==
  ASSUME NEW t \in Tasks, \A u \in Tasks \ {t} : nodeStatus'[u] = nodeStatus[u],
         \A a \in Agents, u \in Tasks \ {t} : Holds(a, u)' <=> Holds(a, u)
  PROVE  /\ nodeStatus'[t] # "running" => Executing' = Executing \ {t}
         /\ nodeStatus'[t] = "running" /\ (\E a \in Agents : Holds(a, t)') => Executing' = Executing \cup {t}
<1>1. \A u \in Tasks : u \in Executing <=> nodeStatus[u] = "running" /\ \E a \in Agents : Holds(a, u)
  BY DEF Executing, Holding, Holds
<1>2. \A u \in Tasks : u \in Executing' <=> nodeStatus'[u] = "running" /\ \E a \in Agents : Holds(a, u)'
  BY DEF Executing, Holding, Holds
<1>3. \A u \in Tasks \ {t} : u \in Executing' <=> u \in Executing
  BY <1>1, <1>2
<1>4. Executing \subseteq Tasks /\ Executing' \subseteq Tasks
  BY DEF Executing
<1> QED BY <1>2, <1>3, <1>4

LEMMA RowWritten ==
  ASSUME TypeOK, NEW t \in Tasks, NEW s, nodeStatus' = [nodeStatus EXCEPT ![t] = s]
  PROVE  nodeStatus'[t] = s /\ \A u \in Tasks \ {t} : nodeStatus'[u] = nodeStatus[u]
BY DEF TypeOK

LEMMA SchedulerRefines ==
  ASSUME IInv, NEW t \in Tasks, RefuseNode(t) \/ \E a \in Agents : QueueNode(t, a)
  PROVE  Workers!Next
<1>0. UNCHANGED <<worker, lost, silenced>> /\ assignedTo \subseteq assignedTo' /\ nodeStatus[t] = "pending"
  BY DEF RefuseNode, QueueNode, agents, history, IInv, AssignedOnce
<1>1. Disturbed \subseteq Disturbed'
  BY <1>0, DisturbedStays
<1>2. \A a \in Agents, u \in Tasks \ {t} : Holds(a, u)' <=> Holds(a, u)
  BY <1>0 DEF Holds
<1>3. t \notin Executing
  BY <1>0 DEF Executing
<1>4. CASE RefuseNode(t)
  <2>1. nodeStatus' = [nodeStatus EXCEPT ![t] = "failed"]
    BY <1>4 DEF RefuseNode, SetNode
  <2>2. nodeStatus'[t] # "running" /\ \A u \in Tasks \ {t} : nodeStatus'[u] = nodeStatus[u]
    BY <2>1 DEF IInv, TypeOK
  <2>3. UNCHANGED Executing
    BY <1>2, <1>3, <2>2, OthersExecuting
  <2> QED BY <1>0, <1>1, <2>1, <2>3 DEF Workers!Next, Workers!Refuse, Workers!Move
<1>5. CASE \E a \in Agents : QueueNode(t, a)
  <2>1. nodeStatus' = [nodeStatus EXCEPT ![t] = "queued"]
    BY <1>5 DEF QueueNode, SetNode
  <2>2. nodeStatus'[t] # "running" /\ \A u \in Tasks \ {t} : nodeStatus'[u] = nodeStatus[u]
    BY <2>1 DEF IInv, TypeOK
  <2>3. UNCHANGED Executing
    BY <1>2, <1>3, <2>2, OthersExecuting
  <2> QED BY <1>0, <1>1, <2>1, <2>3 DEF Workers!Next, Workers!Queue, Workers!Move
<1> QED BY <1>4, <1>5

LEMMA MarkRunningRefines ==
  ASSUME IInv, NEW a \in Agents, MarkRunning(a)
  PROVE  Workers!Next
<1> DEFINE t == worker[a].task
<1>0. /\ UNCHANGED <<assignedTo, lost, silenced>> /\ nodeStatus' = [nodeStatus EXCEPT ![t] = "running"]
      /\ Step(a, "marking", "answered") /\ "answered" \in Phases
  BY DEF MarkRunning, history, SetNode, Phases
<1>1. Disturbed \subseteq Disturbed'
  BY <1>0, DisturbedStays
<1>2. TypeOK /\ t \in Tasks /\ nodeStatus[t] \in {"queued", "failed"}
      /\ (nodeStatus[t] \in NodeReported => t \in Disturbed)
  BY <1>0 DEF IInv, WorkerFits, At, Step
<1>3. \A b \in Agents, u \in Tasks \ {t} : Holds(b, u)' <=> Holds(b, u)
  BY <1>0, <1>2, Stepped DEF Holds
<1>4. \E b \in Agents : \A u \in Tasks : u = t => Holds(b, u)'
  BY <1>0, <1>2, Stepped DEF Holds
<1>5. Executing' = Executing \cup {t}
  <2>1. ASSUME NEW u \in Tasks, u = t PROVE Executing' = Executing \cup {u}
    BY <1>0, <1>2, <1>3, <1>4, <2>1, OthersExecuting, RowWritten
  <2> QED BY <1>2, <2>1
<1>6. CASE nodeStatus[t] = "queued"
  BY <1>0, <1>1, <1>2, <1>5, <1>6 DEF Workers!Next, Workers!Start, Workers!Move
<1>7. CASE nodeStatus[t] = "failed"
  BY <1>0, <1>1, <1>2, <1>5, <1>7 DEF Workers!Next, Workers!Rewrite, Workers!Move, NodeReported, Workers!NodeReported
<1> QED BY <1>2, <1>6, <1>7

LEMMA WriteResultRefines ==
  ASSUME IInv, NEW a \in Agents, WriteResult(a)
  PROVE  Workers!Next
<1> DEFINE t == worker[a].task
           s == worker[a].report
<1>0. /\ UNCHANGED <<assignedTo, lost, silenced>> /\ nodeStatus' = [nodeStatus EXCEPT ![t] = s]
      /\ Step(a, "writing", "written") /\ "written" \in Phases
  BY DEF WriteResult, history, SetNode, Phases
<1>1. Disturbed \subseteq Disturbed'
  BY <1>0, DisturbedStays
<1>2. TypeOK /\ t \in Tasks /\ nodeStatus[t] \in {"running"} \cup NodeReported /\ s \in NodeReported
      /\ (nodeStatus[t] \in NodeReported => t \in Disturbed)
  BY <1>0 DEF IInv, WorkerFits, At, Step, Outcomes, NodeReported
<1>3. \A b \in Agents, u \in Tasks \ {t} : Holds(b, u)' <=> Holds(b, u)
  BY <1>0, <1>2, Stepped DEF Holds
<1>4. Executing' = Executing \ {t}
  BY <1>0, <1>2, <1>3, OthersExecuting, RowWritten DEF NodeReported
<1>5. CASE nodeStatus[t] = "running"
  <2>1. t \in Executing
    BY <1>0, <1>2, <1>5 DEF Executing, Holding, Step
  <2> QED BY <1>0, <1>1, <1>2, <1>4, <1>5, <2>1 DEF Workers!Next, Workers!Finish, Workers!Move, NodeReported, Workers!NodeReported
<1>6. CASE nodeStatus[t] \in NodeReported
  <2>1. UNCHANGED Executing
    BY <1>4, <1>6 DEF Executing, NodeReported
  <2> QED BY <1>0, <1>1, <1>2, <1>6, <2>1 DEF Workers!Next, Workers!Rewrite, Workers!Move, NodeReported, Workers!NodeReported
<1> QED BY <1>2, <1>5, <1>6

LEMMA FailVictimRefines ==
  ASSUME IInv, FailVictim
  PROVE  Workers!Next
<1>0. UNCHANGED <<assignedTo, worker, lost, silenced>>
  BY DEF FailVictim, agents, history
<1>1. Disturbed \subseteq Disturbed'
  BY <1>0, DisturbedStays
<1>2. PICK t \in victims : nodeStatus' = [nodeStatus EXCEPT ![t] = "failed"]
  BY DEF FailVictim, SetNode
<1>3. TypeOK /\ t \in Tasks /\ nodeStatus[t] \in {"queued", "running"} \cup NodeReported
      /\ (nodeStatus[t] \in NodeReported => t \in Disturbed)
  BY <1>2 DEF IInv, TypeOK, RowFits, VictimsFit, AssignedOnce
<1>4. \A b \in Agents, u \in Tasks \ {t} : Holds(b, u)' <=> Holds(b, u)
  BY <1>0 DEF Holds
<1>5. Executing' = Executing \ {t}
  <2>1. nodeStatus'[t] # "running" /\ \A u \in Tasks \ {t} : nodeStatus'[u] = nodeStatus[u]
    BY <1>2, <1>3 DEF TypeOK
  <2> QED BY <1>3, <1>4, <2>1, OthersExecuting
<1>6. CASE nodeStatus[t] \in {"queued", "running"}
  BY <1>1, <1>2, <1>3, <1>5, <1>6 DEF Workers!Next, Workers!Lose, Workers!Move
<1>7. CASE nodeStatus[t] \in NodeReported
  <2>1. UNCHANGED Executing
    BY <1>5, <1>7 DEF Executing, NodeReported
  <2> QED BY <1>1, <1>2, <1>3, <1>7, <2>1 DEF Workers!Next, Workers!Rewrite, Workers!Move, NodeReported, Workers!NodeReported
<1> QED BY <1>3, <1>6, <1>7

LEMMA NextRefines ==
  ASSUME IInv, [Next]_vars
  PROVE  [Workers!Next]_(Workers!vars)
<1>1. ASSUME NEW t \in Tasks, NEW a \in Agents, ChooseAgent(t, a) PROVE Workers!Next
  <2>1. UNCHANGED <<nodeStatus, worker, assignedTo, silenced, lost>>
    BY <1>1 DEF ChooseAgent, tables, agents, history
  <2> QED BY <2>1, DisturbedStays, StaysQuiet
<1>2. ASSUME NEW a \in Agents, Register(a) \/ DeleteAgent(a) \/ AdmitBeat(a) \/ WriteBeat(a) \/ GoStale(a)
      PROVE  Workers!Next
  <2>1. UNCHANGED <<nodeStatus, worker, assignedTo, lost>> /\ silenced \subseteq silenced'
    BY <1>2 DEF Register, DeleteAgent, AdmitBeat, WriteBeat, GoStale, tables, agents, history
  <2> QED BY <2>1, DisturbedStays, StaysQuiet
<1>3. CASE MarkOffline \/ SelectVictims
  <2>1. UNCHANGED <<nodeStatus, worker, assignedTo, silenced, lost>>
    BY <1>3 DEF MarkOffline, SelectVictims, tables, agents, history
  <2> QED BY <2>1, DisturbedStays, StaysQuiet
<1>4. CASE UNCHANGED vars
  <2>1. UNCHANGED <<nodeStatus, worker, assignedTo, silenced, lost>>
    BY <1>4 DEF vars, tables, agents, history
  <2> QED BY <2>1, DisturbedStays, StaysQuiet
<1>5. ASSUME NEW t \in Tasks, RefuseNode(t) \/ \E a \in Agents : ChooseAgent(t, a) \/ QueueNode(t, a)
      PROVE  Workers!Next
  BY <1>1, <1>5, SchedulerRefines
<1>6. ASSUME NEW a \in Agents,
             \/ Register(a) \/ DeleteAgent(a) \/ PollLoop(a) \/ LosePoll(a) \/ LoseReport(a)
             \/ AdmitBeat(a) \/ WriteBeat(a) \/ GoStale(a) \/ AgentCrash(a)
      PROVE  Workers!Next
  BY <1>2, <1>6, PollRefines, MarkRunningRefines, WriteResultRefines DEF PollLoop
<1>7. CASE Monitor
  BY <1>3, <1>4, <1>7, FailVictimRefines DEF Monitor, QuietTick
<1>8. CASE Restart
  BY <1>8, RestartRefines
<1> QED BY ONLY [Next]_vars, <1>4, <1>5, <1>6, <1>7, <1>8 DEF Next

(* The protocol implements RemoteWorkers: seen from the scheduler, agents, *)
(* requests, heartbeats and their faults change the rows only as           *)
(* RunScheduler reckons with, and an ended row changes again only where a  *)
(* report was repeated or an agent was silent (report_result,              *)
(* check_agent_heartbeats).                                                *)
THEOREM ProtocolImplementsWorkers == Spec => ImplementsWorkers
<1>1. Init => Workers!Init
  <2> SUFFICES ASSUME Init PROVE Workers!Init
    OBVIOUS
  <2>1. nodeStatus = [t \in Tasks |-> "pending"]
    BY DEF Init
  <2>2. Executing = {}
    BY <2>1 DEF Executing
  <2>3. Disturbed \subseteq Tasks
    BY DEF Disturbed
  <2> QED BY <2>1, <2>2, <2>3 DEF Workers!Init
<1>2. IInv /\ [Next]_vars => [Workers!Next]_(Workers!vars)
  BY NextRefines
<1> QED BY <1>1, <1>2, ProtocolInvariance, PTL DEF Spec, ImplementsWorkers, Workers!Spec
=============================================================================
