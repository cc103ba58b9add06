--------------------------- MODULE TriggersProofs ----------------------------
(***************************************************************************)
(* For any jobs, files and scheduled times, any number of requests, edits  *)
(* and faults, and however long the server runs: a scheduled time gives at *)
(* most one run, and a client's run is one its definition allows.          *)
(***************************************************************************)
EXTENDS Triggers, WellFoundedInduction, TLAPS

-----------------------------------------------------------------------------
(* last_triggered_at is cut to whole seconds, and scheduled times are      *)
(* whole seconds: the cut can neither hide a scheduled time nor let one    *)
(* that has passed count again.                                            *)
LEMMA WholeSeconds ==
  ASSUME NEW t \in Nat, NEW s \in Nat
  PROVE  /\ Seconds(t) \in Nat /\ Seconds(t) <= t
         /\ 2 * s > Seconds(t) => 2 * s > t
         /\ 2 * s <= t => 2 * s <= Seconds(t)
BY DEF Seconds

(* A new row becomes the last of job_runs, and the others stay. *)
LEMMA Appended ==
  ASSUME runs \in Seq(Records), NEW r \in Records, runs' = Append(runs, r)
  PROVE  /\ runs' \in Seq(Records)
         /\ DOMAIN runs = 1..Len(runs) /\ Len(runs) \in Nat
         /\ DOMAIN runs' = 1..(Len(runs) + 1)
         /\ \A i \in DOMAIN runs : i \in DOMAIN runs' /\ runs'[i] = runs[i]
         /\ runs'[Len(runs) + 1] = r
OBVIOUS

LEMMA RecordFields ==
  ASSUME NEW r \in Records
  PROVE  /\ r.job \in Jobs /\ r.param \in Values /\ r.version \in Versions
         /\ r.trigger \in {"manual", "webhook", "rerun", "cron"}
         /\ r.trigger = "cron" => r.due \in Due /\ r.at \in Times
         /\ r.trigger = "rerun" => r.of \in Nat
BY DEF Records

LEMMA Bounds ==
  /\ MaxTime \in Nat /\ Lookback \in Nat
  /\ MaxRequests \in Nat /\ MaxEdits \in Nat /\ MaxFaults \in Nat
  /\ Due \subseteq {2 * s : s \in 1..MaxTime}
<1>1. {Lookback, MaxTime, MaxRequests, MaxEdits, MaxFaults} \subseteq Nat
  BY TriggersAssumption
<1> QED BY <1>1, TriggersAssumption

LEMMA InitIInv == Init => IInv
<1> SUFFICES ASSUME Init PROVE IInv
  OBVIOUS
<1>1. ASSUME NEW j \in Jobs
      PROVE  job[j].last = Never /\ (job[j].enabled => job[j].known)
  BY DEF Init, NoJob
<1>2. runs = <<>> /\ runs \in Seq(Records)
  BY DEF Init
<1>3. DOMAIN runs = {} /\ CronRuns = {}
  BY <1>2 DEF CronRuns
<1>4. now = 0 /\ requests = 0 /\ edits = 0 /\ faults = 0 /\ job \in [Jobs -> Row]
  BY DEF Init
<1>5. request.at = "idle" /\ round.at = "idle" /\ round.left = {}
  BY DEF Init, Nothing, Asleep
<1>6. file \in [Jobs -> Versions]
  <2>1. AtFirst \subseteq Versions
    BY TriggersAssumption
  <2> QED BY <2>1 DEF Init
<1>7. TypeOK
  BY <1>3, <1>4, <1>5, <1>6, Bounds DEF TypeOK, Times
<1>8. HandlerKnows /\ RoundKnows
  BY <1>5 DEF HandlerKnows, RoundKnows
<1>9. RowsTell
  BY <1>1, <1>3, <1>4 DEF RowsTell, Never
<1> QED BY <1>2, <1>3, <1>7, <1>8, <1>9 DEF IInv, CronOnce, RequestsValidated

-----------------------------------------------------------------------------
(* The invariant in two halves: what the tables hold, and where the tasks  *)
(* of the server are.                                                      *)

TablesOK ==
  /\ job \in [Jobs -> Row] /\ runs \in Seq(Records)
  /\ \A i \in DOMAIN runs :
       /\ job[runs[i].job].known
       /\ runs[i].trigger = "rerun" => runs[i].of \in 1..(i - 1)
  /\ RowsTell /\ CronOnce /\ RequestsValidated

TasksOK ==
  /\ now \in Times /\ file \in [Jobs -> Versions]
  /\ request.at \in {"idle", "loading", "inserting", "registering", "upserting", "repeating"}
  /\ round.at \in {"idle", "selected", "walking", "firing"} /\ round.left \subseteq Jobs
  /\ requests \in 0..MaxRequests /\ edits \in 0..MaxEdits /\ faults \in 0..MaxFaults
  /\ HandlerKnows /\ RoundKnows

LEMMA Halves == IInv <=> TablesOK /\ TasksOK
<1>1. IInv => TablesOK /\ TasksOK
  BY DEF IInv, TypeOK, TablesOK, TasksOK
<1>2. ASSUME TablesOK, TasksOK PROVE IInv
  <2>1. \A i \in DOMAIN runs : runs[i] \in Records
    BY <1>2 DEF TablesOK
  <2>2. \A i \in DOMAIN runs :
          /\ runs[i].job \in Jobs /\ runs[i].param \in Values
          /\ runs[i].trigger \in {"manual", "webhook", "rerun", "cron"}
    BY <2>1, RecordFields
  <2> QED BY <1>2, <2>2 DEF IInv, TypeOK, TablesOK, TasksOK
<1> QED BY <1>1, <1>2

LEMMA HalvesNext == TablesOK' /\ TasksOK' => IInv'
BY Halves, PTL

(* Steps that write to no table. *)
LEMMA TablesStay ==
  ASSUME TablesOK, TasksOK, UNCHANGED <<job, runs>>, now' \in Times, now <= now'
  PROVE  TablesOK'
<1>1. CronRuns' = CronRuns /\ CronOnce' /\ RequestsValidated'
  BY DEF TablesOK, CronRuns, CronOnce, RequestsValidated, Validated
<1>2. now \in Int /\ now' \in Int
  BY Bounds DEF TasksOK, Times
<1>3. \A j \in Jobs : job[j].last \in Int
  BY Bounds DEF TablesOK, Row, Times, Never
<1>4. \A i \in CronRuns : runs[i].at \in Int
  <2>1. \A i \in DOMAIN runs : runs[i] \in Records
    BY DEF TablesOK
  <2> QED BY <2>1, RecordFields, Bounds DEF CronRuns, Times
<1>5. RowsTell'
  BY <1>1, <1>2, <1>3, <1>4 DEF TablesOK, RowsTell, Seconds
<1> QED BY <1>1, <1>5 DEF TablesOK

(* A row that is not the cron loop's. *)
LEMMA RunAdded ==
  ASSUME TablesOK, TasksOK, UNCHANGED <<job, now>>, NEW r \in Records,
         runs' = Append(runs, r), job[r.job].known, r.trigger # "cron",
         r.trigger = "rerun" => r.of \in DOMAIN runs,
         r.trigger \in {"manual", "webhook"} => Validated(r)
  PROVE  TablesOK'
<1>1. runs \in Seq(Records)
  BY DEF TablesOK
<1>2. /\ runs' \in Seq(Records)
      /\ DOMAIN runs = 1..Len(runs) /\ Len(runs) \in Nat
      /\ DOMAIN runs' = 1..(Len(runs) + 1)
      /\ \A i \in DOMAIN runs : i \in DOMAIN runs' /\ runs'[i] = runs[i]
      /\ runs'[Len(runs) + 1] = r
  BY <1>1, Appended
<1>3. CronRuns' = CronRuns
  BY <1>2 DEF CronRuns
<1>4. CronOnce' /\ RowsTell'
  BY <1>2, <1>3 DEF CronOnce, RowsTell, TablesOK, CronRuns
<1>5. RequestsValidated'
  <2>1. SUFFICES ASSUME NEW i \in DOMAIN runs', runs'[i].trigger \in {"manual", "webhook"}
                 PROVE  Validated(runs'[i])
    BY DEF RequestsValidated, Validated
  <2>2. CASE i \in DOMAIN runs
    BY <1>2, <2>1, <2>2 DEF TablesOK, RequestsValidated
  <2>3. CASE i = Len(runs) + 1
    BY <1>2, <2>1, <2>3
  <2> QED BY <1>2, <2>2, <2>3
<1>6. \A i \in DOMAIN runs' :
        /\ job'[runs'[i].job].known
        /\ runs'[i].trigger = "rerun" => runs'[i].of \in 1..(i - 1)
  <2>1. SUFFICES ASSUME NEW i \in DOMAIN runs'
                 PROVE  /\ job'[runs'[i].job].known
                        /\ runs'[i].trigger = "rerun" => runs'[i].of \in 1..(i - 1)
    OBVIOUS
  <2>2. CASE i \in DOMAIN runs
    BY <1>2, <2>2 DEF TablesOK
  <2>3. CASE i = Len(runs) + 1
    BY <1>2, <2>3
  <2> QED BY <1>2, <2>2, <2>3
<1> QED BY <1>2, <1>4, <1>5, <1>6 DEF TablesOK

-----------------------------------------------------------------------------
(* Step by step. *)

LEMMA OutsideIInv ==
  IInv /\ (Tick \/ \E j \in Jobs : Edit(j)) => IInv'
<1> SUFFICES ASSUME TablesOK, TasksOK, Tick \/ \E j \in Jobs : Edit(j)
             PROVE  IInv'
  BY Halves
<1>1. UNCHANGED <<job, runs, request, round, requests, faults>>
  BY DEF Tick, Edit, counts
<1>2. now' \in Times /\ now <= now' /\ file' \in [Jobs -> Versions] /\ edits' \in 0..MaxEdits
  BY Bounds DEF Tick, Edit, TasksOK, Times, counts
<1>3. HandlerKnows'
  BY <1>1 DEF TasksOK, HandlerKnows, Validated
<1>4. RoundKnows'
  <2>1. /\ round.at # "idle" => \A j \in round.left : job[j].known /\ round.last[j] = job[j].last
        /\ round.at \in {"walking", "firing"} => round.now \in Times /\ round.now <= now
    BY DEF TasksOK, RoundKnows
  <2>2. round.at \in {"walking", "firing"} => round.now <= now'
    BY <1>2, <2>1, Bounds DEF TasksOK, Times
  <2> QED BY <1>1, <2>1, <2>2 DEF TasksOK, RoundKnows, Passed, Since
<1>5. TasksOK'
  BY <1>1, <1>2, <1>3, <1>4 DEF TasksOK
<1>6. TablesOK'
  BY <1>1, <1>2, TablesStay
<1> QED BY <1>5, <1>6, HalvesNext

(* A step of a handler that writes to no table. *)
LEMMA HandlerReads ==
  ASSUME TablesOK, TasksOK, UNCHANGED <<now, file, job, runs, round, edits, faults>>,
         requests' \in 0..MaxRequests,
         (request.at \in {"idle", "loading", "inserting", "registering", "upserting", "repeating"})',
         HandlerKnows'
  PROVE  IInv'
<1>1. RoundKnows'
  BY DEF TasksOK, RoundKnows, Passed, Since
<1>2. TasksOK'
  BY <1>1 DEF TasksOK
<1>3. now' \in Times /\ now <= now'
  BY Bounds DEF TasksOK, Times
<1> QED BY <1>2, <1>3, TablesStay, HalvesNext

LEMMA RegisterIInv ==
  ASSUME IInv, NEW j \in Jobs, NEW enabled \in BOOLEAN, Register(j, enabled)
  PROVE  IInv'
<1>1. TablesOK /\ TasksOK
  BY Halves
<1>2. HandlerKnows'
  BY DEF Register, HandlerKnows
<1>3. requests' \in 0..MaxRequests
  BY <1>1, Bounds DEF Register, TasksOK
<1>4. request'.at = "registering" /\ UNCHANGED <<now, file, job, runs, round, edits, faults>>
  BY DEF Register
<1> QED BY <1>1, <1>2, <1>3, <1>4, HandlerReads

LEMMA LoadForRowIInv ==
  ASSUME IInv, LoadForRow
  PROVE  IInv'
<1>1. TablesOK /\ TasksOK
  BY Halves
<1>2. UNCHANGED <<now, file, job, runs, round, edits, faults, requests>>
  BY DEF LoadForRow, counts
<1>3. request.job \in Jobs /\ request.enabled \in BOOLEAN
  BY <1>1 DEF TasksOK, HandlerKnows, LoadForRow
<1>4. file[request.job].cron \in BOOLEAN
  BY <1>1, <1>3, TriggersAssumption DEF TasksOK
<1>5. request'.at \in {"idle", "upserting"} /\ HandlerKnows'
  BY <1>3, <1>4 DEF LoadForRow, Answer, Nothing, HandlerKnows
<1> QED BY <1>1, <1>2, <1>5, HandlerReads DEF TasksOK

LEMMA StartIInv ==
  ASSUME IInv, NEW j \in Jobs, NEW trigger \in {"manual", "webhook"}, NEW sent \in BOOLEAN,
         Start(j, trigger, sent)
  PROVE  IInv'
<1>1. TablesOK /\ TasksOK
  BY Halves
<1>2. UNCHANGED <<now, file, job, runs, round, edits, faults>>
  BY DEF Start
<1>3. requests' \in 0..MaxRequests
  BY <1>1, Bounds DEF Start, TasksOK
<1>4. request'.at \in {"idle", "loading"} /\ HandlerKnows'
  BY <1>2 DEF Start, Admitted, Answer, Nothing, HandlerKnows
<1> QED BY <1>1, <1>2, <1>3, <1>4, HandlerReads

(* What is not refused is resolved to what the file asks for. *)
LEMMA LoadForRunIInv ==
  ASSUME IInv, LoadForRun
  PROVE  IInv'
<1>1. TablesOK /\ TasksOK
  BY Halves
<1>2. UNCHANGED <<now, file, job, runs, round, edits, faults, requests>>
  BY DEF LoadForRun, counts
<1>3. /\ request.job \in Jobs /\ job[request.job].known
      /\ request.trigger \in {"manual", "webhook"} /\ request.sent \in BOOLEAN
  BY <1>1 DEF TasksOK, HandlerKnows, LoadForRun
<1> DEFINE v == file[request.job]
           r == [job |-> request.job, trigger |-> request.trigger, param |-> Resolved(v), version |-> v]
<1>4. v \in Versions /\ v.param \in Params
  BY <1>1, <1>3, TriggersAssumption DEF TasksOK
<1>5. CASE Refused(v)
  BY <1>1, <1>2, <1>5, HandlerReads DEF LoadForRun, Answer, Nothing, HandlerKnows, TasksOK
<1>6. CASE ~Refused(v)
  <2>1. r \in Records
    BY <1>3, <1>4 DEF Records, Resolved, Values
  <2>2. Validated(r)
    BY <1>3, <1>4, <1>6 DEF Validated, Refused, Resolved, Params
  <2>3. request' = [at |-> "inserting", run |-> r]
    BY <1>6 DEF LoadForRun
  <2>4. request'.at = "inserting" /\ request'.run = r /\ r.job = request.job /\ r.trigger = request.trigger
    BY <2>3
  <2> HIDE DEF r
  <2>5. HandlerKnows'
    BY <1>2, <1>3, <2>1, <2>2, <2>4 DEF HandlerKnows, Validated
  <2> QED BY <1>1, <1>2, <2>4, <2>5, HandlerReads DEF TasksOK
<1> QED BY <1>5, <1>6

LEMMA RerunIInv ==
  ASSUME IInv, NEW i \in DOMAIN runs, Rerun(i)
  PROVE  IInv'
<1>1. TablesOK /\ TasksOK
  BY Halves
<1>2. UNCHANGED <<now, file, job, runs, round, edits, faults>>
  BY DEF Rerun
<1>3. requests' \in 0..MaxRequests
  BY <1>1, Bounds DEF Rerun, TasksOK
<1>4. request'.at = "repeating" /\ HandlerKnows'
  BY <1>2 DEF Rerun, HandlerKnows
<1> QED BY <1>1, <1>2, <1>3, <1>4, HandlerReads

LEMMA UpsertIInv ==
  ASSUME IInv, Upsert
  PROVE  IInv'
<1>1. TablesOK /\ TasksOK
  BY Halves
<1>2. UNCHANGED <<now, file, runs, round, edits, faults, requests>> /\ request'.at = "idle"
  BY DEF Upsert, counts, Answer, Nothing
<1>3. request.job \in Jobs /\ request.enabled \in BOOLEAN /\ request.cron \in BOOLEAN
  BY <1>1 DEF TasksOK, HandlerKnows, Upsert
<1>4. job' \in [Jobs -> Row]
  BY <1>1, <1>3 DEF TablesOK, Upsert, Upserted, Row
<1>5. \A j \in Jobs : /\ job'[j].last = job[j].last
                      /\ job[j].known => job'[j].known
                      /\ job'[j].enabled => job[j].enabled \/ job'[j].known
  BY <1>1, <1>3 DEF TablesOK, Upsert, Upserted
<1>6. HandlerKnows'
  BY <1>2 DEF HandlerKnows
<1>7. RoundKnows'
  BY <1>1, <1>2, <1>5 DEF TasksOK, RoundKnows, Passed, Since
<1>8. \A i \in DOMAIN runs : runs[i] \in Records /\ runs[i].job \in Jobs
  BY <1>1, RecordFields DEF TablesOK
<1>9. CronRuns' = CronRuns /\ CronOnce' /\ RequestsValidated'
  BY <1>1, <1>2 DEF TablesOK, CronRuns, CronOnce, RequestsValidated, Validated
<1>10. RowsTell'
  BY <1>1, <1>2, <1>5, <1>8, <1>9 DEF TablesOK, RowsTell, CronRuns, Seconds
<1>11. TablesOK'
  BY <1>1, <1>2, <1>4, <1>5, <1>8, <1>9, <1>10 DEF TablesOK
<1>12. TasksOK'
  BY <1>1, <1>2, <1>6, <1>7 DEF TasksOK
<1> QED BY <1>11, <1>12, HalvesNext

LEMMA InsertIInv ==
  ASSUME IInv, Insert \/ InsertRerun
  PROVE  IInv'
<1>1. TablesOK /\ TasksOK
  BY Halves
<1>2. UNCHANGED <<now, file, job, round, edits, faults, requests>> /\ request'.at = "idle"
  BY DEF Insert, InsertRerun, counts, Answer, Nothing
<1>3. HandlerKnows'
  BY <1>2 DEF HandlerKnows
<1>4. RoundKnows'
  BY <1>1, <1>2 DEF TasksOK, RoundKnows, Passed, Since
<1>5. TasksOK'
  BY <1>1, <1>2, <1>3, <1>4 DEF TasksOK
<1>6. CASE Insert
  <2> DEFINE r == request.run
  <2>1. /\ r \in Records /\ r.trigger \in {"manual", "webhook"}
        /\ job[r.job].known /\ Validated(r)
    BY <1>1, <1>6 DEF TasksOK, HandlerKnows, Insert
  <2>2. runs' = Append(runs, r)
    BY <1>6 DEF Insert
  <2> HIDE DEF r
  <2>3. TablesOK'
    BY <1>1, <1>2, <2>1, <2>2, RunAdded
  <2> QED BY <1>5, <2>3, HalvesNext
<1>7. CASE InsertRerun
  <2> DEFINE old == runs[request.of]
             r == [job |-> old.job, trigger |-> "rerun", param |-> "absent",
                   version |-> old.version, of |-> request.of]
  <2>1. request.of \in DOMAIN runs /\ request.of \in Nat
    BY <1>1, <1>7 DEF TablesOK, TasksOK, HandlerKnows, InsertRerun
  <2>2. old \in Records
    BY <1>1, <2>1 DEF TablesOK
  <2>3. r \in Records /\ r.job = old.job /\ r.trigger = "rerun" /\ r.of = request.of
    BY <2>1, <2>2, RecordFields DEF Records, Values
  <2>4. job[old.job].known
    BY <1>1, <2>1 DEF TablesOK
  <2>5. runs' = Append(runs, r)
    BY <1>7 DEF InsertRerun
  <2> HIDE DEF r, old
  <2>6. TablesOK'
    BY <1>1, <1>2, <2>1, <2>3, <2>4, <2>5, RunAdded
  <2> QED BY <1>5, <2>6, HalvesNext
<1> QED BY <1>5, <1>6, <1>7, HalvesNext

(* A step of the cron loop that writes to no table. *)
LEMMA RoundMoves ==
  ASSUME TablesOK, TasksOK, UNCHANGED <<now, file, job, runs, requests, edits>>,
         faults' \in 0..MaxFaults, request' = request \/ request' = Nothing,
         (round.at \in {"idle", "selected", "walking", "firing"})', (round.left \subseteq Jobs)',
         RoundKnows'
  PROVE  IInv'
<1>1. HandlerKnows'
  BY DEF TasksOK, HandlerKnows, Nothing, Validated
<1>2. (request.at \in {"idle", "loading", "inserting", "registering", "upserting", "repeating"})'
  BY DEF TasksOK, Nothing
<1>3. TasksOK'
  BY <1>1, <1>2 DEF TasksOK
<1>4. now' \in Times /\ now <= now'
  BY Bounds DEF TasksOK, Times
<1> QED BY <1>3, <1>4, TablesStay, HalvesNext

LEMMA RoundReadsIInv ==
  ASSUME IInv, Select \/ ReadClock \/ (\E j \in Jobs : PassOver(j) \/ LoadForCron(j)) \/ EndRound
  PROVE  IInv'
<1>1. TablesOK /\ TasksOK
  BY Halves
<1>2. UNCHANGED <<now, file, job, runs, request, requests, edits, faults>>
  BY DEF Select, ReadClock, PassOver, LoadForCron, EndRound, counts
<1>3. now \in Times /\ now <= now /\ round.left \subseteq Jobs
  BY <1>1, Bounds DEF TasksOK, Times
<1>4. CASE Select
  <2>1. /\ round'.at = "selected" /\ round'.left = {j \in Jobs : job[j].enabled /\ job[j].cron}
        /\ \A j \in Jobs : round'.last[j] = job[j].last
    BY <1>4 DEF Select
  <2>2. RoundKnows'
    BY <1>1, <1>2, <2>1 DEF RoundKnows, TablesOK, RowsTell
  <2> QED BY <1>1, <1>2, <2>1, <2>2, RoundMoves DEF TasksOK
<1>5. CASE ReadClock
  <2>1. /\ round.at = "selected" /\ round'.at = "walking" /\ round'.left = round.left
        /\ round'.last = round.last /\ round'.now = now
    BY <1>5 DEF ReadClock
  <2>2. RoundKnows'
    BY <1>1, <1>2, <1>3, <2>1 DEF RoundKnows, TasksOK
  <2> QED BY <1>1, <1>2, <1>3, <2>1, <2>2, RoundMoves DEF TasksOK
<1>6. ASSUME NEW j \in Jobs, PassOver(j) PROVE IInv'
  <2>1. /\ round.at = "walking" /\ round'.left = round.left \ {j}
        /\ round' = [round EXCEPT !.left = @ \ {j}]
    BY <1>6 DEF PassOver
  <2>2. round'.at = "walking" /\ round'.last = round.last /\ round'.now = round.now
    BY <2>1
  <2>3. RoundKnows'
    BY <1>1, <1>2, <2>1, <2>2 DEF RoundKnows, TasksOK
  <2> QED BY <1>1, <1>2, <1>3, <2>1, <2>2, <2>3, RoundMoves DEF TasksOK
<1>7. CASE EndRound
  BY <1>1, <1>2, <1>7, RoundMoves DEF EndRound, Asleep, RoundKnows, TasksOK
<1>8. ASSUME NEW j \in Jobs, LoadForCron(j) PROVE IInv'
  <2>1. /\ round.at = "walking" /\ j \in round.left /\ Passed(j) # {} /\ file[j] \in Versions
        /\ round'.at = "firing" /\ round'.left = round.left /\ round'.last = round.last
        /\ round'.now = round.now /\ round'.job = j /\ round'.version = file[j]
    BY <1>1, <1>8 DEF LoadForCron, TasksOK
  <2>2. Passed(j)' = Passed(j)
    BY <2>1 DEF Passed, Since
  <2>3. RoundKnows'
    BY <1>1, <1>2, <2>1, <2>2 DEF RoundKnows, TasksOK
  <2> QED BY <1>1, <1>2, <1>3, <2>1, <2>3, RoundMoves DEF TasksOK
<1> QED BY <1>4, <1>5, <1>6, <1>7, <1>8

LEMMA FaultsIInv ==
  ASSUME IInv, RoundFails \/ Restart
  PROVE  IInv'
<1>1. TablesOK /\ TasksOK
  BY Halves
<1>2. UNCHANGED <<now, file, job, runs, requests, edits>> /\ round' = Asleep
  BY DEF RoundFails, Restart
<1>3. request' = request \/ request' = Nothing
  BY DEF RoundFails, Restart, Answer
<1>4. faults' \in 0..MaxFaults
  BY <1>1, Bounds DEF RoundFails, Restart, TasksOK
<1> QED BY <1>1, <1>2, <1>3, <1>4, RoundMoves DEF Asleep, RoundKnows

(* Among scheduled times that have passed there is a first. *)
LEMMA FirstExists ==
  ASSUME NEW S \in SUBSET Nat, S # {}
  PROVE  \E d \in S : \A e \in S : d <= e
<1> DEFINE R == OpToRel(<, Nat)
<1>1. IsWellFoundedOn(R, Nat)
  BY NatLessThanWellFounded
<1>2. \A x, y \in Nat : <<y, x>> \in R <=> y < x
  BY DEF OpToRel
<1> HIDE DEF R
<1>3. PICK d \in S : \A e \in S : ~ (<<e, d>> \in R)
  BY <1>1, WFMin
<1>4. \A e \in S : ~ (e < d)
  BY <1>2, <1>3
<1>5. \A e \in S : d <= e
  BY <1>4
<1> QED BY <1>5

(* The time a run is created for lies between the last cron run of its job *)
(* and the clock of the round, and last_triggered_at catches up with it.   *)
LEMMA DueLater ==
  ASSUME TablesOK, TasksOK, round.at = "firing", NEW j \in round.left, Passed(j) # {}
  PROVE  /\ NextDue(j) \in Due /\ NextDue(j) \in Nat
         /\ NextDue(j) < round.now /\ NextDue(j) <= Seconds(round.now)
         /\ \A i \in CronRuns : runs[i].job = j => runs[i].at < NextDue(j)
<1>1. /\ j \in Jobs /\ round.last[j] = job[j].last
      /\ round.now \in Nat /\ job[j].last \in Nat \cup {Never}
  BY Bounds DEF TasksOK, RoundKnows, TablesOK, Row, Times
<1>2. Passed(j) \in SUBSET Nat
  BY Bounds DEF Passed
<1>3. NextDue(j) \in Passed(j)
  BY <1>2, FirstExists DEF NextDue
<1>4. NextDue(j) \in Due /\ NextDue(j) \in Nat /\ Since(j) < NextDue(j) /\ NextDue(j) < round.now
  BY <1>2, <1>3 DEF Passed
<1>5. PICK s \in Nat : NextDue(j) = 2 * s
  BY <1>4, Bounds
<1>6. NextDue(j) <= Seconds(round.now)
  <2>1. \A t \in Nat : 2 * s <= t => 2 * s <= Seconds(t)
    BY WholeSeconds
  <2>2. 2 * s <= round.now
    BY <1>1, <1>4, <1>5
  <2> QED BY <1>1, <1>5, <2>1, <2>2
<1>7. ASSUME NEW i \in CronRuns, runs[i].job = j
      PROVE  runs[i].at < NextDue(j)
  <2>1. runs[i].at \in Nat
    BY RecordFields, Bounds DEF CronRuns, TablesOK, Times
  <2>2. Seconds(runs[i].at) <= job[j].last /\ Seconds(runs[i].at) \in Nat
    BY <1>7, <2>1, WholeSeconds DEF TablesOK, RowsTell
  <2>3. job[j].last # Never
    BY <1>1, <2>2 DEF Never
  <2>4. Seconds(runs[i].at) < NextDue(j)
    BY <1>1, <1>4, <2>2, <2>3 DEF Since
  <2> QED BY <1>5, <2>1, <2>4, WholeSeconds
<1> QED BY <1>4, <1>6, <1>7

LEMMA FireIInv ==
  ASSUME IInv, Fire
  PROVE  IInv'
<1>1. TablesOK /\ TasksOK
  BY Halves
<1> DEFINE j == round.job
           r == [job |-> j, trigger |-> "cron", param |-> "absent", version |-> round.version,
                 due |-> NextDue(j), at |-> round.now]
<1>2. /\ UNCHANGED <<now, file, request, requests, edits, faults>>
      /\ round.at = "firing" /\ j \in round.left /\ j \in Jobs
      /\ Passed(j) # {} /\ round.version \in Versions
      /\ runs' = Append(runs, r)
      /\ job' = [job EXCEPT ![j].last = Seconds(round.now)]
      /\ round' = [at |-> "walking", left |-> round.left \ {j}, last |-> round.last, now |-> round.now]
  BY <1>1 DEF Fire, counts, TasksOK, RoundKnows
<1>3. /\ NextDue(j) \in Due /\ NextDue(j) \in Nat
      /\ NextDue(j) < round.now /\ NextDue(j) <= Seconds(round.now)
      /\ \A i \in CronRuns : runs[i].job = j => runs[i].at < NextDue(j)
  BY <1>1, <1>2, DueLater
<1>4. /\ job[j].known /\ round.now \in Times /\ round.now \in Nat /\ round.now <= now /\ now \in Nat
  BY <1>1, <1>2, Bounds DEF TasksOK, RoundKnows, Times
<1>5. r \in Records /\ r.job = j /\ r.trigger = "cron" /\ r.due = NextDue(j) /\ r.at = round.now
  BY <1>2, <1>3, <1>4 DEF Records, Values
<1> HIDE DEF r, j
<1>6. runs \in Seq(Records)
  BY <1>1 DEF TablesOK
<1>7. /\ runs' \in Seq(Records)
      /\ DOMAIN runs = 1..Len(runs) /\ Len(runs) \in Nat
      /\ DOMAIN runs' = 1..(Len(runs) + 1)
      /\ \A i \in DOMAIN runs : i \in DOMAIN runs' /\ runs'[i] = runs[i]
      /\ runs'[Len(runs) + 1] = r
  BY <1>2, <1>5, <1>6, Appended
<1>8. /\ Seconds(round.now) \in Nat /\ Seconds(round.now) <= round.now
      /\ Seconds(round.now) \in Times
  <2>1. \A t \in Nat : Seconds(t) \in Nat /\ Seconds(t) <= t
    BY WholeSeconds
  <2> QED BY <1>4, <2>1, Bounds DEF Times
<1>9. /\ \A k \in Jobs : /\ job[k].known => job'[k].known
                         /\ job'[k].enabled => job[k].enabled
                         /\ k # j => job'[k].last = job[k].last
      /\ job'[j].last = Seconds(round.now)
  BY <1>1, <1>2, <1>8 DEF TablesOK, Row
<1>10. job' \in [Jobs -> Row]
  BY <1>1, <1>2, <1>8 DEF TablesOK, Row
<1>11. \A i \in DOMAIN runs : runs[i] \in Records /\ runs[i].job \in Jobs
  BY <1>6, RecordFields
<1>12. CronRuns' = CronRuns \cup {Len(runs) + 1}
  BY <1>5, <1>7 DEF CronRuns
<1>13. RowsTell'
  <2>1. ASSUME NEW k \in Jobs
        PROVE  job'[k].last <= now' /\ (job'[k].enabled => job'[k].known)
    BY <1>1, <1>2, <1>4, <1>8, <1>9 DEF TablesOK, RowsTell
  <2>2. ASSUME NEW i \in CronRuns
        PROVE  runs[i].at <= now /\ Seconds(runs[i].at) <= job'[runs[i].job].last
    <3>1. runs[i].at <= now /\ Seconds(runs[i].at) <= job[runs[i].job].last
      BY <1>1 DEF TablesOK, RowsTell
    <3>2. runs[i].at \in Nat
      BY <1>11, RecordFields, Bounds DEF CronRuns, Times
    <3>3. CASE runs[i].job = j
      <4>1. runs[i].at < NextDue(j)
        BY <1>3, <3>3
      <4>2. Seconds(runs[i].at) \in Nat /\ Seconds(runs[i].at) <= runs[i].at
        BY <3>2, WholeSeconds
      <4> QED BY <1>3, <1>8, <1>9, <3>1, <3>2, <3>3, <4>1, <4>2
    <3>4. CASE runs[i].job # j
      <4>1. runs[i].job \in Jobs
        BY <1>11 DEF CronRuns
      <4>2. job'[runs[i].job].last = job[runs[i].job].last
        BY <1>9, <3>4, <4>1
      <4> QED BY <3>1, <4>2
    <3> QED BY <3>3, <3>4
  <2>3. ASSUME NEW i \in CronRuns'
        PROVE  runs'[i].at <= now' /\ Seconds(runs'[i].at) <= job'[runs'[i].job].last
    <3>1. CASE i \in CronRuns
      BY <1>2, <1>7, <2>2, <3>1 DEF CronRuns
    <3>2. CASE i = Len(runs) + 1
      BY <1>2, <1>4, <1>5, <1>7, <1>8, <1>9, <3>2
    <3> QED BY <1>12, <3>1, <3>2
  <2> QED BY <2>1, <2>3 DEF RowsTell, Seconds
<1>14. CronOnce'
  <2>1. \A i \in CronRuns :
          /\ i \in DOMAIN runs /\ runs[i].due < runs[i].at
          /\ \A k \in CronRuns : i < k /\ runs[i].job = runs[k].job => runs[i].at < runs[k].due
    BY <1>1 DEF TablesOK, CronOnce, CronRuns
  <2>2. ASSUME NEW i \in CronRuns' PROVE runs'[i].due < runs'[i].at
    BY <1>3, <1>5, <1>7, <1>12, <2>1
  <2>3. ASSUME NEW i \in CronRuns', NEW k \in CronRuns', i < k, runs'[i].job = runs'[k].job
        PROVE  runs'[i].at < runs'[k].due
    <3>1. CASE k \in CronRuns
      BY <1>7, <1>12, <2>1, <2>3, <3>1
    <3>2. CASE k = Len(runs) + 1
      <4>1. i \in CronRuns
        BY <1>7, <1>12, <2>3, <3>2
      <4> QED BY <1>3, <1>5, <1>7, <2>1, <2>3, <3>2, <4>1
    <3> QED BY <1>12, <3>1, <3>2
  <2> QED BY <2>2, <2>3 DEF CronOnce
<1>15. RequestsValidated'
  BY <1>1, <1>5, <1>7 DEF TablesOK, RequestsValidated, Validated
<1>16. \A i \in DOMAIN runs' :
         /\ job'[runs'[i].job].known
         /\ runs'[i].trigger = "rerun" => runs'[i].of \in 1..(i - 1)
  <2>1. ASSUME NEW i \in DOMAIN runs
        PROVE  /\ job'[runs'[i].job].known
               /\ runs'[i].trigger = "rerun" => runs'[i].of \in 1..(i - 1)
    BY <1>1, <1>7, <1>9, <1>11 DEF TablesOK
  <2>2. job'[r.job].known /\ r.trigger # "rerun"
    BY <1>2, <1>4, <1>5, <1>9
  <2> QED BY <1>7, <2>1, <2>2
<1>17. HandlerKnows'
  <2>1. request.at = "repeating" => request.of \in DOMAIN runs'
    BY <1>1, <1>7 DEF TasksOK, HandlerKnows
  <2>2. request.at = "loading" => request.job \in Jobs /\ job'[request.job].known
    BY <1>1, <1>9 DEF TasksOK, HandlerKnows
  <2>3. request.at = "inserting" => job'[request.run.job].known
    BY <1>1, <1>9, RecordFields DEF TasksOK, HandlerKnows
  <2> QED BY <1>1, <1>2, <2>1, <2>2, <2>3 DEF TasksOK, HandlerKnows, Validated
<1>18. RoundKnows'
  <2>1. /\ round'.left = round.left \ {j} /\ round'.at = "walking"
        /\ round'.last = round.last /\ round'.now = round.now
    BY <1>2
  <2> QED BY <1>1, <1>2, <1>9, <2>1 DEF TasksOK, RoundKnows
<1>19. round'.at = "walking" /\ round'.left \subseteq Jobs
  BY <1>1, <1>2 DEF TasksOK
<1>20. TasksOK'
  BY <1>1, <1>2, <1>17, <1>18, <1>19 DEF TasksOK
<1>21. TablesOK'
  BY <1>7, <1>10, <1>9, <1>13, <1>14, <1>15, <1>16 DEF TablesOK
<1> QED BY <1>20, <1>21, HalvesNext

LEMMA NextIInv == IInv /\ [Next]_vars => IInv'
<1> SUFFICES ASSUME IInv, [Next]_vars PROVE IInv'
  OBVIOUS
<1>1. CASE Tick \/ \E j \in Jobs : Edit(j)
  BY <1>1, OutsideIInv
<1>2. CASE Request
  <2>1. ASSUME NEW j \in Jobs, NEW enabled \in BOOLEAN, Register(j, enabled) PROVE IInv'
    BY <2>1, RegisterIInv
  <2>2. ASSUME NEW j \in Jobs, NEW trigger \in {"manual", "webhook"}, NEW sent \in BOOLEAN,
               Start(j, trigger, sent)
        PROVE  IInv'
    BY <2>2, StartIInv
  <2>3. ASSUME NEW i \in DOMAIN runs, Rerun(i) PROVE IInv'
    BY <2>3, RerunIInv
  <2>4. CASE LoadForRow \/ Upsert \/ LoadForRun \/ Insert \/ InsertRerun
    BY <2>4, LoadForRowIInv, UpsertIInv, LoadForRunIInv, InsertIInv
  <2> QED BY <1>2, <2>1, <2>2, <2>3, <2>4 DEF Request
<1>3. CASE Cron
  BY <1>3, FireIInv, RoundReadsIInv DEF Cron
<1>4. CASE RoundFails \/ Restart
  BY <1>4, FaultsIInv
<1>5. CASE UNCHANGED vars
  <2>1. UNCHANGED <<now, file, job, runs, request, round, requests, edits, faults>>
    BY <1>5 DEF vars, counts
  <2>2. TablesOK /\ TasksOK /\ RoundKnows
    BY Halves DEF TasksOK
  <2>3. RoundKnows'
    BY <2>1, <2>2 DEF RoundKnows, Passed, Since
  <2> QED BY <2>1, <2>2, <2>3, RoundMoves DEF TasksOK
<1> QED BY <1>1, <1>2, <1>3, <1>4, <1>5 DEF Next

-----------------------------------------------------------------------------
(* The invariant of everything below: what a handler carries between two   *)
(* accesses is still what the tables allow, and the rows of the jobs know  *)
(* every cron run (Spec).                                                  *)
THEOREM TriggerInvariance == Spec => []IInv
<1>1. IInv /\ [Next]_vars => IInv'
  BY NextIInv
<1> QED BY InitIInv, <1>1, PTL DEF Spec

(* Every row holds what its columns may hold; a run belongs to a           *)
(* registered job, and a repeated run to an earlier one.                   *)
THEOREM TriggerTypes == Spec => []TypeOK
BY TriggerInvariance, PTL DEF IInv

(* A scheduled time gives at most one run, however often the job is        *)
(* registered again and whatever fails in between (check_cron_triggers).   *)
THEOREM ScheduledOnce == Spec => []CronOnce
BY TriggerInvariance, PTL DEF IInv

(* A client's run is one the file it was decided on allows, with the       *)
(* parameter it asks for (start_run, webhook_trigger).                     *)
THEOREM ValidatedRuns == Spec => []RequestsValidated
BY TriggerInvariance, PTL DEF IInv
=============================================================================
