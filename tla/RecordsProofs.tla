---------------------------- MODULE RecordsProofs ----------------------------
(***************************************************************************)
(* For any tasks, local and remote, and any faults: the events beside the  *)
(* rows of nodes tell how they ended, and the artifacts listed are those   *)
(* that were found and kept.                                               *)
(***************************************************************************)
EXTENDS NodeTasksProofs

Rows(t) == {a \in artifacts : a.task = t}
Late == {"reporting", "recording", "listing", "done"}

-----------------------------------------------------------------------------
(* What one step can disturb. *)

LEMMA CopiesRemembered ==
  ASSUME TypeOK, NEW t \in Tasks, NEW k \in Faults, Fault(k, t)
  PROVE  /\ Suffered("copy") \subseteq Suffered("copy")'
         /\ k = "copy" => t \in Suffered("copy")'
<1> DEFINE h == [hits[t] EXCEPT ![k] = @ + 1]
<1>1. hits' = [hits EXCEPT ![t] = h] /\ hits \in [Tasks -> [Faults -> Nat]]
  BY DEF Fault, TypeOK
<1>2. \A j \in Faults : h[j] = IF j = k THEN hits[t][j] + 1 ELSE hits[t][j]
  BY <1>1
<1> HIDE DEF h
<1>3. hits'[t] = h /\ \A u \in Tasks \ {t} : hits'[u] = hits[u]
  BY <1>1
<1>4. "copy" \in Faults /\ hits[t]["copy"] \in Nat
  BY <1>1 DEF Faults
<1>5. hits[t]["copy"] > 0 \/ k = "copy" => hits'[t]["copy"] > 0
  BY <1>2, <1>3, <1>4
<1>6. \A u \in Tasks : hits[u]["copy"] > 0 => hits'[u]["copy"] > 0
  BY <1>3, <1>5
<1>7. Suffered("copy") = {u \in Tasks : hits[u]["copy"] > 0}
      /\ Suffered("copy")' = {u \in Tasks : hits'[u]["copy"] > 0}
  BY DEF Suffered
<1> QED BY <1>5, <1>6, <1>7

(* A task whose records stay, while its process keeps its outcome. *)
LEMMA RecordsStay ==
  ASSUME NEW u \in Tasks, EventFits(u), ArtifactFits(u),
         events'[u] = events[u], work'[u] = work[u], nodeStatus'[u] = nodeStatus[u],
         proc'[u].outcome = proc[u].outcome, Rows(u)' = Rows(u), stored \subseteq stored',
         Suffered("copy") \subseteq Suffered("copy")'
  PROVE  EventFits(u)' /\ ArtifactFits(u)'
<1>1. \A P : At(u, P)' = At(u, P)
  BY DEF At
<1>2. EventFits(u)'
  BY <1>1 DEF EventFits, Untold, Tale
<1>3. Outputs(u)' = Outputs(u)
  BY DEF Outputs
<1>4. ArtifactFits(u)'
  BY <1>1, <1>3 DEF ArtifactFits, Rows
<1> QED BY <1>2, <1>4

LEMMA OneTask ==
  ASSUME RecordsInv, NEW t \in Tasks, EventFits(t)', ArtifactFits(t)',
         \A u \in Tasks \ {t} :
           /\ events'[u] = events[u] /\ work'[u] = work[u] /\ nodeStatus'[u] = nodeStatus[u]
           /\ proc'[u] = proc[u] /\ Rows(u)' = Rows(u),
         stored \subseteq stored', Suffered("copy") \subseteq Suffered("copy")'
  PROVE  RecordsInv'
<1>1. ASSUME NEW u \in Tasks \ {t} PROVE EventFits(u)' /\ ArtifactFits(u)'
  BY RecordsStay DEF RecordsInv
<1> QED BY <1>1 DEF RecordsInv

(* Nothing is told of a node, though its worker goes on. *)
Passes(t) ==
  LET at == work[t].at
      to == work'[t].at
  IN  /\ \/ at = "idle" /\ to = IF t \in Remote THEN "loading" ELSE "picked"
         \/ at = "picked" /\ to \in {"idle", "marked"}
         \/ at = "loading" /\ to = IF t \in Remote THEN "picked" ELSE "running"
         \/ at \in {"running", "numbering", "storing"} /\ to \in {"numbering", "storing", "checking"}
         \/ at = "checking" /\ to = "reporting" /\ ~Outputs(t)
         \/ at = "reporting" /\ to = "recording" /\ nodeStatus'[t] = work'[t].report
         \/ at \notin {"idle", "loading", "picked", "uploading", "lost"} /\ to = "lost"
      /\ work'[t].retry = work[t].retry

(* Its report is repeated. *)
Repeats(t) ==
  /\ work[t].at \in {"numbering", "storing", "reporting", "recording", "listing"}
  /\ work'[t].at = "reporting" /\ work'[t].retry

LEMMA PassEvents ==
  ASSUME NEW t \in Tasks, EventFits(t), events'[t] = events[t], Passes(t) \/ Repeats(t)
  PROVE  EventFits(t)'
<1>1. Tale(t)' = Tale(t)
  BY DEF Tale
<1>2. CASE Passes(t)
  BY <1>1, <1>2 DEF EventFits, Passes, At, Untold
<1>3. CASE Repeats(t)
  BY <1>1, <1>3 DEF EventFits, Repeats, At, Untold
<1> QED BY <1>2, <1>3

LEMMA PassArtifacts ==
  ASSUME NEW t \in Tasks, ArtifactFits(t), Rows(t)' = Rows(t), stored' = stored,
         proc'[t].outcome = proc[t].outcome, work'[t].made = work[t].made,
         work'[t].known = work[t].known \/ work[t].at = "loading",
         Suffered("copy") \subseteq Suffered("copy")', Passes(t) \/ Repeats(t)
  PROVE  ArtifactFits(t)'
<1>1. work[t].at # "loading" => Outputs(t)' = Outputs(t)
  BY DEF Outputs
<1>2. CASE Passes(t)
  BY <1>1, <1>2 DEF ArtifactFits, Passes, At, Rows, Local
<1>3. CASE Repeats(t)
  BY <1>1, <1>3 DEF ArtifactFits, Repeats, At, Rows, Local
<1> QED BY <1>2, <1>3

-----------------------------------------------------------------------------
(* Step by step. *)

LEMMA PassRecords ==
  ASSUME IInv, RecordsInv, NEW t \in Tasks, UNCHANGED <<proc, events, artifacts, stored>>,
         \A u \in Tasks \ {t} : work'[u] = work[u] /\ nodeStatus'[u] = nodeStatus[u],
         work'[t].made = work[t].made, work'[t].known = work[t].known \/ work[t].at = "loading",
         Suffered("copy") \subseteq Suffered("copy")', Passes(t) \/ Repeats(t)
  PROVE  RecordsInv'
<1>1. \A u \in Tasks : Rows(u)' = Rows(u)
  BY DEF Rows
<1>2. EventFits(t)'
  BY PassEvents DEF RecordsInv
<1>3. ArtifactFits(t)'
  BY <1>1, PassArtifacts DEF RecordsInv
<1> QED BY <1>1, <1>2, <1>3, OneTask

(* The steps that tell and list nothing. *)
LEMMA SilentRecords ==
  ASSUME IInv, RecordsInv, NEW t \in Tasks,
         \/ Pick(t) \/ MarkRunning(t) \/ LoadOutputs(t) \/ Return(t)
         \/ ReadSequence(t) \/ StoreLine(t) \/ LogStored(t) \/ NothingToCheck(t) \/ WriteOutcome(t)
  PROVE  RecordsInv'
<1>1. UNCHANGED <<proc, events, artifacts, stored>>
  BY DEF Pick, MarkRunning, LoadOutputs, Return, ReadSequence, StoreLine, LogStored, NothingToCheck,
         WriteOutcome, tables
<1>2. \A u \in Tasks \ {t} : nodeStatus'[u] = nodeStatus[u]
  BY DEF Pick, MarkRunning, LoadOutputs, Return, ReadSequence, StoreLine, LogStored, NothingToCheck,
         WriteOutcome, tables, SetNode, IInv, TypeOK
<1>3. Suffered("copy") \subseteq Suffered("copy")'
  <2>1. CASE hits' = hits
    BY <2>1 DEF Suffered
  <2>2. CASE Fault("definition", t)
    BY <2>2, CopiesRemembered DEF Faults, IInv
  <2> QED
    BY <2>1, <2>2 DEF Pick, MarkRunning, LoadOutputs, Return, ReadSequence, StoreLine, LogStored,
                      NothingToCheck, WriteOutcome
<1>4. TypeOK /\ work[t] \in Worker
  BY Fields DEF IInv
<1>5. ASSUME NEW w, Goes(t, w), w.made = work[t].made,
             w.known = work[t].known \/ work[t].at = "loading", Passes(t) \/ work'[t] # w
      PROVE  RecordsInv'
  BY <1>1, <1>2, <1>3, <1>4, <1>5, Went, PassRecords
<1>6. ASSUME NEW p \in Positions, GoesTo(t, p), Passes(t) \/ ~(work'[t].at = p /\ work'[t].retry = work[t].retry)
      PROVE  RecordsInv'
  BY <1>1, <1>2, <1>3, <1>4, <1>6, Moved, PassRecords
<1>7. CASE Pick(t) \/ MarkRunning(t) \/ LogStored(t) \/ NothingToCheck(t)
  <2>1. PICK p \in {"loading", "picked", "marked", "checking", "reporting"} :
          GoesTo(t, p) /\ (work'[t].at = p /\ work'[t].retry = work[t].retry => Passes(t))
    BY <1>7 DEF Pick, MarkRunning, LogStored, NothingToCheck, At, Passes
  <2> QED BY <1>6, <2>1 DEF Positions
<1>8. CASE WriteOutcome(t)
  <2>1. GoesTo(t, "recording") /\ work[t].at = "reporting" /\ nodeStatus'[t] = work[t].report
    BY <1>4, <1>8 DEF WriteOutcome, At, SetNode, TypeOK
  <2>2. work'[t].report = work[t].report
    BY <1>4, <2>1, Moved DEF Positions
  <2>3. work'[t].at = "recording" /\ work'[t].retry = work[t].retry => Passes(t)
    BY <2>1, <2>2 DEF Passes
  <2> QED BY <1>6, <2>1, <2>3 DEF Positions
<1>9. CASE LoadOutputs(t)
  <2> DEFINE p == IF t \in Remote THEN "picked" ELSE "running"
  <2>1. PICK k : Goes(t, [work[t] EXCEPT !.at = p, !.known = k])
    BY <1>9 DEF LoadOutputs
  <2> DEFINE w == [work[t] EXCEPT !.at = p, !.known = k]
  <2>2. /\ work[t].at = "loading"
        /\ work'[t].at = p /\ work'[t].retry = work[t].retry => Passes(t)
    BY <1>9 DEF LoadOutputs, At, Passes
  <2>3. w.at = p /\ w.retry = work[t].retry /\ w.made = work[t].made
    BY <1>4 DEF Worker
  <2>4. Goes(t, w)
    BY <2>1
  <2> HIDE DEF p, w
  <2> QED BY <1>5, <2>2, <2>3, <2>4
<1>10. CASE Return(t)
  <2> DEFINE p == IF t \in Local \/ proc[t].wrote # {} THEN "numbering" ELSE "checking"
             w == [work[t] EXCEPT !.at = p, !.left = proc[t].wrote, !.report = proc[t].outcome]
  <2>1. (work'[t].at = p /\ work'[t].retry = work[t].retry => Passes(t)) /\ Goes(t, w)
    BY <1>10 DEF Return, At, Passes
  <2>2. w.at = p /\ w.retry = work[t].retry /\ w.made = work[t].made /\ w.known = work[t].known
    BY <1>4 DEF Worker
  <2> HIDE DEF p, w
  <2> QED BY <1>5, <2>1, <2>2
<1>11. CASE ReadSequence(t)
  <2> DEFINE w == [work[t] EXCEPT !.at = "storing", !.next = LastNumber]
  <2>1. (work'[t].at = "storing" /\ work'[t].retry = work[t].retry => Passes(t)) /\ Goes(t, w)
    BY <1>11 DEF ReadSequence, At, Passes
  <2>2. w.at = "storing" /\ w.retry = work[t].retry /\ w.made = work[t].made /\ w.known = work[t].known
    BY <1>4 DEF Worker
  <2> HIDE DEF w
  <2> QED BY <1>5, <2>1, <2>2
<1>12. CASE StoreLine(t)
  <2>1. PICK s : Goes(t, [work[t] EXCEPT !.next = @ + 1, !.left = @ \ {s}])
    BY <1>12 DEF StoreLine
  <2> DEFINE w == [work[t] EXCEPT !.next = @ + 1, !.left = @ \ {s}]
  <2>2. w.at = work[t].at /\ w.retry = work[t].retry /\ w.made = work[t].made /\ w.known = work[t].known
    BY <1>4 DEF Worker
  <2>3. work'[t].at = work[t].at /\ work'[t].retry = work[t].retry => Passes(t)
    BY <1>12 DEF StoreLine, At, Passes
  <2>4. Goes(t, w)
    BY <2>1
  <2> HIDE DEF w
  <2> QED BY <1>5, <2>2, <2>3, <2>4
<1> QED BY <1>7, <1>8, <1>9, <1>10, <1>11, <1>12

LEMMA FailedRecords ==
  ASSUME IInv, RecordsInv, NEW t \in Tasks, DatabaseError(t)
  PROVE  RecordsInv'
<1>1. /\ UNCHANGED <<proc, events, artifacts, stored, nodeStatus>> /\ Fault("database", t)
      /\ TypeOK /\ work[t] \in Worker
      /\ work[t].at \in {"picked", "marked", "numbering", "storing", "inserting", "reporting", "recording", "listing"}
      /\ work[t].at = "inserting" => t \in Local
  BY Fields DEF DatabaseError, Queries, tables, At, IInv, RecordsInv, ArtifactFits
<1>2. Suffered("copy") \subseteq Suffered("copy")'
  BY <1>1, CopiesRemembered DEF Faults
<1>3. CASE \E p \in {"idle", "lost"} : GoesTo(t, p) /\ (p = "idle" <=> work[t].at = "picked")
  <2>1. PICK p \in {"idle", "lost"} : GoesTo(t, p) /\ (p = "idle" <=> work[t].at = "picked")
    BY <1>3
  <2>2. /\ work'[t].at = p /\ work'[t].retry = work[t].retry
        /\ work'[t].made = work[t].made /\ work'[t].known = work[t].known
        /\ \A u \in Tasks \ {t} : work'[u] = work[u]
    BY <1>1, <2>1, Moved DEF Positions
  <2>3. Passes(t)
    BY <1>1, <2>1, <2>2 DEF Passes
  <2> QED BY <1>1, <1>2, <2>2, <2>3, PassRecords
<1>4. CASE /\ Goes(t, [work[t] EXCEPT !.at = "reporting", !.report = "failed", !.retry = TRUE])
           /\ Reports(t)
  <2> DEFINE w == [work[t] EXCEPT !.at = "reporting", !.report = "failed", !.retry = TRUE]
  <2>1. w.at = "reporting" /\ w.retry = TRUE /\ w.made = work[t].made /\ w.known = work[t].known
    BY <1>1 DEF Worker
  <2>2. Goes(t, w)
    BY <1>4
  <2> HIDE DEF w
  <2>3. work'[t] = w /\ \A u \in Tasks \ {t} : work'[u] = work[u]
    BY <1>1, <2>2, Went
  <2>4. work[t].at \notin {"picked", "marked", "inserting"}
    BY <1>1, <1>4 DEF Reports, At, Local
  <2>5. Repeats(t)
    BY <1>1, <2>1, <2>3, <2>4 DEF Repeats
  <2> QED BY <1>1, <1>2, <2>1, <2>3, <2>5, PassRecords
<1> QED BY <1>3, <1>4 DEF DatabaseError, At

LEMMA Appended ==
  ASSUME TypeOK, NEW t \in Tasks, NEW from \in NodeStatuses, NEW to \in NodeStatuses, Event(t, from, to)
  PROVE  /\ events[t] \in Seq(NodeStatuses \X NodeStatuses)
         /\ events'[t] = Append(events[t], <<from, to>>)
         /\ Len(events[t]) \in Nat /\ Len(events'[t]) = Len(events[t]) + 1
         /\ \A i \in 1..Len(events[t]) : events'[t][i] = events[t][i]
         /\ events'[t][Len(events'[t])] = <<from, to>>
         /\ \A u \in Tasks \ {t} : events'[u] = events[u]
<1>1. events[t] \in Seq(NodeStatuses \X NodeStatuses) /\ events'[t] = Append(events[t], <<from, to>>)
      /\ \A u \in Tasks \ {t} : events'[u] = events[u]
  BY DEF TypeOK, Event
<1> QED BY <1>1

(* The steps that tell something. *)
LEMMA ToldRecords ==
  ASSUME IInv, RecordsInv, NEW t \in Tasks, RecordPicked(t) \/ RecordOutcome(t)
  PROVE  RecordsInv'
<1>1. /\ UNCHANGED <<proc, nodeStatus, artifacts, stored, hits>>
      /\ TypeOK /\ EventFits(t) /\ ArtifactFits(t) /\ TaskFits(t)
      /\ Suffered("copy")' = Suffered("copy") /\ \A u \in Tasks : Rows(u)' = Rows(u)
  BY DEF RecordPicked, RecordOutcome, IInv, RecordsInv, Suffered, Rows
<1>2. CASE RecordPicked(t)
  <2> DEFINE p == IF t \in Remote THEN "running" ELSE "loading"
  <2>1. work[t].at = "marked" /\ GoesTo(t, p) /\ p \in Positions /\ Event(t, "queued", "running")
    BY <1>2 DEF RecordPicked, At, Positions
  <2>2. /\ work'[t].at = p /\ work'[t].retry = work[t].retry /\ work'[t].made = work[t].made
        /\ \A u \in Tasks \ {t} : work'[u] = work[u]
    BY <1>1, <2>1, Moved
  <2>3. "queued" \in NodeStatuses /\ "running" \in NodeStatuses
    BY DEF NodeStatuses
  <2>4. events[t] = <<>>
    BY <1>1, <2>1 DEF EventFits, Untold, At
  <2>5. Len(events'[t]) = 1 /\ events'[t][1] = <<"queued", "running">>
        /\ \A u \in Tasks \ {t} : events'[u] = events[u]
    <3>1. Len(events[t]) = 0
      BY <2>4
    <3>2. /\ Len(events'[t]) = Len(events[t]) + 1
          /\ events'[t][Len(events'[t])] = <<"queued", "running">>
          /\ \A u \in Tasks \ {t} : events'[u] = events[u]
      BY <1>1, <2>1, <2>3, Appended
    <3> QED BY <3>1, <3>2
  <2>6. EventFits(t)'
    BY <2>2, <2>5 DEF EventFits, Untold, Tale, At
  <2>7. ArtifactFits(t)'
    BY <1>1, <2>1, <2>2 DEF ArtifactFits, At, Rows
  <2> QED BY <1>1, <2>2, <2>5, <2>6, <2>7, OneTask
<1>3. CASE RecordOutcome(t)
  <2> DEFINE p == IF t \in Remote THEN "listing" ELSE "done"
             o == work[t].report
  <2>1. work[t].at = "recording" /\ GoesTo(t, p) /\ p \in Positions /\ Event(t, "running", o)
    BY <1>3 DEF RecordOutcome, At, Positions
  <2>2. /\ work'[t].at = p /\ work'[t].retry = work[t].retry /\ work'[t].made = work[t].made
        /\ work'[t].known = work[t].known
        /\ \A u \in Tasks \ {t} : work'[u] = work[u]
    BY <1>1, <2>1, Moved
  <2>3. o \in NodeReported /\ o \in NodeTerminal /\ o \in NodeStatuses /\ "running" \in NodeStatuses
    BY <1>1, <2>1, OpenStatuses DEF TaskFits, At, Positions
  <2>4. Tale(t) /\ nodeStatus[t] = o /\ (~work[t].retry => Len(events[t]) = 1)
    BY <1>1, <2>1 DEF EventFits, Untold, At
  <2>5. /\ Len(events[t]) \in Nat /\ Len(events'[t]) = Len(events[t]) + 1
        /\ \A i \in 1..Len(events[t]) : events'[t][i] = events[t][i]
        /\ events'[t][Len(events'[t])] = <<"running", o>>
        /\ \A u \in Tasks \ {t} : events'[u] = events[u]
    BY <1>1, <2>1, <2>3, Appended
  <2>6. Tale(t)'
    <3> DEFINE m == Len(events[t])
               told == events'[t]
    <3>1. m >= 1 /\ events[t][1] = <<"queued", "running">>
          /\ \A i \in 2..m : events[t][i][1] = "running" /\ events[t][i][2] \in NodeTerminal
      BY <2>4 DEF Tale
    <3>2. m \in Nat /\ Len(told) = m + 1 /\ told[m + 1] = <<"running", o>>
          /\ \A i \in 1..m : told[i] = events[t][i]
      BY <2>5
    <3> HIDE DEF m, told
    <3>3. told[1] = <<"queued", "running">>
      BY <3>1, <3>2
    <3>4. ASSUME NEW i \in 2..Len(told) PROVE told[i][1] = "running" /\ told[i][2] \in NodeTerminal
      <4>1. CASE i = m + 1
        BY <2>3, <3>2, <4>1
      <4>2. CASE i # m + 1
        <5>1. i \in 2..m /\ i \in 1..m
          BY <3>2, <4>2
        <5> QED BY <3>1, <3>2, <5>1
      <4> QED BY <4>1, <4>2
    <3>5. Len(told) >= 1
      BY <3>1, <3>2
    <3> QED BY <3>3, <3>4, <3>5 DEF Tale, told
  <2>7. Len(events'[t]) >= 2 /\ events'[t][Len(events'[t])][2] = o
    BY <2>4, <2>5 DEF Tale
  <2>8. EventFits(t)'
    BY <1>1, <2>2, <2>4, <2>5, <2>6, <2>7 DEF EventFits, Untold, At
  <2>9. Outputs(t)' = Outputs(t)
    BY <1>1, <2>2 DEF Outputs
  <2>10. ArtifactFits(t)'
    BY <1>1, <2>1, <2>2, <2>9 DEF ArtifactFits, At, Rows, Local
  <2> QED BY <1>1, <2>2, <2>5, <2>8, <2>10, OneTask
<1> QED BY <1>2, <1>3

(* The steps that look for the outputs, keep them and list them. *)
LEMMA ListedRecords ==
  ASSUME IInv, RecordsInv, NEW t \in Tasks,
         CheckLocally(t) \/ InsertArtifact(t) \/ CheckRemotely(t) \/ Upload(t) \/ ListArtifacts(t)
  PROVE  RecordsInv'
<1>1. /\ UNCHANGED <<proc, events, nodeStatus>>
      /\ TypeOK /\ EventFits(t) /\ ArtifactFits(t) /\ TaskFits(t) /\ work[t] \in Worker
  BY Fields DEF CheckLocally, InsertArtifact, CheckRemotely, Upload, ListArtifacts, tables, IInv, RecordsInv
<1>2. stored \subseteq stored' /\ Suffered("copy") \subseteq Suffered("copy")'
  <2>1. hits' = hits \/ Fault("copy", t) \/ Fault("database", t)
    BY DEF CheckLocally, InsertArtifact, CheckRemotely, Upload, ListArtifacts, CopyOutput
  <2>2. Suffered("copy") \subseteq Suffered("copy")'
    BY <1>1, <2>1, CopiesRemembered DEF Faults, Suffered
  <2>3. stored \subseteq stored'
    BY DEF CheckLocally, InsertArtifact, CheckRemotely, Upload, ListArtifacts, CopyOutput, tables
  <2> QED BY <2>2, <2>3
<1>3. \A u \in Tasks \ {t} : Rows(u)' = Rows(u)
  BY DEF Rows, CheckLocally, InsertArtifact, CheckRemotely, Upload, ListArtifacts, tables
<1>4. CASE CheckLocally(t) \/ CheckRemotely(t)
  <2>1. PICK exists \in BOOLEAN, to \in {"inserting", "reporting", "uploading"} :
          /\ Checked(t, exists, to)
          /\ CheckLocally(t) => to = "inserting" /\ CopyOutput(t, exists)
          /\ CheckRemotely(t) => to = IF exists THEN "uploading" ELSE "reporting"
    <3>1. CASE CheckLocally(t)
      <4>1. t \notin Remote
        BY <3>1 DEF CheckLocally, Local
      <4> QED BY <3>1, <4>1 DEF CheckLocally, CheckRemotely
    <3>2. CASE CheckRemotely(t)
      <4>1. t \notin Local
        BY <3>2 DEF CheckRemotely, Local
      <4>2. PICK exists \in BOOLEAN : Checked(t, exists, IF exists THEN "uploading" ELSE "reporting")
        BY <3>2 DEF CheckRemotely
      <4>3. CASE exists
        BY <4>1, <4>2, <4>3 DEF CheckLocally
      <4>4. CASE ~exists
        BY <4>1, <4>2, <4>4 DEF CheckLocally
      <4> QED BY <4>3, <4>4
    <3> QED BY <1>4, <3>1, <3>2
  <2> DEFINE w == [work[t] EXCEPT !.at = to, !.made = exists, !.report = Verdict(t, exists)]
  <2>2. w.at = to /\ w.retry = work[t].retry /\ w.made = exists /\ w.known = work[t].known
    BY <1>1 DEF Worker
  <2>3. Goes(t, w)
    BY <2>1 DEF Checked
  <2> HIDE DEF w
  <2>4. work'[t] = w /\ \A u \in Tasks \ {t} : work'[u] = work[u]
    BY <1>1, <2>3, Went
  <2>5. work[t].at = "checking" /\ Rows(t) = {}
    BY <1>1, <1>4 DEF CheckLocally, CheckRemotely, At, ArtifactFits, Rows
  <2>6. EventFits(t)'
    BY <1>1, <2>2, <2>4, <2>5 DEF EventFits, Untold, Tale, At
  <2>7. ArtifactFits(t)'
    <3>1. CASE CheckLocally(t)
      <4>1. Rows(t)' = {} /\ t \in Local /\ to = "inserting"
        BY <2>1, <2>5, <3>1 DEF Rows, CheckLocally
      <4>2. exists => t \in stored' \cup Suffered("copy")'
        BY <1>1, <2>1, <3>1, CopiesRemembered DEF CopyOutput, Faults
      <4> QED BY <2>2, <2>4, <4>1, <4>2 DEF ArtifactFits, At, Rows
    <3>2. CASE CheckRemotely(t)
      <4>1. Rows(t)' = {} /\ t \in Remote /\ t \notin Local
        BY <2>5, <3>2 DEF Rows, CheckRemotely, tables, Local
      <4> QED BY <2>1, <2>2, <2>4, <3>2, <4>1 DEF ArtifactFits, At, Rows
    <3> QED BY <1>4, <3>1, <3>2
  <2> QED BY <1>1, <1>2, <1>3, <2>4, <2>6, <2>7, OneTask
<1>5. CASE Upload(t)
  <2>1. work[t].at = "uploading" /\ GoesTo(t, "reporting")
    BY <1>5 DEF Upload, At
  <2>2. /\ work'[t].at = "reporting" /\ work'[t].retry = work[t].retry
        /\ work'[t].made = work[t].made /\ work'[t].known = work[t].known
        /\ \A u \in Tasks \ {t} : work'[u] = work[u]
    BY <1>1, <2>1, Moved DEF Positions
  <2>3. work[t].made /\ Rows(t) = {}
    BY <1>1, <2>1 DEF ArtifactFits, Rows, At
  <2>4. t \in stored' \cup Suffered("copy")'
    BY <1>1, <1>5, CopiesRemembered DEF Upload, Faults
  <2>5. EventFits(t)'
    BY <1>1, <2>1, <2>2 DEF EventFits, Untold, Tale, At
  <2>6. t \in Remote
    BY <1>1, <2>1 DEF ArtifactFits, At
  <2>7. ArtifactFits(t)'
    BY <2>2, <2>3, <2>4, <2>6 DEF ArtifactFits, At, Local
  <2> QED BY <1>1, <1>2, <1>3, <2>2, <2>5, <2>7, OneTask
<1>6. CASE ListArtifacts(t)
  <2> DEFINE a == [task |-> t, by |-> "check", exists |-> work[t].made]
  <2>1. /\ work[t].at = "listing" /\ GoesTo(t, "done") /\ stored' = stored
        /\ Rows(t)' = Rows(t) \cup {b \in {a} : Outputs(t) /\ ~work[t].retry}
    BY <1>6 DEF ListArtifacts, At, Rows
  <2>2. /\ work'[t].at = "done" /\ work'[t].retry = work[t].retry
        /\ work'[t].made = work[t].made /\ work'[t].known = work[t].known
        /\ \A u \in Tasks \ {t} : work'[u] = work[u]
    BY <1>1, <2>1, Moved DEF Positions
  <2>3. EventFits(t)'
    BY <1>1, <2>1, <2>2 DEF EventFits, Untold, Tale, At
  <2>4. Outputs(t)' = Outputs(t)
    BY <1>1, <2>2 DEF Outputs
  <2>5. \A b \in Rows(t)' : b.exists => work[t].made
    BY <1>1, <2>1 DEF ArtifactFits, Rows
  <2>6. ArtifactFits(t)'
    BY <1>1, <1>2, <2>1, <2>2, <2>4, <2>5 DEF ArtifactFits, At, Rows
  <2> QED BY <1>1, <1>2, <1>3, <2>2, <2>3, <2>6, OneTask
<1>7. CASE InsertArtifact(t)
  <2> DEFINE a == [task |-> t, by |-> "check", exists |-> work[t].made]
  <2>1. /\ work[t].at = "inserting" /\ GoesTo(t, "reporting") /\ stored' = stored
        /\ Rows(t)' = Rows(t) \cup {a}
    BY <1>7 DEF InsertArtifact, At, Rows
  <2>2. /\ work'[t].at = "reporting" /\ work'[t].retry = work[t].retry
        /\ work'[t].made = work[t].made /\ work'[t].known = work[t].known
        /\ \A u \in Tasks \ {t} : work'[u] = work[u]
    BY <1>1, <2>1, Moved DEF Positions
  <2>3. Rows(t) = {} /\ (work[t].made => t \in stored \cup Suffered("copy"))
    BY <1>1, <2>1 DEF ArtifactFits, Rows, At
  <2>4. EventFits(t)'
    BY <1>1, <2>1, <2>2 DEF EventFits, Untold, Tale, At
  <2>5. ArtifactFits(t)'
    BY <1>2, <2>1, <2>2, <2>3 DEF ArtifactFits, At, Rows
  <2> QED BY <1>1, <1>2, <1>3, <2>2, <2>4, <2>5, OneTask
<1> QED BY <1>4, <1>5, <1>6, <1>7

(* A grandchild left behind is no failed copy, nor is a child that cannot  *)
(* be asked about.                                                         *)
LEMMA CopiesUndisturbed ==
  ASSUME TypeOK, NEW t \in Tasks,
         hits' = hits \/ Fault("wait", t) \/ \E held \in BOOLEAN : Grandchild(t, held)
  PROVE  Suffered("copy") \subseteq Suffered("copy")'
<1>1. CASE hits' = hits
  BY <1>1 DEF Suffered
<1>2. CASE Fault("grandchild", t) \/ Fault("wait", t)
  BY <1>2, CopiesRemembered DEF Faults
<1> QED BY <1>1, <1>2 DEF Grandchild

(* The scheduler queues a node. *)
LEMMA QueueRecords ==
  ASSUME IInv, RecordsInv, NEW t \in Tasks, Queue(t)
  PROVE  RecordsInv'
<1>1. /\ UNCHANGED <<proc, events, artifacts, stored, work>>
      /\ Suffered("copy")' = Suffered("copy") /\ \A u \in Tasks : Rows(u)' = Rows(u)
      /\ \A u \in Tasks \ {t} : nodeStatus'[u] = nodeStatus[u]
      /\ nodeStatus[t] = "pending" /\ EventFits(t) /\ ArtifactFits(t) /\ TaskFits(t)
  BY DEF Queue, Rows, Suffered, SetNode, IInv, TypeOK, RecordsInv
<1>2. ~At(t, {"recording"})
  BY <1>1, OpenStatuses DEF EventFits, TaskFits, At, Positions
<1>3. ~At(t, {"listing", "done"})
  <2> SUFFICES ASSUME At(t, {"listing", "done"}) PROVE FALSE
    OBVIOUS
  <2>1. /\ Tale(t) /\ Len(events[t]) >= 2
        /\ events[t][Len(events[t])][2] = "pending"
    BY <1>1 DEF EventFits, At, Untold
  <2>2. Len(events[t]) \in Nat
    BY DEF IInv, TypeOK
  <2>3. "pending" \in NodeTerminal
    BY <2>1, <2>2 DEF Tale
  <2> QED BY <2>3, OpenStatuses
<1>4. EventFits(t)'
  BY <1>1, <1>2, <1>3 DEF EventFits, At, Untold, Tale
<1>5. Outputs(t)' = Outputs(t)
  BY <1>1 DEF Outputs
<1>6. ArtifactFits(t)'
  BY <1>1, <1>5 DEF ArtifactFits, At, Rows
<1> QED BY <1>1, <1>4, <1>6, OneTask

(* A call that runs has no outputs yet; one that has ended is over. *)
LEMMA CallRecords ==
  ASSUME IInv, RecordsInv, NEW t \in Tasks, Call(t) \/ Outside(t)
  PROVE  RecordsInv'
<1>1. /\ UNCHANGED <<events, artifacts, stored, work, nodeStatus>>
      /\ TypeOK /\ \A u \in Tasks : Rows(u)' = Rows(u)
      /\ EventFits(t) /\ ArtifactFits(t)
  BY DEF Call, Outside, tables, IInv, RecordsInv, Rows
<1>2. Suffered("copy") \subseteq Suffered("copy")'
  BY <1>1, CopiesUndisturbed DEF Call, Outside
<1>3. EventFits(t)'
  BY <1>1 DEF EventFits, Untold, Tale, At
<1>4. \A u \in Tasks \ {t} : proc'[u] = proc[u]
  <2>1. \E q : Becomes(t, q)
    BY DEF Call, Outside, Spawn, TooLate, TryWait, WaitFails, Sleep, Wake, Drain, Kill, ClosesPipes,
       ChildExits, Release
  <2> QED BY <1>1, <2>1 DEF Becomes, TypeOK, ProcTypeOK
<1>5. ArtifactFits(t)'
  <2>1. CASE Call(t)
    <3>1. work[t].at = "running"
      BY <2>1 DEF Call, At
    <3> QED BY <1>1, <1>2, <3>1 DEF ArtifactFits, At, Rows
  <2>2. CASE Outside(t)
    <3>1. proc[t] \in Process /\ proc \in [Tasks -> Process]
      BY <1>1 DEF TypeOK, ProcTypeOK
    <3>2. PICK q : Becomes(t, q) /\ q.outcome = proc[t].outcome
      <4>1. \A held, how : Gone(t, how, held).outcome = proc[t].outcome
        BY <3>1 DEF Gone, Process
      <4>2. [proc[t] EXCEPT !.held = FALSE].outcome = proc[t].outcome
        BY <3>1 DEF Process
      <4> QED BY <2>2, <4>1, <4>2 DEF Outside, ClosesPipes, ChildExits, Release
    <3>3. proc'[t].outcome = proc[t].outcome
      BY <3>1, <3>2 DEF Becomes
    <3> QED BY <1>1, <1>2, <3>3, RecordsStay
  <2> QED BY <2>1, <2>2
<1> QED BY <1>1, <1>2, <1>3, <1>4, <1>5, OneTask

LEMMA StillRecords ==
  ASSUME RecordsInv, ReadPage \/ UNCHANGED vars
  PROVE  RecordsInv'
<1>1. UNCHANGED <<proc, events, artifacts, stored, work, nodeStatus, hits>>
  BY DEF ReadPage, vars, tables
<1>2. Suffered("copy")' = Suffered("copy") /\ \A u \in Tasks : Rows(u)' = Rows(u)
  BY <1>1 DEF Suffered, Rows
<1> QED BY <1>1, <1>2, RecordsStay DEF RecordsInv

LEMMA NextRecords == IInv /\ RecordsInv /\ [Next]_vars => RecordsInv'
<1> SUFFICES ASSUME IInv, RecordsInv, [Next]_vars PROVE RecordsInv'
  OBVIOUS
<1>1. CASE ReadPage \/ UNCHANGED vars
  BY <1>1, StillRecords
<1>2. ASSUME NEW t \in Tasks, Queue(t) \/ Pick(t) \/ Work(t) \/ Outside(t) \/ DatabaseError(t)
      PROVE  RecordsInv'
  <2>1. CASE Work(t)
    BY <2>1, SilentRecords, ToldRecords, ListedRecords, CallRecords DEF Work
  <2> QED BY <1>2, <2>1, QueueRecords, SilentRecords, CallRecords, FailedRecords
<1> QED BY <1>1, <1>2 DEF Next

LEMMA InitRecords == Init => RecordsInv
<1> SUFFICES ASSUME Init, NEW t \in Tasks PROVE EventFits(t) /\ ArtifactFits(t)
  BY DEF RecordsInv
<1>1. /\ work[t] = Idle /\ events[t] = <<>> /\ artifacts = {}
      /\ work[t].at = "idle" /\ work[t].made = FALSE
  BY DEF Init, Idle
<1> QED BY <1>1 DEF EventFits, ArtifactFits, Untold, At

-----------------------------------------------------------------------------
(* What is told and listed of a node fits how far its worker has come, in  *)
(* every reachable state (pick_local_task, execute_local_task, poll_task,  *)
(* report_result, upload_artifact).                                        *)
THEOREM RecordsInvariance == Spec => []RecordsInv
<1>1. IInv /\ RecordsInv /\ [Next]_vars => RecordsInv'
  BY NextRecords
<1> QED BY <1>1, InitRecords, TaskInvariance, PTL DEF Spec

(* The events of a finished node tell that it was picked and how it ended, *)
(* once unless a report was repeated, and the last one agrees with the row *)
(* (pick_local_task, poll_task, report_result).                            *)
THEOREM EventsAreTold == Spec => []EventsTell
<1>1. IInv /\ RecordsInv => EventsTell
  <2> SUFFICES ASSUME IInv, RecordsInv, NEW t \in Tasks, At(t, {"done"})
               PROVE  LET told == events[t] IN
                      /\ Len(told) >= 2 /\ told[1] = <<"queued", "running">>
                      /\ \A i \in 2..Len(told) : told[i][1] = "running" /\ told[i][2] \in NodeTerminal
                      /\ told[Len(told)][2] = nodeStatus[t]
                      /\ Untouched(t) => Len(told) = 2
    BY DEF EventsTell
  <2>1. EventFits(t) /\ TaskFits(t)
    BY DEF IInv, RecordsInv
  <2>2. Untouched(t) => ~work[t].retry
    BY <2>1 DEF TaskFits
  <2> QED BY <2>1, <2>2 DEF EventFits, Tale, Untold, At
<1> QED BY <1>1, TaskInvariance, RecordsInvariance, PTL

(* The artifacts listed for a finished node are those that were found, and *)
(* one listed as existing was kept unless its copy failed                  *)
(* (execute_local_task, upload_artifact, report_result).                   *)
THEOREM ArtifactsAreListed == Spec => []ArtifactsAgree
<1>1. IInv /\ RecordsInv => ArtifactsAgree
  <2> SUFFICES ASSUME IInv, RecordsInv, NEW t \in Tasks
               PROVE  LET rows == {a \in artifacts : a.task = t} IN
                      /\ At(t, {"done"}) /\ Untouched(t) /\ Outputs(t) =>
                           [task |-> t, by |-> "check", exists |-> work[t].made] \in rows
                      /\ \A a \in rows : a.exists => work[t].made /\ (t \in stored \/ t \in Suffered("copy"))
    BY DEF ArtifactsAgree
  <2>1. ArtifactFits(t) /\ TaskFits(t)
    BY DEF IInv, RecordsInv
  <2>2. Untouched(t) => ~work[t].retry
    BY <2>1 DEF TaskFits
  <2> QED BY <2>1, <2>2 DEF ArtifactFits, At
<1> QED BY <1>1, TaskInvariance, RecordsInvariance, PTL
=============================================================================
