------------------------------ MODULE Triggers -------------------------------
(***************************************************************************)
(* How runs come into being: a client starts one, calls the webhook of its *)
(* job or repeats an earlier run, and the cron loop starts one when a      *)
(* scheduled time of a job has passed.  Jobs are registered anew, enabled  *)
(* and disabled, and their definition files edited, while requests and     *)
(* rounds are under way; each database access and each reading of a file   *)
(* is a step.                                                              *)
(*                                                                         *)
(* Time is counted in half seconds, so that the cut of last_triggered_at   *)
(* to whole seconds shows.                                                 *)
(***************************************************************************)
EXTENDS Integers, Sequences, FiniteSets

CONSTANTS
  Jobs,
  Versions,     \* what a definition file may hold
  AtFirst,      \* what it may hold when the server starts
  Due,          \* the scheduled times of the cron expression
  Lookback,     \* how far a job never triggered looks back (60 seconds)
  MaxTime,      \* bound: the clock stops here
  MaxRequests,  \* bound: how many requests are made
  MaxEdits,     \* bound: how often a file is edited
  MaxFaults     \* bound: how many faults happen

(* `loads` is FALSE for a file JobDefinition::load refuses; `param` is the *)
(* kind of its only parameter, if it has one.                              *)
Params == {"none", "optional", "default", "required"}

ASSUME TriggersAssumption ==
  /\ Versions \subseteq [loads : BOOLEAN, param : Params, webhook : BOOLEAN, cron : BOOLEAN]
  /\ AtFirst \subseteq {v \in Versions : v.loads}
  /\ Due \subseteq {2 * s : s \in 1..MaxTime}
  /\ {Lookback, MaxTime, MaxRequests, MaxEdits, MaxFaults} \subseteq Nat

VARIABLES
  now,        \* the clock
  file,       \* the definition file of each job
  job,        \* job_definitions
  runs,       \* job_runs, in order, with what their creation was decided on
  request,    \* the client's request and what its handler has read
  round,      \* the cron loop: the rows it has selected, the time it took
  requests, edits, faults   \* counted against the bounds

counts == <<requests, edits, faults>>
vars   == <<now, file, job, runs, request, round, counts>>

Never   == -1
Times   == 0..MaxTime
NoJob   == [known |-> FALSE, enabled |-> FALSE, cron |-> FALSE, last |-> Never]
Row     == [known : BOOLEAN, enabled : BOOLEAN, cron : BOOLEAN, last : Times \cup {Never}]
Values  == {"absent", "default", "given"}
Nothing == [at |-> "idle"]
Asleep  == [at |-> "idle", left |-> {}]

TypeOK ==
  /\ now \in Times
  /\ file \in [Jobs -> Versions]
  /\ job \in [Jobs -> Row]
  /\ \A i \in DOMAIN runs :
       /\ runs[i].job \in Jobs /\ job[runs[i].job].known
       /\ runs[i].trigger \in {"manual", "webhook", "rerun", "cron"}
       /\ runs[i].param \in Values
       /\ runs[i].trigger = "rerun" => runs[i].of \in 1..(i - 1)
  /\ request.at \in {"idle", "loading", "inserting", "registering", "upserting", "repeating"}
  /\ round.at \in {"idle", "selected", "walking", "firing"} /\ round.left \subseteq Jobs
  /\ requests \in 0..MaxRequests /\ edits \in 0..MaxEdits /\ faults \in 0..MaxFaults

(* The server starts on what an earlier one has left: jobs may have been   *)
(* registered, and none triggered yet.                                     *)
Init ==
  /\ now = 0
  /\ file \in [Jobs -> AtFirst]
  /\ job \in [Jobs -> Row]
  /\ \A j \in Jobs : job[j] \in {NoJob, [known |-> TRUE, enabled |-> TRUE, cron |-> file[j].cron, last |-> Never]}
  /\ runs = <<>>
  /\ request = Nothing /\ round = Asleep
  /\ requests = 0 /\ edits = 0 /\ faults = 0

-----------------------------------------------------------------------------
(* Not steps of the program: time passes, somebody edits a file. *)

Tick ==
  /\ now < MaxTime
  /\ now' = now + 1
  /\ UNCHANGED <<file, job, runs, request, round, counts>>

Edit(j) ==
  /\ edits < MaxEdits
  /\ edits' = edits + 1
  /\ \E v \in Versions \ {file[j]} : file' = [file EXCEPT ![j] = v]
  /\ UNCHANGED <<now, job, runs, request, round, requests, faults>>

-----------------------------------------------------------------------------
(* register_job: the file is read, then the row is inserted or updated.    *)

Answer == request' = Nothing

Register(j, enabled) ==
  /\ request.at = "idle" /\ requests < MaxRequests
  /\ requests' = requests + 1
  /\ request' = [at |-> "registering", job |-> j, enabled |-> enabled]
  /\ UNCHANGED <<now, file, job, runs, round, edits, faults>>

LoadForRow ==
  /\ request.at = "registering"
  /\ LET v == file[request.job] IN
       IF v.loads
       THEN request' = [at |-> "upserting", job |-> request.job,
                        enabled |-> request.enabled, cron |-> v.cron]
       ELSE Answer
  /\ UNCHANGED <<now, file, job, runs, round, counts>>

(* Mutant: the row is replaced, its last_triggered_at with it. *)
Upserted_Replaces(row) ==
  [known |-> TRUE, enabled |-> request.enabled, cron |-> request.cron, last |-> Never]

(* last_triggered_at is not among the columns that are set. *)
Upserted(row) ==
  [known |-> TRUE, enabled |-> request.enabled, cron |-> request.cron, last |-> row.last]

Upsert ==
  /\ request.at = "upserting"
  /\ job' = [job EXCEPT ![request.job] = Upserted(@)]
  /\ Answer
  /\ UNCHANGED <<now, file, runs, round, counts>>

-----------------------------------------------------------------------------
(* start_run and webhook_trigger: the row, the file, the INSERT. *)

(* Mutant: the job need not be registered. *)
Admitted_Any(j) == TRUE

Admitted(j) == job[j].known /\ job[j].enabled

Start(j, trigger, sent) ==
  /\ request.at = "idle" /\ requests < MaxRequests
  /\ requests' = requests + 1
  /\ IF Admitted(j)
     THEN request' = [at |-> "loading", job |-> j, trigger |-> trigger, sent |-> sent]
     ELSE Answer
  /\ UNCHANGED <<now, file, job, runs, round, edits, faults>>

(* Mutant: a required parameter may be left out. *)
Refused_NotMissing(v) ==
  \/ ~v.loads
  \/ request.trigger = "webhook" /\ ~v.webhook
  \/ request.trigger = "manual" /\ request.sent /\ v.param = "none"

(* A parameter the definition does not have is refused by start_run only. *)
Refused(v) ==
  \/ ~v.loads
  \/ request.trigger = "webhook" /\ ~v.webhook
  \/ v.param = "required" /\ ~request.sent
  \/ request.trigger = "manual" /\ request.sent /\ v.param = "none"

Resolved(v) ==
  IF v.param = "none" THEN "absent"
  ELSE IF request.sent THEN "given"
  ELSE IF v.param = "default" THEN "default" ELSE "absent"

LoadForRun ==
  /\ request.at = "loading"
  /\ LET v == file[request.job] IN
       IF Refused(v) THEN Answer
       ELSE request' = [at |-> "inserting",
                        run |-> [job |-> request.job, trigger |-> request.trigger,
                                 param |-> Resolved(v), version |-> v]]
  /\ UNCHANGED <<now, file, job, runs, round, counts>>

Insert ==
  /\ request.at = "inserting"
  /\ runs' = Append(runs, request.run)
  /\ Answer
  /\ UNCHANGED <<now, file, job, round, counts>>

(* rerun_run: neither the row of the job nor its file is looked at, and    *)
(* params_json is not copied.                                              *)
Rerun(i) ==
  /\ request.at = "idle" /\ requests < MaxRequests
  /\ requests' = requests + 1
  /\ request' = [at |-> "repeating", of |-> i]
  /\ UNCHANGED <<now, file, job, runs, round, edits, faults>>

InsertRerun ==
  /\ request.at = "repeating"
  /\ runs' = Append(runs, [job |-> runs[request.of].job, trigger |-> "rerun", param |-> "absent",
                           version |-> runs[request.of].version, of |-> request.of])
  /\ Answer
  /\ UNCHANGED <<now, file, job, round, counts>>

-----------------------------------------------------------------------------
(* check_cron_triggers *)

Select ==
  /\ round.at = "idle"
  /\ round' = [at |-> "selected", left |-> {j \in Jobs : job[j].enabled /\ job[j].cron}, last |-> [j \in Jobs |-> job[j].last]]
  /\ UNCHANGED <<now, file, job, runs, request, counts>>

ReadClock ==
  /\ round.at = "selected"
  /\ round' = [at |-> "walking", left |-> round.left, last |-> round.last, now |-> now]
  /\ UNCHANGED <<now, file, job, runs, request, counts>>

Since(j) == IF round.last[j] = Never THEN round.now - Lookback ELSE round.last[j]

Passed(j) == {d \in Due : Since(j) < d /\ d < round.now}

NextDue(j) == CHOOSE d \in Passed(j) : \A e \in Passed(j) : d <= e

(* Mutant: a file that does not load ends the round. *)
PassOver_Stops(j) ==
  /\ round.at = "walking" /\ j \in round.left
  /\ Passed(j) = {} \/ ~file[j].loads
  /\ round' = [round EXCEPT !.left = IF Passed(j) = {} THEN @ \ {j} ELSE {}]
  /\ UNCHANGED <<now, file, job, runs, request, counts>>

PassOver(j) ==
  /\ round.at = "walking" /\ j \in round.left
  /\ Passed(j) = {} \/ ~file[j].loads
  /\ round' = [round EXCEPT !.left = @ \ {j}]
  /\ UNCHANGED <<now, file, job, runs, request, counts>>

(* %Y-%m-%d %H:%M:%S *)
Seconds(t) == t - (t % 2)

(* The file is read outside the transaction. *)
LoadForCron(j) ==
  /\ round.at = "walking" /\ j \in round.left
  /\ Passed(j) # {} /\ file[j].loads
  /\ round' = [at |-> "firing", left |-> round.left, last |-> round.last, now |-> round.now,
               job |-> j, version |-> file[j]]
  /\ UNCHANGED <<now, file, job, runs, request, counts>>

(* The run, its event and last_triggered_at in one transaction. *)
Fire ==
  /\ round.at = "firing"
  /\ runs' = Append(runs, [job |-> round.job, trigger |-> "cron", param |-> "absent",
                           version |-> round.version, due |-> NextDue(round.job), at |-> round.now])
  /\ job' = [job EXCEPT ![round.job].last = Seconds(round.now)]
  /\ round' = [at |-> "walking", left |-> round.left \ {round.job}, last |-> round.last, now |-> round.now]
  /\ UNCHANGED <<now, file, request, counts>>

EndRound ==
  /\ round.at = "walking" /\ round.left = {}
  /\ round' = Asleep
  /\ UNCHANGED <<now, file, job, runs, request, counts>>

-----------------------------------------------------------------------------
(* A query of the round fails, or the server is started anew. *)

RoundFails ==
  /\ round.at # "idle" /\ faults < MaxFaults
  /\ faults' = faults + 1
  /\ round' = Asleep
  /\ UNCHANGED <<now, file, job, runs, request, requests, edits>>

Restart ==
  /\ faults < MaxFaults
  /\ faults' = faults + 1
  /\ round' = Asleep /\ Answer
  /\ UNCHANGED <<now, file, job, runs, requests, edits>>

-----------------------------------------------------------------------------
Request ==
  \/ \E j \in Jobs : \/ \E enabled \in BOOLEAN : Register(j, enabled)
                     \/ \E trigger \in {"manual", "webhook"}, sent \in BOOLEAN : Start(j, trigger, sent)
  \/ \E i \in DOMAIN runs : Rerun(i)
  \/ LoadForRow \/ Upsert \/ LoadForRun \/ Insert \/ InsertRerun

Cron == Select \/ ReadClock \/ (\E j \in Jobs : PassOver(j) \/ LoadForCron(j)) \/ Fire \/ EndRound

Next == Tick \/ (\E j \in Jobs : Edit(j)) \/ Request \/ Cron \/ RoundFails \/ Restart

Spec == Init /\ [][Next]_vars

(* The cron loop goes on for ever, and so does the clock, up to its bound. *)
FairSpec == Spec /\ WF_vars(Cron) /\ WF_vars(Tick)

-----------------------------------------------------------------------------
(* Properties. *)

CronRuns == {i \in DOMAIN runs : runs[i].trigger = "cron"}

(* A scheduled time gives at most one run: the time a cron run was created *)
(* for came after the one before it was created, although the latter is    *)
(* stored without its fraction of a second and the job may be registered   *)
(* again in between; and no job is started ahead of time                   *)
(* (check_cron_triggers, register_job).                                    *)
CronOnce ==
  \A i \in CronRuns :
    /\ runs[i].due < runs[i].at
    /\ \A k \in CronRuns : i < k /\ runs[i].job = runs[k].job => runs[i].at < runs[k].due

Validated(r) ==
  LET v == r.version IN
  /\ v.loads /\ (r.trigger = "webhook" => v.webhook)
  /\ v.param = "required" => r.param = "given"
  /\ v.param = "default"  => r.param # "absent"
  /\ v.param = "none"     => r.param = "absent"

(* A run a client has started carries the parameter as the definition read *)
(* for it asks: a required one was sent, a default takes the place of what *)
(* was not, and a webhook was allowed (start_run, webhook_trigger).        *)
RequestsValidated ==
  \A i \in DOMAIN runs : runs[i].trigger \in {"manual", "webhook"} => Validated(runs[i])

(* A scheduled time of a job that has been triggered before is made up for *)
(* whatever was down when it came, and whatever state another job's file   *)
(* is in (check_cron_triggers).                                            *)
Served(j, d) ==
  \/ job[j].last >= d
  \/ ~(job[j].enabled /\ job[j].cron /\ file[j].loads)

DueTimesServed ==
  \A j \in Jobs, d \in Due :
    (d < MaxTime /\ now > d /\ job[j].last # Never) ~> Served(j, d)

-----------------------------------------------------------------------------
(* What the theorems of TriggersProofs need besides. *)

Records ==
  [job : Jobs, trigger : {"manual", "webhook"}, param : Values, version : Versions]
    \cup [job : Jobs, trigger : {"rerun"}, param : Values, version : Versions, of : Nat]
    \cup [job : Jobs, trigger : {"cron"}, param : Values, version : Versions, due : Due, at : Times]

(* What a handler carries from one access to the next. *)
HandlerKnows ==
  /\ request.at \in {"registering", "upserting"} => request.job \in Jobs /\ request.enabled \in BOOLEAN
  /\ request.at = "upserting" => request.cron \in BOOLEAN
  /\ request.at = "loading" =>
       /\ request.job \in Jobs /\ job[request.job].known
       /\ request.trigger \in {"manual", "webhook"} /\ request.sent \in BOOLEAN
  /\ request.at = "inserting" =>
       /\ request.run \in Records /\ request.run.trigger \in {"manual", "webhook"}
       /\ job[request.run.job].known /\ Validated(request.run)
  /\ request.at = "repeating" => request.of \in DOMAIN runs

(* The times the round has selected are still those of the rows. *)
RoundKnows ==
  /\ round.at # "idle" => \A j \in round.left : job[j].known /\ round.last[j] = job[j].last
  /\ round.at \in {"walking", "firing"} => round.now \in Times /\ round.now <= now
  /\ round.at = "firing" =>
       round.job \in round.left /\ Passed(round.job) # {} /\ round.version \in Versions

(* What the rows of the jobs tell of the cron runs created for them. *)
RowsTell ==
  /\ \A j \in Jobs : job[j].last <= now /\ (job[j].enabled => job[j].known)
  /\ \A i \in CronRuns : runs[i].at <= now /\ Seconds(runs[i].at) <= job[runs[i].job].last

IInv ==
  /\ TypeOK /\ runs \in Seq(Records)
  /\ HandlerKnows /\ RoundKnows /\ RowsTell
  /\ CronOnce /\ RequestsValidated
=============================================================================
