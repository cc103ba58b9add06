------------------------------ MODULE Executor -------------------------------
(***************************************************************************)
(* run_process: a node's process is spawned, watched at intervals, killed  *)
(* at its deadline, and its output collected until both pipes are closed.  *)
(* The server runs one such call for each task it executes, and so do the  *)
(* agents; NodeTasks adds what they do around it.                          *)
(***************************************************************************)
EXTENDS Integers

CONSTANTS
  Tasks,        \* the node runs
  Deadline,     \* timeout_sec, counted in intervals between two looks
  LinesOf       \* the streams each process writes to

Streams == {"stdout", "stderr"}

ASSUME DeadlineAssumption == Deadline \in Nat \ {0}
ASSUME LinesAssumption    == LinesOf \in [Tasks -> SUBSET Streams]

VARIABLE proc   \* of each task: the call, the child, the intervals it has
                \* taken, the outcome, what was written, whether a process the
                \* child has started keeps the pipes open; and history: how many
                \* intervals were over when the child exited, and whether the
                \* call has given it up without knowing of its end

Fresh == [step |-> "none", child |-> "none", age |-> 0, outcome |-> "none",
          wrote |-> {}, held |-> FALSE, quit |-> 0, blind |-> FALSE]

(* A child that is quiet runs on with its pipes closed. *)
Process ==
  [step    : {"none", "watching", "sleeping", "draining", "ended"},
   child   : {"none", "alive", "quiet", "ok", "bad", "killed"},
   age     : 0..Deadline,
   outcome : {"none", "success", "failed", "timed_out"},
   wrote   : SUBSET Streams,
   held    : BOOLEAN,
   quit    : 0..Deadline,
   blind   : BOOLEAN]

ProcTypeOK == proc \in [Tasks -> Process]

ProcInit == proc = [t \in Tasks |-> Fresh]

Becomes(t, p) == proc' = [proc EXCEPT ![t] = p]
Runs(p)       == p.child \in {"alive", "quiet"}
PipesOpen(p)  == p.held \/ p.child = "alive"

Spawn(t) ==
  /\ proc[t].step = "none"
  /\ \/ Becomes(t, [proc[t] EXCEPT !.step = "watching", !.child = "alive"])
     \/ Becomes(t, [proc[t] EXCEPT !.step = "ended", !.outcome = "failed"])

(* The child has let go of its pipes: what it wrote is in them, and it may *)
(* have left a process of its own behind, which holds them open.           *)
Gone(t, how, held) ==
  [proc[t] EXCEPT !.child = how, !.wrote = LinesOf[t], !.held = held,
                  !.quit = IF how = "quiet" THEN 0 ELSE proc[t].age]

(* What is left behind is decided when the pipes are let go of. *)
Leaves(t, held) == proc[t].child = "quiet" => held = proc[t].held

(* Not steps of the program: the child closes its pipes, or exits, or what *)
(* it has left behind ends.                                                *)
ClosesPipes(t, held) ==
  /\ proc[t].child = "alive"
  /\ Becomes(t, Gone(t, "quiet", held))

ChildExits(t, held) ==
  /\ Runs(proc[t]) /\ Leaves(t, held)
  /\ \E how \in {"ok", "bad"} : Becomes(t, Gone(t, how, held))

Release(t) ==
  /\ proc[t].held
  /\ Becomes(t, [proc[t] EXCEPT !.held = FALSE])

(* One look at the child: the deadline first, whatever has become of it;   *)
(* then its exit; then to sleep, for an interval.                          *)
Due(t)   == proc[t].step = "watching" /\ proc[t].age = Deadline
Looks(t) == proc[t].step = "watching" /\ proc[t].age < Deadline

Kill(t, held) ==
  /\ Due(t) /\ Runs(proc[t]) /\ Leaves(t, held)
  /\ Becomes(t, [Gone(t, "killed", held) EXCEPT !.step = "draining", !.outcome = "timed_out"])

TooLate(t) ==
  /\ Due(t) /\ ~Runs(proc[t])
  /\ Becomes(t, [proc[t] EXCEPT !.step = "draining", !.outcome = "timed_out"])

TryWait(t) ==
  /\ Looks(t) /\ ~Runs(proc[t])
  /\ Becomes(t, [proc[t] EXCEPT !.step = "draining",
                   !.outcome = IF proc[t].child = "ok" THEN "success" ELSE "failed"])

(* The system does not tell what has become of the child.  Nobody kills it *)
(* or waits for it then, unless it is due.                                 *)
WaitFails(t) ==
  /\ proc[t].step = "watching"
  /\ Becomes(t, [proc[t] EXCEPT !.step = "draining", !.blind = TRUE,
                   !.outcome = IF proc[t].age = Deadline THEN "timed_out" ELSE "failed"])

Sleep(t) ==
  /\ Looks(t) /\ Runs(proc[t])
  /\ Becomes(t, [proc[t] EXCEPT !.step = "sleeping"])

(* Mutant: the sleep lasts until the deadline. *)
Wake_AtDeadline(t) ==
  /\ proc[t].step = "sleeping"
  /\ Becomes(t, [proc[t] EXCEPT !.step = "watching", !.age = Deadline])

Wake(t) ==
  /\ proc[t].step = "sleeping"
  /\ Becomes(t, [proc[t] EXCEPT !.step = "watching", !.age = @ + 1])

(* Both readers have come to the end of their pipe. *)
Drain(t) ==
  /\ proc[t].step = "draining" /\ ~PipesOpen(proc[t])
  /\ Becomes(t, [proc[t] EXCEPT !.step = "ended"])

(* The calls by themselves. *)
CallsNext ==
  \E t \in Tasks :
    \/ Spawn(t) \/ TooLate(t) \/ TryWait(t) \/ WaitFails(t) \/ Sleep(t) \/ Wake(t) \/ Drain(t)
    \/ \E held \in BOOLEAN : Kill(t, held) \/ ClosesPipes(t, held) \/ ChildExits(t, held)
    \/ Release(t)

CallsSpec == ProcInit /\ [][CallsNext]_proc

-----------------------------------------------------------------------------
(* Properties. *)

(* The outcome says what became of the process in its time, as far as      *)
(* looks at intervals can tell: success is an exit with code zero, failed  *)
(* one with another code, before the deadline, or no process at all.       *)
(* timed_out is a process that was killed, or that exited, with whatever   *)
(* code, when less than an interval was left: nothing that was over at the *)
(* last look before the deadline.  Nobody is left running, unless asking   *)
(* for its exit has failed; only then is it failed whatever becomes of it  *)
(* (run_process).                                                          *)
Told(p) ==
  /\ p.outcome = "success"   => p.child = "ok" /\ p.quit < Deadline
  /\ p.outcome = "failed"    => p.blind \/ p.child = "none" \/ (p.child = "bad" /\ p.quit < Deadline)
  /\ p.outcome = "timed_out" => p.age = Deadline /\ (p.child \in {"ok", "bad"} => p.quit >= Deadline - 1)
  /\ p.outcome # "none" /\ Runs(p) => p.blind

OutcomesTrue == \A t \in Tasks : Told(proc[t])

(* What the theorems need besides: how far the call has come. *)
Fits(t, p) ==
  /\ p.step = "none" => p.child = "none" /\ p.outcome = "none" /\ ~p.held /\ ~p.blind
  /\ p.step \in {"watching", "sleeping"} =>
       p.child \in {"alive", "quiet", "ok", "bad"} /\ p.outcome = "none" /\ ~p.blind
  /\ p.step = "sleeping" => p.age < Deadline
  /\ p.step \in {"draining", "ended"} => p.outcome # "none"
  /\ p.step = "ended" => p.child # "alive"
  /\ p.child \in {"ok", "bad"} =>
       /\ p.step = "watching" => p.quit >= p.age - 1
       /\ p.step = "sleeping" => p.quit = p.age
       /\ p.quit <= p.age
  /\ p.wrote = IF p.child \in {"none", "alive"} THEN {} ELSE LinesOf[t]

CallFits == \A t \in Tasks : Fits(t, proc[t])
=============================================================================
