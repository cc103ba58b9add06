----------------------------- MODULE MCTriggers ------------------------------
(***************************************************************************)
(* Triggers for TLC: a file with a schedule, a webhook and a default, one  *)
(* with a required parameter, and one that does not load.                  *)
(***************************************************************************)
EXTENDS Triggers

File(param, webhook, cron) == [loads |-> TRUE, param |-> param, webhook |-> webhook, cron |-> cron]

Scheduled == File("default", TRUE, TRUE)
Broken    == [File("none", FALSE, FALSE) EXCEPT !.loads = FALSE]

MCVersions == {Scheduled, File("required", FALSE, TRUE), File("none", TRUE, FALSE), Broken}
MCAtFirst  == {Scheduled}
MCDue      == {2, 4}
=============================================================================
