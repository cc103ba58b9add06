------------------------------ MODULE RunTables ------------------------------
(***************************************************************************)
(* The status vocabulary of the two tables every component shares:         *)
(* job_runs.status and node_runs.status, as the CHECK constraints of       *)
(* db/schema.sql admit them.  "no_row" stands for a row that has not been  *)
(* inserted yet.                                                           *)
(***************************************************************************)

NoRow == "no_row"

(***************************************************************************)
(* job_runs.status.  'created' is admitted by the CHECK constraint but no  *)
(* statement of the program writes it.                                     *)
(***************************************************************************)
JobTerminal == {"success", "failed", "timed_out", "canceled"}
JobStatuses == {"created", "queued", "running", "cancel_requested"}
                 \cup JobTerminal

(***************************************************************************)
(* node_runs.status.  A worker reports one of NodeReported; 'skipped' is   *)
(* written by the scheduler only; no statement writes 'cancel_requested'.  *)
(***************************************************************************)
NodeReported == {"success", "failed", "timed_out", "canceled"}
NodeTerminal == NodeReported \cup {"skipped"}
NodeStatuses == {"pending", "queued", "running", "cancel_requested"}
                  \cup NodeTerminal

(* What ends a node without letting its dependents run. *)
NodeUnsuccessful == NodeReported \ {"success"}
=============================================================================
