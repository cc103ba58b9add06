----------------------------- MODULE MCExecutor ------------------------------
(***************************************************************************)
(* Two calls of run_process side by side, with three looks before the      *)
(* deadline.                                                               *)
(***************************************************************************)
EXTENDS Executor

CONSTANTS t1, t2

MCTasks   == {t1, t2}
MCLinesOf == [t \in MCTasks |-> IF t = t1 THEN Streams ELSE {}]
=============================================================================
