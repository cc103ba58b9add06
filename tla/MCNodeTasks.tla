---------------------------- MODULE MCNodeTasks ------------------------------
(***************************************************************************)
(* A node of the server's own that writes to both streams and must leave a *)
(* file, and a node of an agent that writes to one.                        *)
(***************************************************************************)
EXTENDS NodeTasks

CONSTANTS t1, t2

MCTasks    == {t1, t2}
MCRemote   == {t2}
MCLinesOf  == [t \in MCTasks |-> IF t = t1 THEN Streams ELSE {"stdout"}]
MCDeclared == [t \in MCTasks |-> "required"]
=============================================================================
