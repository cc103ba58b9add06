------------------------- MODULE MCTopologicalOrder --------------------------
(***************************************************************************)
(* TopologicalOrder for TLC: every list of up to MaxNodes nodes, each with *)
(* up to MaxDeps dependencies, repeated, unknown and on itself included.   *)
(***************************************************************************)
EXTENDS TopologicalOrder

CONSTANTS MaxNodes, MaxDeps

Tuples(S, n) == UNION {[1..k -> S] : k \in 0..n}
Lists == Tuples([id : Names, depends_on : Tuples(Names, MaxDeps)], MaxNodes)
=============================================================================
