-------------------------- MODULE TopologicalOrder ---------------------------
(***************************************************************************)
(* Loading a job definition: the checks on the ids of its nodes, and the   *)
(* order the loader leaves them in, which RunScheduler takes as given.     *)
(* The loop counts the dependencies of a node that are still unplaced, one *)
(* for each entry of depends_on: an entry written twice counts twice.      *)
(***************************************************************************)
EXTENDS Integers, FiniteSets, Sequences

CONSTANTS
  Names,    \* what an id or a dependency may be
  Inputs    \* the lists of nodes a definition file may hold

Node == [id : Names, depends_on : Seq(Names)]

ASSUME InputsAssumption == Inputs \subseteq Seq(Node)

VARIABLES
  nodes,      \* the nodes of the file, in its order
  wellFormed, \* whether every check on a single field succeeds
  pc,         \* checking, collecting the first nodes, or in the loop
  idx,        \* the position of the filter that collects the first nodes
  indegree,   \* of each id, the dependencies not yet placed
  queue,      \* the ids that may be placed next
  order,      \* the ids placed
  todo        \* the dependencies on the last id placed, still to be counted off

vars == <<nodes, wellFormed, pc, idx, indegree, queue, order, todo>>

Items(s) == {s[p] : p \in DOMAIN s}
Ids == {nodes[i].id : i \in DOMAIN nodes}

(* A dependency is the row it is written in and its place in depends_on. *)
Edges == UNION {{i} \X DOMAIN nodes[i].depends_on : i \in DOMAIN nodes}
Source(e) == nodes[e[1]].depends_on[e[2]]
Target(e) == nodes[e[1]].id
Outgoing(n) == {e \in Edges : Source(e) = n}

(* outgoing lists them by row, and within a row as written. *)
Before(e, f) == e[1] < f[1] \/ (e[1] = f[1] /\ e[2] < f[2])

-----------------------------------------------------------------------------
Init ==
  /\ nodes \in Inputs /\ wellFormed \in BOOLEAN
  /\ pc = "check" /\ idx = 1
  /\ indegree = <<>> /\ queue = <<>> /\ order = <<>> /\ todo = {}

DistinctIds == \A i, j \in DOMAIN nodes : nodes[i].id = nodes[j].id => i = j
KnownIds    == \A e \in Edges : Source(e) \in Ids

(* Mutant: two nodes of one id are let through. *)
Valid_NoDuplicateCheck == wellFormed /\ nodes # <<>> /\ KnownIds

Valid == wellFormed /\ nodes # <<>> /\ DistinctIds /\ KnownIds

Reject ==
  /\ pc = "check" /\ ~Valid
  /\ pc' = "rejected"
  /\ UNCHANGED <<nodes, wellFormed, idx, indegree, queue, order, todo>>

(* Mutant: a dependency written twice is counted once. *)
Accept_CountsDistinct ==
  /\ pc = "check" /\ Valid
  /\ pc' = "collect"
  /\ indegree' = [n \in Ids |->
       Cardinality(UNION {Items(nodes[i].depends_on) : i \in {j \in DOMAIN nodes : nodes[j].id = n}})]
  /\ UNCHANGED <<nodes, wellFormed, idx, queue, order, todo>>

(* The maps are filled; a later row of the same id would win. *)
Accept ==
  /\ pc = "check" /\ Valid
  /\ pc' = "collect"
  /\ indegree' = [n \in Ids |->
       LET i == CHOOSE j \in DOMAIN nodes : nodes[j].id = n
       IN  Len(nodes[i].depends_on)]
  /\ UNCHANGED <<nodes, wellFormed, idx, queue, order, todo>>

Collect ==
  /\ pc = "collect" /\ idx <= Len(nodes)
  /\ queue' = IF indegree[nodes[idx].id] = 0 THEN Append(queue, nodes[idx].id) ELSE queue
  /\ idx' = idx + 1
  /\ UNCHANGED <<nodes, wellFormed, pc, indegree, order, todo>>

Enter ==
  /\ pc = "collect" /\ idx > Len(nodes)
  /\ pc' = "loop"
  /\ UNCHANGED <<nodes, wellFormed, idx, indegree, queue, order, todo>>

(* Mutant: the last id queued is taken, and stays queued as well. *)
Place_KeepsQueued ==
  /\ pc = "loop" /\ todo = {} /\ queue # <<>> /\ Len(order) <= Len(nodes)
  /\ order' = Append(order, Head(queue))
  /\ todo' = Outgoing(Head(queue))
  /\ queue' = IF todo' = {} THEN queue ELSE Tail(queue)
  /\ UNCHANGED <<nodes, wellFormed, pc, idx, indegree>>

Place ==
  /\ pc = "loop" /\ todo = {} /\ queue # <<>>
  /\ order' = Append(order, Head(queue))
  /\ queue' = Tail(queue)
  /\ todo' = Outgoing(Head(queue))
  /\ UNCHANGED <<nodes, wellFormed, pc, idx, indegree>>

(* Mutant: a node is queued with its first dependency. *)
CountOff_QueuesEarly ==
  /\ pc = "loop"
  /\ \E e \in todo :
       /\ \A f \in todo \ {e} : Before(e, f)
       /\ todo' = todo \ {e}
       /\ indegree' = [indegree EXCEPT ![Target(e)] = @ - 1]
       /\ queue' = IF e[2] = 1 THEN Append(queue, Target(e)) ELSE queue
  /\ UNCHANGED <<nodes, wellFormed, pc, idx, order>>

CountOff ==
  /\ pc = "loop"
  /\ \E e \in todo :
       /\ \A f \in todo \ {e} : Before(e, f)
       /\ todo' = todo \ {e}
       /\ indegree' = [indegree EXCEPT ![Target(e)] = @ - 1]
       /\ queue' = IF indegree[Target(e)] = 1 THEN Append(queue, Target(e)) ELSE queue
  /\ UNCHANGED <<nodes, wellFormed, pc, idx, order>>

(* Mutant: a definition is accepted as soon as something was placed. *)
Finish_AnyOrder ==
  /\ pc = "loop" /\ todo = {} /\ queue = <<>>
  /\ pc' = IF order # <<>> THEN "accepted" ELSE "rejected"
  /\ UNCHANGED <<nodes, wellFormed, idx, indegree, queue, order, todo>>

Finish ==
  /\ pc = "loop" /\ todo = {} /\ queue = <<>>
  /\ pc' = IF Len(order) = Len(nodes) THEN "accepted" ELSE "rejected"
  /\ UNCHANGED <<nodes, wellFormed, idx, indegree, queue, order, todo>>

Next == Reject \/ Accept \/ Collect \/ Enter \/ Place \/ CountOff \/ Finish

Spec == Init /\ [][Next]_vars

(* A function that runs on its own. *)
FairSpec == Spec /\ WF_vars(Next)

-----------------------------------------------------------------------------
(* Properties. *)

Steps == {"check", "collect", "loop", "accepted", "rejected"}

(* The types; no counter falls below zero, which would panic or wrap. *)
TypeOK ==
  /\ nodes \in Seq(Node)
  /\ wellFormed \in BOOLEAN
  /\ pc \in Steps
  /\ idx \in Nat \ {0}
  /\ pc # "check" /\ Valid => indegree \in [Ids -> Nat]
  /\ queue \in Seq(Names)
  /\ order \in Seq(Names)
  /\ todo \subseteq Edges

(* What execute_run assumes of the list it walks in one pass: every        *)
(* dependency of a node is the id of an earlier one (topological_order).   *)
DependenciesEarlier ==
  \A p \in DOMAIN order, e \in Edges :
    Target(e) = order[p] => \E q \in 1..(p-1) : order[q] = Source(e)

(* An accepted definition keeps each of its nodes, and each once, however  *)
(* its dependencies are repeated (topological_order, resolve).             *)
EveryNodeOnce ==
  /\ \A p, q \in DOMAIN order : order[p] = order[q] => p = q
  /\ pc = "accepted" => Items(order) = Ids /\ Len(order) = Len(nodes)

(* Nodes that wait for each other: each depends on one of them. *)
Stuck(S) == S # {} /\ \A n \in S : \E e \in Edges : Target(e) = n /\ Source(e) \in S

(* A valid list is refused if and only if some of its nodes wait for each  *)
(* other (topological_order).                                              *)
CyclesRefused ==
  /\ pc = "accepted" => Valid /\ ~\E S \in SUBSET Ids : Stuck(S)
  /\ pc = "rejected" => ~Valid \/ \E S \in SUBSET Ids : Stuck(S)

(* Every definition is decided: no list keeps the loader busy for ever. *)
Terminates == <>(pc \in {"accepted", "rejected"})

-----------------------------------------------------------------------------
(* The inductive invariant. *)

Reached == Items(order) \cup Items(queue)

(* The entries of row i that indegree still counts. *)
Unresolved(i) ==
  {k \in DOMAIN nodes[i].depends_on :
     Source(<<i, k>>) \notin Items(order) \/ <<i, k>> \in todo}

Working == pc \in {"collect", "loop"}

Counted ==
  Working => \A i \in DOMAIN nodes : indegree[nodes[i].id] = Cardinality(Unresolved(i))

ReachedWhenResolved ==
  Working => \A i \in DOMAIN nodes :
    nodes[i].id \in Reached <=> Unresolved(i) = {} /\ (pc = "collect" => i < idx)

Once ==
  /\ \A p, q \in DOMAIN order : order[p] = order[q] => p = q
  /\ \A p, q \in DOMAIN queue : queue[p] = queue[q] => p = q
  /\ Items(order) \cap Items(queue) = {}
  /\ Reached \subseteq Ids

(* Work is under way on a valid list only, on dependencies of placed ids. *)
Staged ==
  /\ Working \/ pc = "accepted" => Valid
  /\ pc \in {"check", "collect"} => order = <<>> /\ todo = {}
  /\ pc = "check" => queue = <<>>  /\ idx = 1
  /\ \A e \in todo : Source(e) \in Items(order)

(* Nothing of a set of nodes that wait for each other is ever reached. *)
StuckUnreached == \A S \in SUBSET Ids : Stuck(S) => S \cap Reached = {}

IInv ==
  /\ TypeOK /\ Counted /\ ReachedWhenResolved /\ Once /\ Staged
  /\ DependenciesEarlier /\ StuckUnreached /\ EveryNodeOnce /\ CyclesRefused
=============================================================================
