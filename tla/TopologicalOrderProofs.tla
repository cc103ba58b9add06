----------------------- MODULE TopologicalOrderProofs ------------------------
(***************************************************************************)
(* For any file, of any length: the order the loader finds puts every node *)
(* after its dependencies and each exactly once, and a list is refused     *)
(* exactly for the reasons it should be.                                   *)
(***************************************************************************)
EXTENDS TopologicalOrder, FiniteSetTheorems, TLAPS

-----------------------------------------------------------------------------
(* The list does not change while it is being ordered. *)

LEMMA Static ==
  ASSUME UNCHANGED <<nodes, wellFormed>>
  PROVE  /\ Ids' = Ids /\ Edges' = Edges /\ Valid' = Valid
         /\ \A e : Source(e)' = Source(e) /\ Target(e)' = Target(e)
         /\ \A S : Stuck(S)' = Stuck(S)
BY DEF Ids, Edges, Source, Target, Valid, DistinctIds, KnownIds, Stuck

(* Rows and their entries. *)
LEMMA Rows ==
  ASSUME nodes \in Seq(Node)
  PROVE  /\ DOMAIN nodes = 1..Len(nodes) /\ Len(nodes) \in Nat
         /\ Ids \subseteq Names
         /\ \A i \in DOMAIN nodes :
              /\ nodes[i].id \in Ids
              /\ nodes[i].depends_on \in Seq(Names)
              /\ Len(nodes[i].depends_on) \in Nat
              /\ DOMAIN nodes[i].depends_on = 1..Len(nodes[i].depends_on)
         /\ \A e \in Edges : /\ e[1] \in DOMAIN nodes
                             /\ e[2] \in DOMAIN nodes[e[1]].depends_on
                             /\ e = <<e[1], e[2]>>
                             /\ Target(e) \in Ids
         /\ \A i \in DOMAIN nodes : \A k \in DOMAIN nodes[i].depends_on : <<i, k>> \in Edges
<1>1. /\ DOMAIN nodes = 1..Len(nodes) /\ Len(nodes) \in Nat
      /\ \A i \in DOMAIN nodes : nodes[i] \in Node
  OBVIOUS
<1>2. \A i \in DOMAIN nodes : /\ nodes[i].id \in Ids
                              /\ nodes[i].id \in Names
                              /\ nodes[i].depends_on \in Seq(Names)
  BY <1>1 DEF Node, Ids
<1>3. Ids \subseteq Names
  BY <1>2 DEF Ids
<1>4. \A i \in DOMAIN nodes : /\ Len(nodes[i].depends_on) \in Nat
                              /\ DOMAIN nodes[i].depends_on = 1..Len(nodes[i].depends_on)
  BY <1>2
<1>5. ASSUME NEW e \in Edges
      PROVE  /\ e[1] \in DOMAIN nodes /\ e[2] \in DOMAIN nodes[e[1]].depends_on
             /\ e = <<e[1], e[2]>> /\ Target(e) \in Ids
  BY <1>2 DEF Edges, Target
<1>6. \A i \in DOMAIN nodes : \A k \in DOMAIN nodes[i].depends_on : <<i, k>> \in Edges
  BY DEF Edges
<1> QED BY <1>1, <1>2, <1>3, <1>4, <1>5, <1>6

LEMMA UnresolvedFinite ==
  ASSUME nodes \in Seq(Node), NEW i \in DOMAIN nodes
  PROVE  /\ IsFiniteSet(Unresolved(i))
         /\ Cardinality(Unresolved(i)) \in Nat
         /\ Cardinality(Unresolved(i)) = 0 <=> Unresolved(i) = {}
<1>1. IsFiniteSet(1..Len(nodes[i].depends_on))
  BY Rows, FS_Interval
<1>2. Unresolved(i) \in SUBSET (1..Len(nodes[i].depends_on))
  BY Rows DEF Unresolved
<1>3. IsFiniteSet(Unresolved(i))
  BY <1>1, <1>2, FS_Subset
<1> QED BY <1>3, FS_CardinalityType, FS_EmptySet

-----------------------------------------------------------------------------
LEMMA InitIInv == Init => IInv
<1> SUFFICES ASSUME Init PROVE IInv
  OBVIOUS
<1>1. nodes \in Seq(Node)
  BY InputsAssumption DEF Init
<1>2. Items(order) = {} /\ Items(queue) = {} /\ Reached = {}
  BY DEF Init, Items, Reached
<1>3. TypeOK
  BY <1>1 DEF Init, TypeOK, Steps
<1>4. Counted /\ ReachedWhenResolved
  BY DEF Init, Counted, ReachedWhenResolved, Working
<1>5. Once /\ Staged
  BY <1>2 DEF Init, Once, Staged, Working
<1>6. DependenciesEarlier /\ StuckUnreached /\ EveryNodeOnce /\ CyclesRefused
  BY <1>2 DEF Init, DependenciesEarlier, StuckUnreached, EveryNodeOnce, CyclesRefused
<1> QED BY <1>3, <1>4, <1>5, <1>6 DEF IInv

LEMMA RejectIInv == IInv /\ Reject => IInv'
<1> SUFFICES ASSUME IInv, Reject PROVE IInv'
  OBVIOUS
<1> USE DEF IInv, Reject
<1>1. TypeOK'
  BY Static DEF TypeOK, Steps
<1>2. Counted' /\ ReachedWhenResolved' /\ Staged'
  BY Static DEF Counted, ReachedWhenResolved, Staged, Working, Items
<1>3. Once' /\ StuckUnreached' /\ DependenciesEarlier' /\ EveryNodeOnce'
  BY Static DEF Once, StuckUnreached, DependenciesEarlier, EveryNodeOnce, Reached, Items
<1>4. CyclesRefused'
  BY Static DEF CyclesRefused
<1> QED BY <1>1, <1>2, <1>3, <1>4

LEMMA AcceptIInv == IInv /\ Accept => IInv'
<1> SUFFICES ASSUME IInv, Accept PROVE IInv'
  OBVIOUS
<1> USE DEF IInv
<1>1. /\ nodes' = nodes /\ wellFormed' = wellFormed /\ queue' = queue
      /\ order' = order /\ todo' = todo /\ idx' = idx
      /\ pc = "check" /\ pc' = "collect" /\ Valid /\ nodes \in Seq(Node)
      /\ order = <<>> /\ queue = <<>> /\ todo = {} /\ idx = 1
  BY DEF Accept, TypeOK, Staged
<1>2. ASSUME NEW i \in DOMAIN nodes
      PROVE  indegree'[nodes[i].id] = Len(nodes[i].depends_on)
  <2>1. \A j \in DOMAIN nodes : nodes[j].id = nodes[i].id => j = i
    BY <1>1 DEF Valid, DistinctIds
  <2>2. (CHOOSE j \in DOMAIN nodes : nodes[j].id = nodes[i].id) = i
    BY <2>1
  <2>3. nodes[i].id \in Ids
    BY <1>1, Rows
  <2> QED BY <2>2, <2>3 DEF Accept
<1>3. indegree' \in [Ids -> Nat]
  <2>1. ASSUME NEW n \in Ids
        PROVE  Len(nodes[CHOOSE j \in DOMAIN nodes : nodes[j].id = n].depends_on) \in Nat
    <3>1. \E j \in DOMAIN nodes : nodes[j].id = n
      BY DEF Ids
    <3> QED BY <1>1, <3>1, Rows
  <2> QED BY <2>1 DEF Accept
<1>4. TypeOK'
  BY <1>1, <1>3, Static DEF TypeOK, Steps
<1>5. Items(order)' = {} /\ Reached' = {}
  BY <1>1 DEF Items, Reached
<1>6. ASSUME NEW i \in DOMAIN nodes
      PROVE  Unresolved(i)' = 1..Len(nodes[i].depends_on)
  BY <1>1, <1>5, Rows DEF Unresolved
<1>7. Counted'
  <2>1. ASSUME NEW i \in DOMAIN nodes
        PROVE  Cardinality(1..Len(nodes[i].depends_on)) = Len(nodes[i].depends_on)
    <3>1. Len(nodes[i].depends_on) \in Nat
      BY <1>1, Rows
    <3> QED BY <3>1, FS_Interval
  <2> QED BY <1>1, <1>2, <1>6, <2>1 DEF Counted
<1>8. ReachedWhenResolved'
  BY <1>1, <1>5, Rows DEF ReachedWhenResolved
<1>9. Once' /\ Staged' /\ StuckUnreached' /\ DependenciesEarlier'
  BY <1>1, <1>5, Static DEF Once, Staged, StuckUnreached, DependenciesEarlier, Items
<1>10. EveryNodeOnce' /\ CyclesRefused'
  BY <1>1 DEF EveryNodeOnce, CyclesRefused
<1> QED BY <1>4, <1>7, <1>8, <1>9, <1>10

(* What appending an id that was not reached yet does to the queue. *)
LEMMA Enqueue ==
  ASSUME queue \in Seq(Names), NEW n \in Names, queue' = Append(queue, n),
         order' = order
  PROVE  /\ queue' \in Seq(Names)
         /\ Items(order)' = Items(order)
         /\ Items(queue)' = Items(queue) \cup {n}
         /\ Reached' = Reached \cup {n}
         /\ n \notin Items(queue) /\ (\A p, q \in DOMAIN queue : queue[p] = queue[q] => p = q)
              => \A p, q \in DOMAIN queue' : queue'[p] = queue'[q] => p = q
<1>1. /\ Len(queue) \in Nat /\ queue' \in Seq(Names)
      /\ DOMAIN queue = 1..Len(queue) /\ DOMAIN queue' = 1..(Len(queue) + 1)
      /\ \A p \in DOMAIN queue : queue'[p] = queue[p]
      /\ queue'[Len(queue) + 1] = n
  OBVIOUS
<1>2. Items(queue)' = Items(queue) \cup {n}
  BY <1>1 DEF Items
<1>3. Items(order)' = Items(order)
  BY DEF Items
<1>4. Reached' = Reached \cup {n}
  BY <1>2, <1>3 DEF Reached
<1>5. ASSUME n \notin Items(queue), \A p, q \in DOMAIN queue : queue[p] = queue[q] => p = q,
             NEW p \in DOMAIN queue', NEW q \in DOMAIN queue', queue'[p] = queue'[q]
      PROVE  p = q
  <2>1. \A r \in DOMAIN queue : queue[r] # n
    BY <1>5 DEF Items
  <2> QED BY <1>1, <1>5, <2>1
<1> QED BY <1>1, <1>2, <1>3, <1>4, <1>5

(* A node that is newly reached, with all it depends on placed, belongs to *)
(* no set of nodes that wait for each other.                               *)
LEMMA ReachSafely ==
  ASSUME nodes \in Seq(Node), StuckUnreached, NEW i \in DOMAIN nodes, DistinctIds,
         \A k \in DOMAIN nodes[i].depends_on : Source(<<i, k>>) \in Reached
  PROVE  \A S \in SUBSET Ids : Stuck(S) => nodes[i].id \notin S
<1> SUFFICES ASSUME NEW S \in SUBSET Ids, Stuck(S), nodes[i].id \in S PROVE FALSE
  OBVIOUS
<1>1. PICK e \in Edges : Target(e) = nodes[i].id /\ Source(e) \in S
  BY DEF Stuck
<1>2. e[1] = i /\ e = <<i, e[2]>> /\ e[2] \in DOMAIN nodes[i].depends_on
  BY <1>1, Rows DEF Target, DistinctIds
<1>3. Source(e) \in Reached
  BY <1>2
<1> QED BY <1>1, <1>3 DEF StuckUnreached

LEMMA CollectIInv == IInv /\ Collect => IInv'
<1> SUFFICES ASSUME IInv, Collect PROVE IInv'
  OBVIOUS
<1> DEFINE n == nodes[idx].id
<1>1. /\ nodes' = nodes /\ wellFormed' = wellFormed /\ indegree' = indegree
      /\ order' = order /\ todo' = todo /\ idx' = idx + 1
      /\ pc = "collect" /\ pc' = "collect" /\ Valid /\ DistinctIds
      /\ nodes \in Seq(Node) /\ order = <<>> /\ todo = {}
  BY DEF IInv, Collect, TypeOK, Staged, Working, Valid
<1>2. idx \in DOMAIN nodes /\ n \in Ids /\ n \in Names /\ idx \in Nat
  BY <1>1, Rows DEF IInv, TypeOK, Collect
<1>3. Items(order) = {} /\ Items(order)' = {}
  BY <1>1 DEF Items
<1>4. \A i \in DOMAIN nodes : Unresolved(i)' = Unresolved(i)
  BY <1>1, <1>3 DEF Unresolved, Source
<1>5. Counted'
  BY <1>1, <1>4 DEF IInv, Counted, Working
<1>6. n \notin Reached
  BY <1>1, <1>2 DEF IInv, ReachedWhenResolved, Working
<1>7. indegree[n] = 0 <=> Unresolved(idx) = {}
  BY <1>1, <1>2, UnresolvedFinite DEF IInv, Counted, Working
<1>8. CASE indegree[n] = 0
  <2>1. queue' = Append(queue, n)
    BY <1>8 DEF Collect
  <2>2. /\ queue' \in Seq(Names) /\ Reached' = Reached \cup {n}
        /\ \A p, q \in DOMAIN queue' : queue'[p] = queue'[q] => p = q
    BY <2>1, <1>1, <1>2, <1>6, Enqueue DEF IInv, TypeOK, Once, Reached
  <2>3. TypeOK'
    BY <1>1, <1>2, <2>2, Static DEF IInv, TypeOK, Steps
  <2>4. ReachedWhenResolved'
    <3> SUFFICES ASSUME NEW i \in DOMAIN nodes
                 PROVE  nodes[i].id \in Reached' <=> Unresolved(i) = {} /\ i < idx + 1
      BY <1>1, <1>4 DEF ReachedWhenResolved
    <3>1. CASE i = idx
      BY <1>2, <1>7, <1>8, <2>2, <3>1
    <3>2. CASE i # idx
      <4>1. nodes[i].id # n
        BY <1>1, <1>2, <3>2 DEF DistinctIds
      <4>2. i < idx <=> i < idx + 1
        BY <1>1, <1>2, <3>2, Rows
      <4> QED BY <1>1, <2>2, <4>1, <4>2 DEF IInv, ReachedWhenResolved, Working
    <3> QED BY <3>1, <3>2
  <2>5. Once' /\ Staged'
    BY <1>1, <1>2, <1>3, <2>2, Static DEF IInv, Once, Staged, Working
  <2>6. StuckUnreached'
    <3>1. \A k \in DOMAIN nodes[idx].depends_on : Source(<<idx, k>>) \in Reached
      BY <1>3, <1>7, <1>8 DEF Unresolved
    <3>2. \A S \in SUBSET Ids : Stuck(S) => n \notin S
      BY <1>1, <1>2, <3>1, ReachSafely DEF IInv
    <3> QED BY <1>1, <2>2, <3>2, Static DEF IInv, StuckUnreached
  <2> QED BY <1>1, <1>3, <1>5, <2>3, <2>4, <2>5, <2>6
          DEF IInv, DependenciesEarlier, EveryNodeOnce, CyclesRefused
<1>9. CASE indegree[n] # 0
  <2>1. queue' = queue /\ Reached' = Reached
    BY <1>1, <1>9 DEF Collect, Reached, Items
  <2>2. TypeOK'
    BY <1>1, <1>2, <2>1, Static DEF IInv, TypeOK, Steps
  <2>3. ReachedWhenResolved'
    <3> SUFFICES ASSUME NEW i \in DOMAIN nodes
                 PROVE  nodes[i].id \in Reached <=> Unresolved(i) = {} /\ i < idx + 1
      BY <1>1, <1>4, <2>1 DEF ReachedWhenResolved
    <3>1. CASE i = idx
      BY <1>6, <1>7, <1>9, <3>1
    <3>2. CASE i # idx
      <4>1. i < idx <=> i < idx + 1
        BY <1>1, <1>2, <3>2, Rows
      <4> QED BY <1>1, <4>1 DEF IInv, ReachedWhenResolved, Working
    <3> QED BY <3>1, <3>2
  <2>4. Once' /\ Staged' /\ StuckUnreached'
    BY <1>1, <1>2, <1>3, <2>1, Static DEF IInv, Once, Staged, StuckUnreached, Working, Items
  <2> QED BY <1>1, <1>3, <1>5, <2>2, <2>3, <2>4
          DEF IInv, DependenciesEarlier, EveryNodeOnce, CyclesRefused
<1> QED BY <1>8, <1>9

LEMMA EnterIInv == IInv /\ Enter => IInv'
<1> SUFFICES ASSUME IInv, Enter PROVE IInv'
  OBVIOUS
<1>1. /\ UNCHANGED <<nodes, wellFormed, idx, indegree, queue, order, todo>>
      /\ pc = "collect" /\ pc' = "loop" /\ idx > Len(nodes) /\ nodes \in Seq(Node)
  BY DEF IInv, Enter, TypeOK
<1>2. Items(order)' = Items(order) /\ Items(queue)' = Items(queue) /\ Reached' = Reached
  BY <1>1 DEF Items, Reached
<1>3. \A i \in DOMAIN nodes : Unresolved(i)' = Unresolved(i)
  BY <1>1, <1>2 DEF Unresolved, Source
<1>4. TypeOK'
  BY <1>1, Static DEF IInv, TypeOK, Steps
<1>5. Counted'
  BY <1>1, <1>3 DEF IInv, Counted, Working
<1>6. ReachedWhenResolved'
  <2>1. \A i \in DOMAIN nodes : i < idx
    BY <1>1, Rows DEF IInv, TypeOK
  <2> QED BY <1>1, <1>2, <1>3, <2>1 DEF IInv, ReachedWhenResolved, Working
<1>7. Once' /\ Staged' /\ StuckUnreached'
  BY <1>1, <1>2, Static DEF IInv, Once, Staged, StuckUnreached, Working
<1>8. DependenciesEarlier' /\ EveryNodeOnce' /\ CyclesRefused'
  BY <1>1, Static DEF IInv, DependenciesEarlier, EveryNodeOnce, CyclesRefused
<1> QED BY <1>4, <1>5, <1>6, <1>7, <1>8 DEF IInv

LEMMA PlaceIInv == IInv /\ Place => IInv'
<1> SUFFICES ASSUME IInv, Place PROVE IInv'
  OBVIOUS
<1> DEFINE n == Head(queue)
<1>1. /\ UNCHANGED <<nodes, wellFormed, pc, idx, indegree>>
      /\ pc = "loop" /\ Working /\ Valid /\ DistinctIds /\ todo = {} /\ todo' = Outgoing(n)
      /\ nodes \in Seq(Node) /\ queue \in Seq(Names) /\ queue # <<>> /\ order \in Seq(Names)
      /\ order' = Append(order, n) /\ queue' = Tail(queue)
  BY DEF IInv, Place, TypeOK, Staged, Working, Valid
<1>2. /\ DOMAIN order = 1..Len(order) /\ DOMAIN order' = 1..(Len(order) + 1)
      /\ Len(order) \in Nat /\ order' \in Seq(Names)
      /\ \A p \in DOMAIN order : order'[p] = order[p]
      /\ order'[Len(order) + 1] = n
  <2>1. n \in Names
    BY <1>1
  <2> QED BY <1>1, <2>1
<1>3. /\ DOMAIN queue = 1..Len(queue) /\ Len(queue) \in Nat \ {0} /\ n = queue[1]
      /\ queue' \in Seq(Names) /\ DOMAIN queue' = 1..(Len(queue) - 1)
      /\ \A p \in DOMAIN queue' : queue'[p] = queue[p + 1]
  BY <1>1
<1>4. n \in Items(queue) /\ n \in Reached /\ n \in Ids /\ n \notin Items(order)
  BY <1>3 DEF IInv, Once, Reached, Items
<1>5. Items(order)' = Items(order) \cup {n}
  BY <1>2 DEF Items
<1>6. Items(queue)' = Items(queue) \ {n}
  <2>1. \A p \in DOMAIN queue' : queue'[p] \in Items(queue) \ {n}
    BY <1>3 DEF IInv, Once, Items
  <2>2. ASSUME NEW p \in DOMAIN queue, queue[p] # n
        PROVE  queue[p] \in Items(queue)'
    <3>1. p - 1 \in DOMAIN queue' /\ queue'[p - 1] = queue[p]
      BY <1>3, <2>2
    <3> QED BY <3>1 DEF Items
  <2> QED BY <2>1, <2>2 DEF Items
<1>7. Reached' = Reached
  BY <1>4, <1>5, <1>6 DEF Reached
<1>8. ASSUME NEW i \in DOMAIN nodes
      PROVE  Unresolved(i)' = Unresolved(i)
  <2>1. ASSUME NEW k \in DOMAIN nodes[i].depends_on
        PROVE  k \in Unresolved(i)' <=> k \in Unresolved(i)
    <3>1. <<i, k>> \in todo' <=> Source(<<i, k>>) = n
      BY <1>1, Rows DEF Outgoing
    <3>2. Source(<<i, k>>)' = Source(<<i, k>>)
      BY <1>1, Static
    <3> QED BY <1>1, <1>4, <1>5, <3>1, <3>2 DEF Unresolved
  <2> QED BY <1>1, <2>1 DEF Unresolved
<1>9. TypeOK'
  <2>1. todo' \subseteq Edges
    BY <1>1 DEF Outgoing
  <2> QED BY <1>1, <1>2, <1>3, <2>1, Static DEF IInv, TypeOK, Steps
<1>10. Counted' /\ ReachedWhenResolved'
  BY <1>1, <1>7, <1>8 DEF IInv, Counted, ReachedWhenResolved, Working
<1>11. Once'
  <2>1. \A p, q \in DOMAIN order' : order'[p] = order'[q] => p = q
    <3>1. \A p \in DOMAIN order : order[p] # n
      BY <1>4 DEF Items
    <3> QED BY <1>2, <3>1 DEF IInv, Once
  <2>2. \A p, q \in DOMAIN queue' : queue'[p] = queue'[q] => p = q
    BY <1>3 DEF IInv, Once
  <2> QED BY <1>1, <1>4, <1>5, <1>6, <1>7, <2>1, <2>2, Static DEF IInv, Once
<1>12. Staged'
  <2>1. \A e \in todo' : Source(e)' \in Items(order)'
    BY <1>1, <1>5, Static DEF Outgoing
  <2> QED BY <1>1, <2>1, Static DEF IInv, Staged, Working
<1>13. DependenciesEarlier'
  <2> SUFFICES ASSUME NEW p \in DOMAIN order', NEW e \in Edges, Target(e) = order'[p]
               PROVE  \E q \in 1..(p - 1) : order'[q] = Source(e)
    BY <1>1, Static DEF DependenciesEarlier
  <2>1. CASE p \in DOMAIN order
    <3>1. PICK q \in 1..(p - 1) : order[q] = Source(e)
      BY <1>2, <2>1 DEF IInv, DependenciesEarlier
    <3> QED BY <1>2, <2>1, <3>1
  <2>2. CASE p = Len(order) + 1
    <3>1. e[1] \in DOMAIN nodes /\ e[2] \in DOMAIN nodes[e[1]].depends_on /\ e = <<e[1], e[2]>>
      BY <1>1, Rows
    <3>2. nodes[e[1]].id \in Reached
      BY <1>2, <1>4, <2>2 DEF Target
    <3>3. Unresolved(e[1]) = {}
      BY <1>1, <3>1, <3>2 DEF IInv, ReachedWhenResolved
    <3>4. Source(e) \in Items(order)
      BY <3>1, <3>3 DEF Unresolved
    <3>5. PICK q \in DOMAIN order : order[q] = Source(e)
      BY <3>4 DEF Items
    <3> QED BY <1>2, <2>2, <3>5
  <2> QED BY <1>2, <2>1, <2>2
<1>14. StuckUnreached' /\ CyclesRefused'
  BY <1>1, <1>7, Static DEF IInv, StuckUnreached, CyclesRefused
<1>15. EveryNodeOnce'
  BY <1>1, <1>11 DEF Once, EveryNodeOnce
<1> QED BY <1>9, <1>10, <1>11, <1>12, <1>13, <1>14, <1>15 DEF IInv

LEMMA CountOffIInv == IInv /\ CountOff => IInv'
<1> SUFFICES ASSUME IInv, CountOff PROVE IInv'
  OBVIOUS
<1>1. PICK e \in todo :
        /\ todo' = todo \ {e}
        /\ indegree' = [indegree EXCEPT ![Target(e)] = @ - 1]
        /\ queue' = IF indegree[Target(e)] = 1 THEN Append(queue, Target(e)) ELSE queue
  BY DEF CountOff
<1> DEFINE n == Target(e)
           r == e[1]
           c == e[2]
<1>2. /\ UNCHANGED <<nodes, wellFormed, pc, idx, order>>
      /\ pc = "loop" /\ Working /\ Valid /\ DistinctIds
      /\ nodes \in Seq(Node) /\ queue \in Seq(Names) /\ indegree \in [Ids -> Nat]
      /\ todo \subseteq Edges
  BY DEF IInv, CountOff, TypeOK, Staged, Working, Valid
<1>3. /\ e \in Edges /\ r \in DOMAIN nodes /\ c \in DOMAIN nodes[r].depends_on
      /\ e = <<r, c>> /\ n \in Ids /\ n \in Names /\ n = nodes[r].id
  BY <1>2, Rows DEF Target
<1>4. Source(e) \in Items(order)
  BY DEF IInv, Staged
<1>5. Items(order)' = Items(order)
  BY <1>2 DEF Items
<1>6. c \in Unresolved(r)
  BY <1>3 DEF Unresolved
<1>7. ASSUME NEW i \in DOMAIN nodes
      PROVE  Unresolved(i)' = IF i = r THEN Unresolved(i) \ {c} ELSE Unresolved(i)
  <2>1. ASSUME NEW k \in DOMAIN nodes[i].depends_on
        PROVE  k \in Unresolved(i)' <=> k \in Unresolved(i) /\ <<i, k>> # e
    <3>1. Source(<<i, k>>)' = Source(<<i, k>>)
      BY <1>2, Static
    <3> QED BY <1>1, <1>2, <1>4, <1>5, <3>1 DEF Unresolved
  <2> QED BY <1>2, <1>3, <2>1 DEF Unresolved
<1>8. indegree[n] = Cardinality(Unresolved(r))
  BY <1>2, <1>3 DEF IInv, Counted
<1>9. /\ Cardinality(Unresolved(r) \ {c}) = indegree[n] - 1
      /\ Cardinality(Unresolved(r) \ {c}) \in Nat
      /\ indegree[n] = 1 <=> Unresolved(r) \ {c} = {}
  <2>1. IsFiniteSet(Unresolved(r)) /\ Cardinality(Unresolved(r)) \in Nat
    BY <1>2, <1>3, UnresolvedFinite
  <2>2. /\ IsFiniteSet(Unresolved(r) \ {c})
        /\ Cardinality(Unresolved(r) \ {c}) = indegree[n] - 1
    BY <1>6, <1>8, <2>1, FS_RemoveElement
  <2>3. /\ Cardinality(Unresolved(r) \ {c}) \in Nat
        /\ Cardinality(Unresolved(r) \ {c}) = 0 <=> Unresolved(r) \ {c} = {}
    BY <2>2, FS_CardinalityType, FS_EmptySet
  <2> QED BY <1>8, <2>1, <2>2, <2>3
<1>10. n \notin Reached
  BY <1>2, <1>3, <1>6 DEF IInv, ReachedWhenResolved
<1>11. indegree' \in [Ids -> Nat]
  BY <1>1, <1>2, <1>3, <1>9
<1>12. Counted'
  <2> SUFFICES ASSUME NEW i \in DOMAIN nodes
               PROVE  indegree'[nodes[i].id] = Cardinality(Unresolved(i)')
    BY <1>2 DEF Counted
  <2>1. CASE i = r
    <3>1. indegree'[n] = indegree[n] - 1
      BY <1>1, <1>2, <1>3
    <3> QED BY <1>3, <1>7, <1>9, <2>1, <3>1
  <2>2. CASE i # r
    <3>1. nodes[i].id # n /\ nodes[i].id \in Ids
      BY <1>2, <1>3, <2>2, Rows DEF DistinctIds
    <3>2. indegree'[nodes[i].id] = indegree[nodes[i].id]
      BY <1>1, <1>2, <3>1
    <3> QED BY <1>2, <1>7, <2>2, <3>2 DEF IInv, Counted
  <2> QED BY <2>1, <2>2
<1>13. \A f \in todo' : Source(f)' \in Items(order)'
  BY <1>1, <1>2, <1>5, Static DEF IInv, Staged
<1>14. Staged'
  BY <1>2, <1>13, Static DEF IInv, Staged, Working
<1>15. DependenciesEarlier' /\ EveryNodeOnce' /\ CyclesRefused'
  BY <1>2, Static DEF IInv, DependenciesEarlier, EveryNodeOnce, CyclesRefused
<1>16. \A k \in DOMAIN nodes[r].depends_on :
         indegree[n] = 1 => Source(<<r, k>>) \in Reached
  BY <1>3, <1>4, <1>9 DEF Unresolved, Reached
<1>17. CASE indegree[n] = 1
  <2>1. queue' = Append(queue, n)
    BY <1>1, <1>17
  <2>2. /\ queue' \in Seq(Names) /\ Reached' = Reached \cup {n}
        /\ Items(queue)' = Items(queue) \cup {n}
        /\ \A p, q \in DOMAIN queue' : queue'[p] = queue'[q] => p = q
    BY <2>1, <1>2, <1>3, <1>10, Enqueue DEF IInv, Once, Reached
  <2>3. TypeOK'
    BY <1>1, <1>2, <1>11, <2>2, Static DEF IInv, TypeOK, Steps
  <2>4. ReachedWhenResolved'
    <3> SUFFICES ASSUME NEW i \in DOMAIN nodes
                 PROVE  nodes[i].id \in Reached' <=> Unresolved(i)' = {}
      BY <1>2 DEF ReachedWhenResolved
    <3>1. CASE i = r
      BY <1>3, <1>7, <1>9, <1>17, <2>2, <3>1
    <3>2. CASE i # r
      <4>1. nodes[i].id # n
        BY <1>2, <1>3, <3>2 DEF DistinctIds
      <4> QED BY <1>2, <1>7, <2>2, <3>2, <4>1 DEF IInv, ReachedWhenResolved
    <3> QED BY <3>1, <3>2
  <2>5. Once'
    BY <1>2, <1>3, <1>5, <1>10, <2>2, Static DEF IInv, Once, Reached
  <2>6. StuckUnreached'
    <3>1. \A S \in SUBSET Ids : Stuck(S) => n \notin S
      BY <1>2, <1>3, <1>16, <1>17, ReachSafely DEF IInv
    <3> QED BY <1>2, <2>2, <3>1, Static DEF IInv, StuckUnreached
  <2> QED BY <1>12, <1>14, <1>15, <2>3, <2>4, <2>5, <2>6 DEF IInv
<1>18. CASE indegree[n] # 1
  <2>1. queue' = queue /\ Items(queue)' = Items(queue) /\ Reached' = Reached
    BY <1>1, <1>5, <1>18 DEF Reached, Items
  <2>2. TypeOK'
    BY <1>1, <1>2, <1>11, <2>1, Static DEF IInv, TypeOK, Steps
  <2>3. ReachedWhenResolved'
    <3> SUFFICES ASSUME NEW i \in DOMAIN nodes
                 PROVE  nodes[i].id \in Reached <=> Unresolved(i)' = {}
      BY <1>2, <2>1 DEF ReachedWhenResolved
    <3>1. CASE i = r
      BY <1>3, <1>7, <1>9, <1>10, <1>18, <3>1
    <3>2. CASE i # r
      BY <1>2, <1>7, <3>2 DEF IInv, ReachedWhenResolved
    <3> QED BY <3>1, <3>2
  <2>4. Once' /\ StuckUnreached'
    BY <1>2, <1>5, <2>1, Static DEF IInv, Once, StuckUnreached
  <2> QED BY <1>12, <1>14, <1>15, <2>2, <2>3, <2>4 DEF IInv
<1> QED BY <1>17, <1>18

-----------------------------------------------------------------------------
(* The end of the loop. *)

(* As many ids as rows, when no two rows have the same. *)
LEMMA IdsCounted ==
  ASSUME nodes \in Seq(Node), DistinctIds
  PROVE  IsFiniteSet(Ids) /\ Cardinality(Ids) = Len(nodes)
<1> DEFINE f == [i \in 1..Len(nodes) |-> nodes[i].id]
<1>1. f \in Bijection(1..Len(nodes), Ids)
  <2>1. f \in Injection(1..Len(nodes), Ids)
    BY Rows DEF Injection, IsInjective, DistinctIds
  <2>2. \A n \in Ids : \E i \in 1..Len(nodes) : f[i] = n
    BY Rows DEF Ids
  <2> QED BY <2>1, <2>2 DEF Bijection, Surjection, Injection
<1>2. Len(nodes) \in Nat
  BY Rows
<1>3. IsFiniteSet(1..Len(nodes)) /\ Cardinality(1..Len(nodes)) = Len(nodes)
  BY <1>2, FS_Interval
<1> QED BY <1>1, <1>3, FS_Bijection DEF ExistsBijection

LEMMA FinishIInv == IInv /\ Finish => IInv'
<1> SUFFICES ASSUME IInv, Finish PROVE IInv'
  OBVIOUS
<1>1. /\ UNCHANGED <<nodes, wellFormed, idx, indegree, queue, order, todo>>
      /\ pc = "loop" /\ Working /\ Valid /\ DistinctIds /\ todo = {} /\ queue = <<>>
      /\ nodes \in Seq(Node) /\ order \in Seq(Names)
      /\ pc' = IF Len(order) = Len(nodes) THEN "accepted" ELSE "rejected"
  BY DEF IInv, Finish, TypeOK, Staged, Working, Valid
<1>2. /\ Items(order)' = Items(order) /\ Items(queue) = {} /\ Items(queue)' = {}
      /\ Reached = Items(order) /\ Reached' = Reached
  BY <1>1 DEF Items, Reached
<1>3. order \in Injection(1..Len(order), Ids) /\ Len(order) \in Nat
  BY <1>1, <1>2 DEF IInv, Once, Items, Injection, IsInjective
<1>4. /\ IsFiniteSet(1..Len(order)) /\ Cardinality(1..Len(order)) = Len(order)
  BY <1>3, FS_Interval
<1>5. IsFiniteSet(Ids) /\ Cardinality(Ids) = Len(nodes)
  BY <1>1, IdsCounted
<1>6. Len(order) = Len(nodes) <=> Items(order) = Ids
  <2>1. Len(order) = Len(nodes) <=> order \in Surjection(1..Len(order), Ids)
    BY <1>3, <1>4, <1>5, FS_Injection
  <2>2. order \in Surjection(1..Len(order), Ids) <=> Items(order) = Ids
    BY <1>1, <1>2, <1>3 DEF Surjection, Injection, Items
  <2> QED BY <2>1, <2>2
<1>7. TypeOK'
  BY <1>1, Static DEF IInv, TypeOK, Steps
<1>8. Counted' /\ ReachedWhenResolved' /\ Staged'
  BY <1>1, <1>2, Static DEF IInv, Counted, ReachedWhenResolved, Staged, Working
<1>9. Once' /\ StuckUnreached' /\ DependenciesEarlier'
  BY <1>1, <1>2, Static DEF IInv, Once, StuckUnreached, DependenciesEarlier
<1>10. EveryNodeOnce'
  BY <1>1, <1>2, <1>6, Static DEF IInv, EveryNodeOnce
<1>11. CASE Len(order) = Len(nodes)
  <2>1. \A S \in SUBSET Ids : ~Stuck(S)
    BY <1>2, <1>6, <1>11 DEF IInv, StuckUnreached, Stuck
  <2>2. CyclesRefused'
    BY <1>1, <1>11, <2>1, Static DEF CyclesRefused
  <2> QED BY <1>7, <1>8, <1>9, <1>10, <2>2 DEF IInv
<1>12. CASE Len(order) # Len(nodes)
  <2> DEFINE S == Ids \ Items(order)
  <2>1. S # {}
    BY <1>2, <1>6, <1>12 DEF IInv, Once
  <2>2. ASSUME NEW n \in S
        PROVE  \E e \in Edges : Target(e) = n /\ Source(e) \in S
    <3>1. PICK i \in DOMAIN nodes : nodes[i].id = n
      BY DEF Ids
    <3>2. PICK k \in Unresolved(i) : TRUE
      BY <1>1, <1>2, <3>1 DEF IInv, ReachedWhenResolved
    <3>3. /\ k \in DOMAIN nodes[i].depends_on /\ Source(<<i, k>>) \notin Items(order)
          /\ <<i, k>> \in Edges /\ Target(<<i, k>>) = n
      BY <1>1, <3>1, <3>2, Rows DEF Unresolved, Target
    <3>4. Source(<<i, k>>) \in Ids
      BY <1>1, <3>3 DEF Valid, KnownIds
    <3> QED BY <3>3, <3>4
  <2>3. Stuck(S) /\ S \in SUBSET Ids
    BY <2>1, <2>2 DEF Stuck
  <2>4. CyclesRefused'
    BY <1>1, <1>12, <2>3, Static DEF CyclesRefused
  <2> QED BY <1>7, <1>8, <1>9, <1>10, <2>4 DEF IInv
<1> QED BY <1>11, <1>12

LEMMA StutterIInv == IInv /\ UNCHANGED vars => IInv'
<1> SUFFICES ASSUME IInv, UNCHANGED vars PROVE IInv'
  OBVIOUS
<1>1. Items(order)' = Items(order) /\ Items(queue)' = Items(queue) /\ Reached' = Reached
  BY DEF vars, Items, Reached
<1>2. \A i : Unresolved(i)' = Unresolved(i)
  BY DEF vars, Unresolved, Source, Items
<1>3. TypeOK' /\ Counted' /\ ReachedWhenResolved' /\ Staged'
  BY <1>1, <1>2, Static DEF vars, IInv, TypeOK, Counted, ReachedWhenResolved, Staged, Working
<1>4. Once' /\ StuckUnreached' /\ DependenciesEarlier' /\ EveryNodeOnce' /\ CyclesRefused'
  BY <1>1, Static DEF vars, IInv, Once, StuckUnreached, DependenciesEarlier, EveryNodeOnce, CyclesRefused
<1> QED BY <1>3, <1>4 DEF IInv

-----------------------------------------------------------------------------
(* The invariant holds for files of any length (JobDefinition::resolve). *)
THEOREM OrderInvariance == Spec => []IInv
<1>1. IInv /\ [Next]_vars => IInv'
  BY RejectIInv, AcceptIInv, CollectIInv, EnterIInv, PlaceIInv, CountOffIInv, FinishIInv,
     StutterIInv DEF Next
<1> QED BY <1>1, InitIInv, PTL DEF Spec

(* Counters and positions keep their types: indegree never underflows.     *)
THEOREM OrderTypes == Spec => []TypeOK
<1>1. IInv => TypeOK
  BY DEF IInv
<1> QED BY <1>1, OrderInvariance, PTL

(* In the list execute_run walks, dependencies come first: the assumption  *)
(* RunScheduler makes of the definitions it loads (topological_order).     *)
THEOREM OrderSound == Spec => []DependenciesEarlier
<1>1. IInv => DependenciesEarlier
  BY DEF IInv
<1> QED BY <1>1, OrderInvariance, PTL

(* No node is lost or doubled by the loader (topological_order).           *)
THEOREM OrderComplete == Spec => []EveryNodeOnce
<1>1. IInv => EveryNodeOnce
  BY DEF IInv
<1> QED BY <1>1, OrderInvariance, PTL

(* A valid list is refused exactly when some of its nodes wait for each    *)
(* other (topological_order).                                              *)
THEOREM CyclesExact == Spec => []CyclesRefused
<1>1. IInv => CyclesRefused
  BY DEF IInv
<1> QED BY <1>1, OrderInvariance, PTL
=============================================================================
