------------------------- MODULE Algorithms_proofs -------------------------
(***************************************************************************)
(* Three sequential components: the validation of a plan gives the right   *)
(* verdict on every graph, the loop that matches a subject decides the     *)
(* meaning of every pattern, and the state store keeps what it answered.   *)
(***************************************************************************)
EXTENDS PlanValidation, SubjectMatching, StateStore, FiniteSetTheorems, TLAPS

-----------------------------------------------------------------------------
(***************************************************************************)
(* The validation.  Soundness ("valid" means acyclic) needs that the nodes *)
(* processed lie in every set closed under the graph; completeness         *)
(* ("cycle" means there is one) needs that when the queue runs dry the     *)
(* processed nodes are such a closed set themselves.  Both rest on the     *)
(* queue holding exactly the unprocessed nodes whose counter is zero.      *)
(***************************************************************************)

\* S holds every node all of whose dependencies it holds.
Closed(S) == \A n \in Nodes : deps[n] \subseteq S => n \in S

\* What the loop over the queue maintains.
QueueExact ==
  /\ \A n \in Nodes : indegree[n] = Cardinality(deps[n] \ visited)
  /\ \A n \in Nodes : n \in QueueSet <=> n \notin visited /\ indegree[n] = 0
  /\ \A n \in visited : deps[n] \subseteq visited
  /\ \A S \in SUBSET Nodes : Closed(S) => visited \subseteq S

KahnInv ==
  /\ EachNodeOnce
  /\ pc = "resolve" => queue = <<>> /\ visited = {}
  /\ pc \in {"kahn", "valid", "cycle"} => KnownDependencies(Nodes, deps) /\ QueueExact
  /\ pc = "valid" => processed = Cardinality(Nodes)
  /\ pc = "cycle" => processed # Cardinality(Nodes) /\ queue = <<>>
  /\ pc = "unknown_dependency" => ~KnownDependencies(Nodes, deps)

\* Dependencies of a resolved plan are finite sets, and processing one more
\* node takes one away from those left exactly when it is one of them.
LEMMA UnmetShrinks ==
  ASSUME NEW D \in SUBSET Nodes, NEW C, NEW n, n \notin C
  PROVE  /\ Cardinality(D \ C) \in Nat
         /\ Cardinality(D \ C) = 0 <=> D \subseteq C
         /\ Cardinality(D \ (C \cup {n})) =
              IF n \in D THEN Cardinality(D \ C) - 1 ELSE Cardinality(D \ C)
<1>1. IsFiniteSet(D \ C)
  <2>1. D \ C \in SUBSET Nodes OBVIOUS
  <2> QED BY <2>1, ValidationAssumption, FS_Subset
<1>2. D \ (C \cup {n}) = (D \ C) \ {n} OBVIOUS
<1>3. n \in D <=> n \in D \ C OBVIOUS
<1>4. Cardinality((D \ C) \ {n}) =
        IF n \in D \ C THEN Cardinality(D \ C) - 1 ELSE Cardinality(D \ C)
  BY <1>1, FS_RemoveElement
<1>5. Cardinality(D \ C) \in Nat BY <1>1, FS_CardinalityType
<1>6. Cardinality(D \ C) = 0 <=> D \ C = {} BY <1>1, FS_EmptySet
<1> QED BY <1>2, <1>3, <1>4, <1>5, <1>6

\* An arrangement of a set is a sequence of its elements, each at one place.
LEMMA ArrangementsCorrect ==
  ASSUME NEW S \in SUBSET Nodes, NEW s \in Arrangements(S)
  PROVE  /\ s \in Seq(Nodes)
         /\ \A x : (\E p \in DOMAIN s : s[p] = x) <=> x \in S
         /\ \A p, j \in DOMAIN s : s[p] = s[j] => p = j
<1>1. Cardinality(S) \in Nat
  BY ValidationAssumption, FS_Subset, FS_CardinalityType
<1>2. s \in [1..Cardinality(S) -> S] BY DEF Arrangements
<1>3. s \in Seq(Nodes) BY <1>1, <1>2
<1> QED BY <1>2, <1>3 DEF Arrangements

\* Type correctness of the validation.
THEOREM TypeCorrect == Spec => []TypeOK
<1>1. Init => TypeOK BY DEF Init, TypeOK
<1>2. TypeOK /\ [Next]_vars => TypeOK'
  <2> SUFFICES ASSUME TypeOK, [Next]_vars PROVE TypeOK' OBVIOUS
  <2> USE DEF TypeOK, Verdicts
  <2>1. CASE Resolve
    <3>1. CASE KnownDependencies(Nodes, deps)
      <4>1. queue' \in Arrangements({n \in Nodes : Cardinality(deps[n]) = 0})
        BY <2>1, <3>1 DEF Resolve
      <4>2. queue' \in Seq(Nodes) BY <4>1, ArrangementsCorrect
      <4>3. \A n \in Nodes : deps[n] \in SUBSET Nodes
        BY <3>1 DEF KnownDependencies
      <4>4. \A n \in Nodes : Cardinality(deps[n]) \in Int
        BY <4>3, ValidationAssumption, FS_Subset, FS_CardinalityType
      <4> QED BY <2>1, <3>1, <4>2, <4>4 DEF Resolve
    <3>2. CASE ~KnownDependencies(Nodes, deps) BY <2>1, <3>2 DEF Resolve
    <3> QED BY <3>1, <3>2
  <2>2. CASE Process
    <3> DEFINE below == Dependents(Nodes, deps, Head(queue))
    <3>1. PICK s \in Arrangements({m \in below : indegree[m] = 1}) : queue' = Tail(queue) \o s
      BY <2>2 DEF Process
    <3>2. {m \in below : indegree[m] = 1} \in SUBSET Nodes BY DEF Dependents
    <3>3. s \in Seq(Nodes) BY <3>2, ArrangementsCorrect
    <3>4. Head(queue) \in Nodes /\ Tail(queue) \in Seq(Nodes) BY <2>2 DEF Process
    <3>5. queue' \in Seq(Nodes) BY <3>1, <3>3, <3>4
    <3> QED BY <2>2, <3>4, <3>5 DEF Process
  <2>3. CASE Conclude BY <2>3 DEF Conclude
  <2>4. CASE UNCHANGED vars BY <2>4 DEF vars
  <2> QED BY <2>1, <2>2, <2>3, <2>4 DEF Next, Returned
<1> QED BY <1>1, <1>2, PTL DEF Spec

-----------------------------------------------------------------------------
\* Taking the head of a queue without repetitions and appending an arrangement
\* of nodes it does not hold.
LEMMA QueueStep ==
  ASSUME NEW q \in Seq(Nodes), q # <<>>,
         \A p, j \in DOMAIN q : q[p] = q[j] => p = j,
         NEW S \in SUBSET Nodes, \A p \in DOMAIN q : q[p] \notin S,
         NEW s \in Arrangements(S)
  PROVE  LET r == Tail(q) \o s
         IN  /\ {r[p] : p \in DOMAIN r} = ({q[p] : p \in DOMAIN q} \ {Head(q)}) \cup S
             /\ \A p, j \in DOMAIN r : r[p] = r[j] => p = j
<1> DEFINE r == Tail(q) \o s
<1>1. /\ s \in Seq(Nodes)
      /\ \A x : (\E p \in DOMAIN s : s[p] = x) <=> x \in S
      /\ \A p, j \in DOMAIN s : s[p] = s[j] => p = j
  BY ArrangementsCorrect
<1>2. /\ Len(q) \in Nat \ {0} /\ Len(s) \in Nat
      /\ DOMAIN q = 1..Len(q) /\ DOMAIN s = 1..Len(s)
  BY <1>1
<1>3. /\ Tail(q) \in Seq(Nodes) /\ Len(Tail(q)) = Len(q) - 1
      /\ \A p \in 1..(Len(q) - 1) : Tail(q)[p] = q[p + 1]
      /\ Head(q) = q[1]
  BY <1>2
<1>4. /\ DOMAIN r = 1..(Len(q) - 1 + Len(s))
      /\ \A p \in 1..(Len(q) - 1) : r[p] = q[p + 1]
      /\ \A p \in Len(q)..(Len(q) - 1 + Len(s)) : r[p] = s[p - (Len(q) - 1)]
  BY <1>1, <1>2, <1>3
<1> HIDE DEF r
<1>5. ASSUME NEW p \in DOMAIN r
      PROVE  r[p] \in ({q[k] : k \in DOMAIN q} \ {Head(q)}) \cup S
  <2>1. CASE p \in 1..(Len(q) - 1)
    <3>1. r[p] = q[p + 1] /\ p + 1 \in DOMAIN q /\ 1 \in DOMAIN q /\ p + 1 # 1
      BY <2>1, <1>2, <1>4
    <3> QED BY <3>1, <1>3
  <2>2. CASE p \in Len(q)..(Len(q) - 1 + Len(s))
    <3>1. r[p] = s[p - (Len(q) - 1)] /\ p - (Len(q) - 1) \in DOMAIN s
      BY <2>2, <1>2, <1>4
    <3> QED BY <3>1, <1>1
  <2> QED BY <2>1, <2>2, <1>2, <1>4
<1>6. ASSUME NEW k \in DOMAIN q, q[k] # Head(q)
      PROVE  \E p \in DOMAIN r : r[p] = q[k]
  <2>1. k - 1 \in 1..(Len(q) - 1) /\ k - 1 \in DOMAIN r BY <1>2, <1>3, <1>4, <1>6
  <2>2. r[k - 1] = q[k] BY <2>1, <1>2, <1>4
  <2> QED BY <2>1, <2>2
<1>7. ASSUME NEW x \in S
      PROVE  \E p \in DOMAIN r : r[p] = x
  <2>1. PICK k \in DOMAIN s : s[k] = x BY <1>1
  <2>2. /\ k + (Len(q) - 1) \in Len(q)..(Len(q) - 1 + Len(s))
        /\ k + (Len(q) - 1) \in DOMAIN r
        /\ (k + (Len(q) - 1)) - (Len(q) - 1) = k
    BY <2>1, <1>2, <1>4
  <2>3. r[k + (Len(q) - 1)] = s[k] BY <2>2, <1>4
  <2> QED BY <2>1, <2>2, <2>3
<1>8. ASSUME NEW p \in DOMAIN r, NEW j \in DOMAIN r, r[p] = r[j] PROVE p = j
  <2>1. CASE p \in 1..(Len(q) - 1) /\ j \in 1..(Len(q) - 1)
    <3>1. q[p + 1] = q[j + 1] /\ p + 1 \in DOMAIN q /\ j + 1 \in DOMAIN q
      BY <2>1, <1>2, <1>4, <1>8
    <3>2. p + 1 = j + 1 BY <3>1
    <3> QED BY <3>2, <2>1
  <2>2. CASE p \in Len(q)..(Len(q) - 1 + Len(s)) /\ j \in Len(q)..(Len(q) - 1 + Len(s))
    <3>1. /\ s[p - (Len(q) - 1)] = s[j - (Len(q) - 1)]
          /\ p - (Len(q) - 1) \in DOMAIN s /\ j - (Len(q) - 1) \in DOMAIN s
      BY <2>2, <1>2, <1>4, <1>8
    <3>2. p - (Len(q) - 1) = j - (Len(q) - 1) BY <3>1, <1>1
    <3> QED BY <3>2, <2>2, <1>2
  <2>3. ASSUME NEW k \in 1..(Len(q) - 1), NEW l \in Len(q)..(Len(q) - 1 + Len(s))
        PROVE  r[k] # r[l]
    <3>1. r[k] = q[k + 1] /\ k + 1 \in DOMAIN q BY <1>2, <1>4
    <3>2. r[l] = s[l - (Len(q) - 1)] /\ l - (Len(q) - 1) \in DOMAIN s BY <1>2, <1>4
    <3>3. r[l] \in S BY <3>2, <1>1
    <3> QED BY <3>1, <3>3
  <2> QED BY <2>1, <2>2, <2>3, <1>2, <1>4, <1>8
<1>9. {r[p] : p \in DOMAIN r} = ({q[p] : p \in DOMAIN q} \ {Head(q)}) \cup S
  BY <1>5, <1>6, <1>7
<1> QED BY <1>8, <1>9 DEF r

\* The invariant of the algorithm is inductive.
THEOREM KahnInvariant == Spec => []KahnInv
<1> USE ValidationAssumption
<1>1. Init => KahnInv
  <2> SUFFICES ASSUME Init PROVE KahnInv OBVIOUS
  <2>1. Cardinality({}) = 0 BY FS_EmptySet
  <2>2. DOMAIN queue = {} BY DEF Init
  <2> QED BY <2>1, <2>2 DEF Init, KahnInv, EachNodeOnce, QueueSet
<1>2. TypeOK /\ KahnInv /\ [Next]_vars => KahnInv'
  <2> SUFFICES ASSUME TypeOK, KahnInv, [Next]_vars PROVE KahnInv' OBVIOUS
  <2>k. KnownDependencies(Nodes, deps) => \A n \in Nodes : deps[n] \in SUBSET Nodes
    BY DEF KnownDependencies
  <2>1. CASE Resolve /\ KnownDependencies(Nodes, deps)
    <3> DEFINE roots == {n \in Nodes : Cardinality(deps[n]) = 0}
    <3>1. /\ pc = "resolve" /\ pc' = "kahn" /\ queue' \in Arrangements(roots)
          /\ indegree' = [n \in Nodes |-> Cardinality(deps[n])]
          /\ visited = {} /\ visited' = {} /\ processed' = processed /\ deps' = deps
      BY <2>1 DEF Resolve, KahnInv
    <3>2. QueueSet' = roots
      <4>1. roots \in SUBSET Nodes OBVIOUS
      <4> HIDE DEF roots
      <4>2. \A x : (\E p \in DOMAIN queue' : queue'[p] = x) <=> x \in roots
        BY <3>1, <4>1, ArrangementsCorrect
      <4>3. QueueSet' = {queue'[p] : p \in DOMAIN queue'} BY DEF QueueSet
      <4> QED BY <4>2, <4>3
    <3>3. \A p, j \in DOMAIN queue' : queue'[p] = queue'[j] => p = j
      BY <3>1, ArrangementsCorrect
    <3>4. EachNodeOnce' BY <3>1, <3>2, <3>3 DEF EachNodeOnce, KahnInv
    <3>5. \A n \in Nodes : deps[n] \ {} = deps[n] OBVIOUS
    <3>6. QueueExact' BY <3>1, <3>2, <3>5 DEF QueueExact
    <3> QED BY <2>1, <3>1, <3>4, <3>6 DEF KahnInv
  <2>2. CASE Resolve /\ ~KnownDependencies(Nodes, deps)
    BY <2>2 DEF Resolve, KahnInv, EachNodeOnce, QueueSet
  <2>3. CASE Process
    <3> DEFINE n == Head(queue)
               below == Dependents(Nodes, deps, n)
               freed == {m \in below : indegree[m] = 1}
    <3>1. /\ pc = "kahn" /\ pc' = "kahn" /\ queue # <<>> /\ deps' = deps
          /\ processed' = processed + 1 /\ visited' = visited \cup {n}
          /\ indegree' = [m \in Nodes |-> IF m \in below THEN indegree[m] - 1 ELSE indegree[m]]
          /\ \E s \in Arrangements(freed) : queue' = Tail(queue) \o s
      BY <2>3 DEF Process
    <3>2. KnownDependencies(Nodes, deps) /\ QueueExact /\ EachNodeOnce
      BY <3>1 DEF KahnInv
    <3>3. n \in Nodes /\ n \in QueueSet
      <4>1. queue \in Seq(Nodes) BY DEF TypeOK
      <4>2. 1 \in DOMAIN queue /\ n = queue[1] BY <3>1, <4>1
      <4> QED BY <4>1, <4>2 DEF QueueSet
    <3>4. n \notin visited /\ indegree[n] = 0 BY <3>2, <3>3 DEF QueueExact
    <3>5. \A m \in Nodes : n \in deps[m] => indegree[m] # 0
      <4> SUFFICES ASSUME NEW m \in Nodes, n \in deps[m] PROVE indegree[m] # 0 OBVIOUS
      <4>1. indegree[m] = Cardinality(deps[m] \ visited) BY <3>2 DEF QueueExact
      <4>2. deps[m] \in SUBSET Nodes BY <2>k, <3>2
      <4> HIDE DEF n
      <4>3. Cardinality(deps[m] \ visited) = 0 <=> deps[m] \subseteq visited
        BY <3>4, <4>2, UnmetShrinks
      <4> QED BY <3>4, <4>1, <4>3
    <3>6. \A m \in Nodes : indegree'[m] = Cardinality(deps[m] \ visited')
      <4> SUFFICES ASSUME NEW m \in Nodes
                   PROVE  indegree'[m] = Cardinality(deps[m] \ (visited \cup {n}))
        BY <3>1
      <4>1. indegree[m] = Cardinality(deps[m] \ visited) BY <3>2 DEF QueueExact
      <4>2. deps[m] \in SUBSET Nodes BY <2>k, <3>2
      <4>3. m \in below <=> n \in deps[m] BY DEF Dependents
      <4> HIDE DEF n, below
      <4>4. Cardinality(deps[m] \ (visited \cup {n})) =
              IF n \in deps[m] THEN Cardinality(deps[m] \ visited) - 1
                               ELSE Cardinality(deps[m] \ visited)
        BY <3>4, <4>2, UnmetShrinks
      <4> QED BY <3>1, <4>1, <4>3, <4>4
    <3>7. deps[n] \subseteq visited
      <4>1. deps[n] \in SUBSET Nodes BY <2>k, <3>2, <3>3
      <4>2. Cardinality(deps[n] \ visited) = 0 BY <3>2, <3>3, <3>4 DEF QueueExact
      <4> HIDE DEF n
      <4> QED BY <3>4, <4>1, <4>2, UnmetShrinks
    <3>8. /\ QueueSet' = (QueueSet \ {n}) \cup freed
          /\ \A p, j \in DOMAIN queue' : queue'[p] = queue'[j] => p = j
      <4>1. freed \in SUBSET Nodes BY DEF Dependents
      <4>2. \A p \in DOMAIN queue : queue[p] \notin freed
        BY <3>2 DEF QueueExact, QueueSet, Dependents
      <4>3. PICK s \in Arrangements(freed) : queue' = Tail(queue) \o s BY <3>1
      <4>4. queue \in Seq(Nodes) /\ \A p, j \in DOMAIN queue : queue[p] = queue[j] => p = j
        BY <3>2 DEF TypeOK, EachNodeOnce
      <4> HIDE DEF freed
      <4>5. LET r == Tail(queue) \o s
            IN  /\ {r[p] : p \in DOMAIN r} =
                     ({queue[p] : p \in DOMAIN queue} \ {Head(queue)}) \cup freed
                /\ \A p, j \in DOMAIN r : r[p] = r[j] => p = j
        BY <3>1, <4>1, <4>2, <4>3, <4>4, QueueStep
      <4> QED BY <4>3, <4>5 DEF QueueSet
    <3>9. \A m \in visited : indegree[m] = 0
      <4> SUFFICES ASSUME NEW m \in visited PROVE indegree[m] = 0 OBVIOUS
      <4>1. m \in Nodes BY DEF TypeOK
      <4>2. deps[m] \ visited = {} /\ indegree[m] = Cardinality(deps[m] \ visited)
        BY <3>2, <4>1 DEF QueueExact
      <4> QED BY <4>2, FS_EmptySet
    <3>10. \A m \in Nodes : m \in QueueSet' <=> m \notin visited' /\ indegree'[m] = 0
      <4> SUFFICES ASSUME NEW m \in Nodes
                   PROVE  m \in QueueSet' <=> m \notin visited' /\ indegree'[m] = 0
        OBVIOUS
      <4>1. m \in below <=> n \in deps[m] BY DEF Dependents
      <4>2. indegree[m] \in Int BY DEF TypeOK
      <4>3. m \in QueueSet <=> m \notin visited /\ indegree[m] = 0 BY <3>2 DEF QueueExact
      <4>4. m \in freed <=> n \in deps[m] /\ indegree[m] = 1 BY <4>1
      <4>5. indegree'[m] = IF n \in deps[m] THEN indegree[m] - 1 ELSE indegree[m]
        BY <3>1, <4>1
      <4>6. n \in deps[m] => indegree[m] # 0 BY <3>5
      <4>7. m \in visited => indegree[m] = 0 BY <3>9
      <4>8. m \in visited' <=> m \in visited \/ m = n BY <3>1
      <4>9. m \in QueueSet' <=> (m \in QueueSet /\ m # n) \/ m \in freed BY <3>8
      <4> HIDE DEF n, below, freed
      <4>10. m = n => indegree[m] = 0 BY <3>4
      <4> QED BY <4>2, <4>3, <4>4, <4>5, <4>6, <4>7, <4>8, <4>9, <4>10
    <3>11. \A m \in visited' : deps'[m] \subseteq visited'
      BY <3>1, <3>2, <3>7 DEF QueueExact
    <3>12. \A S \in SUBSET Nodes : Closed(S)' => visited' \subseteq S
      BY <3>1, <3>2, <3>3, <3>7 DEF QueueExact, Closed
    <3>13. QueueExact' BY <3>1, <3>6, <3>10, <3>11, <3>12 DEF QueueExact, Closed
    <3>14. EachNodeOnce'
      <4>1. IsFiniteSet(visited) BY FS_Subset DEF TypeOK
      <4>2. Cardinality(visited') = Cardinality(visited) + 1
        BY <3>1, <3>4, <4>1, FS_AddElement
      <4>3. QueueSet' \cap visited' = {}
        <5>1. QueueSet' \subseteq Nodes
          <6>1. QueueSet \subseteq Nodes BY DEF QueueSet, TypeOK
          <6> QED BY <3>8, <6>1 DEF Dependents
        <5> QED BY <3>10, <5>1
      <4> QED BY <3>1, <3>2, <3>8, <4>2, <4>3 DEF EachNodeOnce
    <3> QED BY <3>1, <3>2, <3>13, <3>14 DEF KahnInv
  <2>4. CASE Conclude
    <3>1. QueueExact' = QueueExact /\ EachNodeOnce' = EachNodeOnce
      BY <2>4 DEF Conclude, QueueExact, EachNodeOnce, QueueSet, Closed
    <3> QED BY <2>4, <3>1 DEF Conclude, KahnInv
  <2>5. CASE UNCHANGED vars
    BY <2>5 DEF vars, KahnInv, QueueExact, EachNodeOnce, QueueSet, Closed
  <2> QED BY <2>1, <2>2, <2>3, <2>4, <2>5 DEF Next, Returned
<1> QED BY <1>1, <1>2, TypeCorrect, PTL DEF Spec

\* For every graph, the plan is accepted exactly when its dependencies are
\* known and have no cycle (Run, assertAcyclic).
THEOREM VerdictAlwaysCorrect == Spec => []VerdictCorrect
<1>1. TypeOK /\ KahnInv => VerdictCorrect
  <2> SUFFICES ASSUME TypeOK, KahnInv PROVE VerdictCorrect OBVIOUS
  <2>1. ASSUME pc = "valid" PROVE Acyclic(Nodes, deps)
    <3>1. Cardinality(visited) = Cardinality(Nodes) /\ QueueExact
      BY <2>1 DEF KahnInv, EachNodeOnce
    <3>2. visited = Nodes
      BY <3>1, ValidationAssumption, FS_Subset DEF TypeOK
    <3> QED BY <3>1, <3>2 DEF QueueExact, Closed, Acyclic
  <2>2. ASSUME pc = "cycle" PROVE ~Acyclic(Nodes, deps)
    <3>1. /\ Cardinality(visited) # Cardinality(Nodes) /\ queue = <<>>
          /\ QueueExact /\ KnownDependencies(Nodes, deps)
      BY <2>2 DEF KahnInv, EachNodeOnce
    <3>2. QueueSet = {} BY <3>1 DEF QueueSet
    <3>3. visited \in SUBSET Nodes /\ visited # Nodes BY <3>1 DEF TypeOK
    <3>4. Closed(visited)
      <4> SUFFICES ASSUME NEW n \in Nodes, deps[n] \subseteq visited PROVE n \in visited
        BY DEF Closed
      <4>1. deps[n] \ visited = {} OBVIOUS
      <4>2. indegree[n] = 0 BY <3>1, <4>1, FS_EmptySet DEF QueueExact
      <4> QED BY <3>1, <3>2, <4>2 DEF QueueExact
    <3> QED BY <3>3, <3>4 DEF Closed, Acyclic
  <2> QED BY <2>1, <2>2 DEF VerdictCorrect, KahnInv
<1> QED BY <1>1, TypeCorrect, KahnInvariant, PTL

\* No node is queued or counted twice, on any graph (assertAcyclic).
THEOREM NodesProcessedOnce == Spec => []EachNodeOnce
<1>1. KahnInv => EachNodeOnce BY DEF KahnInv
<1> QED BY <1>1, KahnInvariant, PTL

-----------------------------------------------------------------------------
(***************************************************************************)
(* Subject matching.  While the loop scans, the tokens before i have been  *)
(* compared: none is the tail wildcard and each fits its counterpart.  A   *)
(* ">" is then met at the last position of a well-formed pattern only.     *)
(***************************************************************************)

Within == i \in Nat /\ i <= Len(pattern) /\ i <= Len(subject)

ComparedSoFar ==
  /\ WellFormed(pattern) /\ Within
  /\ \A j \in 1..i : pattern[j] # Rest /\ pattern[j] \in {Any, subject[j]}

MatchingInv ==
  /\ pattern \in Seq(STRING) /\ subject \in Seq(STRING)
  /\ verdict = "scanning" => ComparedSoFar
  /\ DecidesMatch

\* An index within two lengths that cannot go on has reached one of them.
LEMMA OneRunsOut ==
  ASSUME NEW n \in Nat, NEW a \in Nat, NEW b \in Nat, n <= a, n <= b
  PROVE  /\ ~(n < a /\ n < b) => n = a \/ n = b
         /\ n # a /\ n = b => b < a
OBVIOUS

\* For every pattern and every subject, the loop says "match" exactly for the
\* subjects the pattern stands for (bus.matches).
THEOREM MatchAlwaysDecided == MatchingSpec => []DecidesMatch
<1>1. MatchingInit => MatchingInv
  <2> SUFFICES ASSUME MatchingInit PROVE MatchingInv OBVIOUS
  <2>1. pattern \in Seq(STRING) /\ subject \in Seq(STRING)
    BY MatchingAssumption DEF MatchingInit
  <2>2. Len(pattern) \in Nat /\ Len(subject) \in Nat BY <2>1
  <2> QED BY <2>1, <2>2 DEF MatchingInit, MatchingInv, ComparedSoFar, Within, DecidesMatch
<1>2. MatchingInv /\ [MatchingNext]_matching => MatchingInv'
  <2> SUFFICES ASSUME MatchingInv, [MatchingNext]_matching PROVE MatchingInv' OBVIOUS
  <2> USE DEF MatchingInv
  <2>0. Len(pattern) \in Nat /\ Len(subject) \in Nat /\ DOMAIN pattern = 1..Len(pattern)
    OBVIOUS
  <2>1. CASE Compare
    <3>1. /\ verdict = "scanning" /\ i < Len(pattern) /\ i < Len(subject)
          /\ pattern' = pattern /\ subject' = subject
          /\ ComparedSoFar
      BY <2>1 DEF Compare, More
    <3>2. i + 1 \in DOMAIN pattern BY <2>0, <3>1 DEF ComparedSoFar, Within
    <3>3. CASE pattern[i + 1] = Rest
      <4>1. verdict' = "match" BY <2>1, <3>3 DEF Compare
      <4>2. i + 1 = Len(pattern) /\ pattern # <<>>
        BY <3>1, <3>2, <3>3 DEF ComparedSoFar, Within, WellFormed
      <4>3. Matches(pattern, subject)
        BY <2>0, <3>1, <3>3, <4>2 DEF Matches, ComparedSoFar, Within
      <4> QED BY <3>1, <4>1, <4>3 DEF DecidesMatch
    <3>4. CASE pattern[i + 1] \notin {Rest, Any, subject[i + 1]}
      <4>1. verdict' = "nomatch" BY <2>1, <3>4 DEF Compare
      <4>2. ~Matches(pattern, subject)
        <5>1. CASE pattern[Len(pattern)] = Rest
          <6>1. i + 1 \in 1..(Len(pattern) - 1) BY <2>0, <3>2, <3>4, <5>1
          <6> QED BY <5>1, <6>1, <3>1, <3>4 DEF Matches, ComparedSoFar, Within, WellFormed
        <5>2. CASE pattern[Len(pattern)] # Rest
          <6>1. i + 1 \in 1..Len(pattern) BY <2>0, <3>2
          <6> QED BY <5>2, <6>1, <3>4 DEF Matches
        <5> QED BY <5>1, <5>2
      <4> QED BY <3>1, <4>1, <4>2 DEF DecidesMatch
    <3>5. CASE pattern[i + 1] # Rest /\ pattern[i + 1] \in {Any, subject[i + 1]}
      <4>1. verdict' = "scanning" /\ i' = i + 1 BY <2>1, <3>1, <3>5 DEF Compare
      <4>2. ComparedSoFar' BY <2>0, <3>1, <3>5, <4>1 DEF ComparedSoFar, Within
      <4> QED BY <3>1, <4>1, <4>2 DEF DecidesMatch
    <3> QED BY <3>3, <3>4, <3>5
  <2>2. CASE Exhausted
    <3>1. /\ ComparedSoFar /\ pattern' = pattern /\ subject' = subject
          /\ ~(i < Len(pattern) /\ i < Len(subject))
          /\ verdict' = IF i = Len(pattern) /\ i = Len(subject) THEN "match" ELSE "nomatch"
      BY <2>2 DEF Exhausted, More
    <3>n. Within BY <3>1 DEF ComparedSoFar
    <3>m. i = Len(pattern) \/ i = Len(subject)
      BY ONLY <2>0, <3>1, <3>n, OneRunsOut DEF Within
    <3>2. CASE i = Len(pattern) /\ i = Len(subject)
      <4>1. pattern # <<>> /\ pattern[Len(pattern)] # Rest
        BY <2>0, <3>1, <3>2 DEF ComparedSoFar, Within, WellFormed
      <4>2. Matches(pattern, subject)
        BY <3>1, <3>2, <4>1 DEF Matches, ComparedSoFar, Within
      <4> QED BY <3>1, <3>2, <4>2 DEF DecidesMatch
    <3>3. CASE ~(i = Len(pattern) /\ i = Len(subject))
      <4>1. Len(pattern) # Len(subject) BY ONLY <2>0, <3>n, <3>m, <3>3 DEF Within
      <4>2. CASE pattern[Len(pattern)] = Rest
        <5>1. pattern # <<>> BY <3>1 DEF ComparedSoFar, Within, WellFormed
        <5>2. Len(pattern) # i
          <6> SUFFICES ASSUME Len(pattern) = i PROVE FALSE OBVIOUS
          <6>1. i # 0 BY <2>0, <5>1
          <6>2. i \in 1..i BY <3>n, <6>1 DEF Within
          <6>3. pattern[i] # Rest BY <3>1, <6>2 DEF ComparedSoFar
          <6> QED BY <4>2, <6>3
        <5>3. Len(subject) < Len(pattern) BY ONLY <2>0, <3>n, <3>m, <5>2, OneRunsOut DEF Within
        <5> QED BY <2>0, <3>1, <3>3, <4>2, <5>1, <5>3 DEF Matches, DecidesMatch
      <4>3. CASE pattern[Len(pattern)] # Rest
        BY <3>1, <3>3, <4>1, <4>3 DEF Matches, DecidesMatch
      <4> QED BY <4>2, <4>3
    <3> QED BY <3>2, <3>3
  <2>3. CASE Decided \/ UNCHANGED matching
    <3>1. UNCHANGED <<pattern, subject, i, verdict>> BY <2>3 DEF Decided, matching
    <3> QED BY <3>1 DEF ComparedSoFar, Within, DecidesMatch
  <2> QED BY <2>1, <2>2, <2>3 DEF MatchingNext
<1>3. MatchingInv => DecidesMatch BY DEF MatchingInv
<1> QED BY <1>1, <1>2, <1>3, PTL DEF MatchingSpec

-----------------------------------------------------------------------------
(***************************************************************************)
(* The state store.  No unsynced file is ever given the store's name, so   *)
(* none is garbled; and what a key was promised is in the file and, while  *)
(* the store is up, in memory, unless its last change is doubtful.  Both   *)
(* halves are needed: a later change of another key writes memory over the *)
(* file, and a restart reads memory from the file.  What the directory     *)
(* holds agrees with the answers of its last writing: to these a loss of   *)
(* power goes back.                                                        *)
(***************************************************************************)

Whole(f) == f = [data |-> f.data, form |-> "synced"]

Kept(bucket, k) == Lookup(bucket, k) = promised[k]

StoreInv ==
  /\ Whole(file) /\ Whole(durable)
  /\ temp \in {None, "unsynced", "synced"} /\ changing \in StoreKeys \cup {None}
  /\ up \in BOOLEAN /\ (~up => changing = None) /\ (temp # None => up /\ changing # None)
  /\ \A k \in StoreKeys \ settled.doubtful : Lookup(durable.data, k) = settled.promised[k]
  /\ promised = [k \in StoreKeys |-> promised[k]]
  /\ settled.promised = [k \in StoreKeys |-> settled.promised[k]]
  /\ \A k \in StoreKeys \ doubtful :
       Kept(file.data, k) /\ (up /\ k # changing => Kept(memory, k))

\* An operation is answered when the file has just been given the data that
\* memory holds.
LEMMA AnswerKeeps ==
  ASSUME StoreInv, StoreAssumption, up, changing # None, Answer,
         file' = [data |-> memory, form |-> "synced"]
  PROVE  StoreInv'
<1> USE DEF Answer
<1>1. Whole(file)' /\ Whole(durable)' BY DEF Whole, StoreInv
<1>2. file'.data = memory OBVIOUS
<1>3. ASSUME NEW k \in StoreKeys \ doubtful' PROVE Kept(memory, k)'
  <2>1. CASE k = changing BY <2>1 DEF Kept, StoreInv
  <2>2. CASE k # changing BY <1>3, <2>2 DEF Kept, StoreInv
  <2> QED BY <2>1, <2>2
<1>4. \A k \in StoreKeys \ doubtful' : Kept(file.data, k)'
  BY <1>2, <1>3 DEF Kept
<1> QED BY <1>1, <1>3, <1>4 DEF StoreInv


\* For any keys and values: a key whose last change was answered is on disk
\* and in memory as that change left it, after any failed writes and killed
\* processes; after a loss of power the store is as it was answered when its
\* directory was last written, in every key (FileStore.Set, Delete, Open).
THEOREM PromisesAlwaysKept == StoreSpec => []PromisesKept
<1> USE StoreAssumption
<1>1. StoreInit => StoreInv
  BY DEF StoreInit, StoreInv, NoFile, Whole, Kept, Lookup
<1>2. StoreInv /\ [StoreNext]_store => StoreInv'
  <2> SUFFICES ASSUME StoreInv, [StoreNext]_store PROVE StoreInv' OBVIOUS
  <2>1. ASSUME NEW k \in StoreKeys, NEW v \in Values, Set(k, v) PROVE StoreInv'
    <3>1. /\ up /\ changing = None /\ changing' = k
          /\ memory' = [x \in DOMAIN memory \cup {k} |-> IF x = k THEN v ELSE memory[x]]
          /\ UNCHANGED <<up, file, durable, temp, promised, doubtful, settled>>
      BY <2>1 DEF Set, Change, Ready
    <3>2. ASSUME NEW l \in StoreKeys, l # k
          PROVE  Lookup(memory', l) = Lookup(memory, l)
      BY <3>1, <3>2 DEF Lookup, Restrict
    <3> QED BY <3>1, <3>2 DEF StoreInv, Whole, Kept
  <2>2. ASSUME NEW k \in StoreKeys, Delete(k) PROVE StoreInv'
    <3>1. /\ up /\ changing = None /\ changing' = k
          /\ memory' = Restrict(memory, DOMAIN memory \ {k})
          /\ UNCHANGED <<up, file, durable, temp, promised, doubtful, settled>>
      BY <2>2 DEF Delete, Change, Ready
    <3>2. ASSUME NEW l \in StoreKeys, l # k
          PROVE  Lookup(memory', l) = Lookup(memory, l)
      BY <3>1, <3>2 DEF Lookup, Restrict
    <3> QED BY <3>1, <3>2 DEF StoreInv, Whole, Kept
  <2>3. ASSUME NEW k \in StoreKeys, DeleteMissing(k) PROVE StoreInv'
    BY <2>3 DEF DeleteMissing, Ready, StoreInv, Whole, Kept, Lookup
  <2>4. CASE WriteTemp BY <2>4 DEF WriteTemp, StoreInv, Whole, Kept, None
  <2>5. CASE SyncTemp BY <2>5 DEF SyncTemp, StoreInv, Whole, Kept, None
  <2>6. CASE Rename
    <3>1. temp = "synced" /\ temp # None BY <2>6 DEF Rename, None
    <3> QED BY <2>6, <3>1, AnswerKeeps DEF Rename, StoreInv
  <2>7. CASE RemoveFile
    BY <2>7, AnswerKeeps DEF RemoveFile, NoFile
  <2>8. CASE Fail BY <2>8 DEF Fail, StoreInv, Whole, Kept
  <2>9. CASE Flush BY <2>9 DEF Flush, StoreInv, Whole, Kept
  <2>10. CASE Kill BY <2>10 DEF Kill, Down, StoreInv, Whole, Kept
  <2>11. CASE PowerLoss
    <3>1. AfterPowerLoss = durable BY DEF AfterPowerLoss, StoreInv, Whole
    <3> QED BY <2>11, <3>1 DEF PowerLoss, Down, StoreInv, Whole, Kept
  <2>12. CASE Open BY <2>12 DEF Open, StoreInv, Whole, Kept
  <2>13. CASE UNCHANGED store BY <2>13 DEF store, StoreInv, Whole, Kept
  <2> QED
    BY <2>1, <2>2, <2>3, <2>4, <2>5, <2>6, <2>7, <2>8, <2>9, <2>10, <2>11, <2>12, <2>13
    DEF StoreNext
<1>3. StoreInv => PromisesKept BY DEF StoreInv, PromisesKept, Whole, Kept
<1> QED BY <1>1, <1>2, <1>3, PTL DEF StoreSpec
=============================================================================
