-------------------------- MODULE PlanValidation --------------------------
(***************************************************************************)
(* The checks Executor.Run makes on a plan before it runs anything: every  *)
(* dependency names a node of the plan, and Kahn's algorithm (assertAcyclic)*)
(* finds no cycle.  PlanExecutor uses the result as the operator Acyclic;  *)
(* this module is the algorithm that computes it.                          *)
(***************************************************************************)
EXTENDS Integers, Sequences, FiniteSets, PlanGraph

CONSTANTS
  Nodes,    \* ids of the nodes of the plan
  Ids,      \* ids a DependsOn() may name
  Graphs    \* dependency functions a caller may submit

ASSUME ValidationAssumption ==
  /\ IsFiniteSet(Nodes)
  /\ Nodes \subseteq Ids
  /\ Graphs \subseteq [Nodes -> SUBSET Ids]

VARIABLES
  deps,       \* node -> the ids it depends on
  pc,         \* "resolve", "kahn", or the verdict
  indegree,   \* node -> dependencies not yet processed
  queue,      \* nodes of indegree 0 not yet processed
  processed,  \* how many nodes were taken off the queue
  visited     \* which ones (history)

vars == <<deps, pc, indegree, queue, processed, visited>>

Verdicts == {"valid", "unknown_dependency", "cycle"}
QueueSet == {queue[i] : i \in DOMAIN queue}

\* The arrangements of a finite set as a sequence: the order in which Go
\* iterates over a map.
Arrangements(S) ==
  {s \in [1..Cardinality(S) -> S] :
     /\ \A i, j \in DOMAIN s : s[i] = s[j] => i = j
     /\ \A x \in S : \E i \in DOMAIN s : s[i] = x}

Init ==
  /\ deps \in Graphs
  /\ pc = "resolve"
  /\ indegree = [n \in Nodes |-> 0]
  /\ queue = <<>>
  /\ processed = 0
  /\ visited = {}

\* Mutant: an unknown dependency is not rejected.
ResolveUnchecked ==
  /\ pc = "resolve"
  /\ pc' = "kahn"
  /\ indegree' = [n \in Nodes |-> Cardinality(deps[n])]
  /\ queue' \in Arrangements({n \in Nodes : Cardinality(deps[n]) = 0})
  /\ UNCHANGED <<deps, processed, visited>>

\* Reject an unknown dependency; otherwise count the dependencies of every
\* node and queue the roots.
Resolve ==
  /\ pc = "resolve"
  /\ IF KnownDependencies(Nodes, deps)
       THEN /\ pc' = "kahn"
            /\ indegree' = [n \in Nodes |-> Cardinality(deps[n])]
            /\ queue' \in Arrangements({n \in Nodes : Cardinality(deps[n]) = 0})
       ELSE /\ pc' = "unknown_dependency"
            /\ UNCHANGED <<indegree, queue>>
  /\ UNCHANGED <<deps, processed, visited>>

\* Process the head of the queue: its dependents lose one dependency, and
\* those left with none are queued.
Process ==
  /\ pc = "kahn" /\ queue # <<>>
  /\ LET n == Head(queue)
         below == Dependents(Nodes, deps, n)
     IN /\ processed' = processed + 1
        /\ visited' = visited \cup {n}
        /\ indegree' = [m \in Nodes |-> IF m \in below THEN indegree[m] - 1
                                                       ELSE indegree[m]]
        /\ \E s \in Arrangements({m \in below : indegree[m] = 1}) :
             queue' = Tail(queue) \o s
  /\ UNCHANGED <<deps, pc>>

Conclude ==
  /\ pc = "kahn" /\ queue = <<>>
  /\ pc' = IF processed = Cardinality(Nodes) THEN "valid" ELSE "cycle"
  /\ UNCHANGED <<deps, indegree, queue, processed, visited>>

Returned == pc \in Verdicts /\ UNCHANGED vars

Next == Resolve \/ Process \/ Conclude \/ Returned
Spec == Init /\ [][Next]_vars
--------------------------------------------------------------------------
TypeOK ==
  /\ deps \in Graphs
  /\ pc \in {"resolve", "kahn"} \cup Verdicts
  /\ indegree \in [Nodes -> Int]
  /\ queue \in Seq(Nodes)
  /\ processed \in Nat
  /\ visited \subseteq Nodes

\* The verdict of the validation is the right one for every graph: a plan is
\* accepted exactly when its dependencies are known and have no cycle.
VerdictCorrect ==
  /\ pc = "valid" => KnownDependencies(Nodes, deps) /\ Acyclic(Nodes, deps)
  /\ pc = "cycle" => KnownDependencies(Nodes, deps) /\ ~Acyclic(Nodes, deps)
  /\ pc = "unknown_dependency" => ~KnownDependencies(Nodes, deps)

\* No node is processed twice or queued twice, so that `processed != len(nodes)`
\* compares what it means to compare.
EachNodeOnce ==
  /\ processed = Cardinality(visited)
  /\ QueueSet \cap visited = {}
  /\ \A i, j \in DOMAIN queue : queue[i] = queue[j] => i = j
==========================================================================
