--------------------------- MODULE MC_Algorithms ---------------------------
(* Three sequential components, one per behaviour, from every input of a   *)
(* small size: plan validation, subject matching and the state store; and  *)
(* the event bus, which delivers by subject matching.                      *)
EXTENDS PlanValidation, SubjectMatching, StateStore, EventBus

VARIABLE machine

\* Dependency graphs over three nodes, self-dependencies and an id that
\* names no node included.
MCNodes == {"a", "b", "c"}
MCIds == MCNodes \cup {"ghost"}
MCGraphs == {g \in [MCNodes -> SUBSET MCIds] : \A n \in MCNodes : Cardinality(g[n]) <= 3}

\* Patterns and subjects of at most three tokens over two names.
UpTo(n, S) == UNION {[1..k -> S] : k \in 1..n}
MCPatterns == UpTo(3, {"a", "b", "*", ">", ""}) \cup {<<>>}
MCSubjects == UpTo(3, {"a", "b"})

\* One subscription to every event of a subtree, one to a single subject; a
\* channel that holds one event overflows at once.
MCPattern == [all |-> <<"run", Rest>>, one |-> <<Any, "done">>]
MCSubs == {"all", "one"}
MCTopics == {<<"run", "done">>, <<"run", "tool", "done">>}

NoMatching == pattern = <<>> /\ subject = <<>> /\ i = 0 /\ verdict = "idle"
NoValidation ==
  /\ deps = [n \in Nodes |-> {}] /\ pc = "idle"
  /\ indegree = [n \in Nodes |-> 0] /\ queue = <<>>
  /\ processed = 0 /\ visited = {}

algorithms == <<machine, vars, matching, store, bus>>

AlgorithmsInit ==
  /\ StoreInit /\ BusInit
  /\ \/ machine = "validation" /\ Init /\ NoMatching
     \/ machine = "matching" /\ NoValidation /\ MatchingInit
     \/ machine \in {"store", "bus"} /\ NoValidation /\ NoMatching

\* When Close has run nothing is left to do for the bus.
Quiet == machine = "bus" /\ closed /\ UNCHANGED algorithms

OfBus(Action) == machine = "bus" /\ Action /\ UNCHANGED <<machine, vars, matching, store>>

AlgorithmsNext ==
  \/ machine = "validation" /\ Next /\ UNCHANGED <<machine, matching, store, bus>>
  \/ machine = "matching" /\ MatchingNext /\ UNCHANGED <<machine, vars, store, bus>>
  \/ machine = "store" /\ StoreNext /\ UNCHANGED <<machine, vars, matching, bus>>
  \/ OfBus(BusNext)
  \/ Quiet

AlgorithmsSpec ==
  /\ AlgorithmsInit /\ [][AlgorithmsNext]_algorithms
  /\ \A p \in Publishers : WF_algorithms(OfBus(Progress(p)))
==========================================================================
