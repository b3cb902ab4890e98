---------------------------- MODULE PlanGraph ----------------------------
(***************************************************************************)
(* Dependency graphs of plans, seen as functions from a node to the set of *)
(* nodes its DependsOn() names.  Constant-level definitions shared by the  *)
(* validation and the execution of a plan.                                 *)
(***************************************************************************)

\* d is closed when every dependency of a node of N is itself a node of N.
KnownDependencies(N, d) == \A n \in N : d[n] \subseteq N

\* The reference meaning of "no cycle": the only set that contains every
\* node whose dependencies it contains is the set of all nodes.
Acyclic(N, d) ==
  \A S \in SUBSET N : (\A n \in N : d[n] \subseteq S => n \in S) => S = N

\* The nodes that name n among their dependencies.
Dependents(N, d, n) == {m \in N : n \in d[m]}
==========================================================================
