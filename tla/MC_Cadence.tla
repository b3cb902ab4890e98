---------------------------- MODULE MC_Cadence ----------------------------
(* The environments of the cadence engine.                                 *)
EXTENDS Cadence

CONSTANTS a, b, w1, w2, w3

Env(ids, ops, faults, left) ==
    [ids |-> ids, ops |-> ops, faults |-> faults, left |-> left]

\* Two schedules through crashes and panics; one under every operation, with
\* intervals and with the other cadences; one through everything at once but
\* a change of its cadence.
MCEnvironments ==
    {Env({a, b}, {"once", "interval", "grid"}, {"crash", "panic"}, 1),
     Env({a}, {"once", "interval"} \cup Edits, {"panic"}, 1),
     Env({a}, {"grid", "continuous"} \cup Edits, {"panic"}, 1),
     Env({a}, {"once", "interval", "runnow", "pause", "remove"},
             {"crash", "save", "panic"}, 2)}

NoFaults == {Env({a}, {"once"}, {}, 0)}
=============================================================================
