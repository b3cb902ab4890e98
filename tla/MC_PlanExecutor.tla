------------------------- MODULE MC_PlanExecutor -------------------------
(* Four nodes: a diamond, a chain, a fan with a gate, and a cyclic plan.   *)
EXTENDS PlanExecutor

MCNodes == 1..4
MCGates == {2}
Diamond == <<{}, {1}, {1}, {2, 3}>>
Fork    == <<{}, {}, {1}, {1, 2}>>
Chain   == <<{}, {1}, {2}, {3}>>
Cycle   == <<{}, {1, 4}, {2}, {3}>>
MCPlans == {Diamond, Fork, Chain, Cycle}

SmallNodes == 1..3
SmallPlans == {<<{}, {}, {1}>>, <<{}, {1}, {1}>>, <<{}, {1}, {2}>>, <<{}, {}, {}>>}
==========================================================================
