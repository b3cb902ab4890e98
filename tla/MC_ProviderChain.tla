-------------------------- MODULE MC_ProviderChain -------------------------
(* Two callers that share the daemon's budget.  The second model of the    *)
(* ladder is served by one provider only.  One configuration has circuit   *)
(* breakers and no budget, the other budgets and no breakers.              *)
EXTENDS ProviderChain

MCRoute == <<<<"p", "q">>, <<"q">>>>
MCScopesOf == [c \in Callers |-> {"global"}]
MCConfigs ==
  {[threshold |-> 2, ceilings |-> {0}, costs |-> {0}],
   [threshold |-> 0, ceilings |-> {0, 1}, costs |-> {0, 1}]}
==========================================================================
