---------------------------- MODULE MC_Approval ----------------------------
(* Two pending requests, two operators who race for them.                  *)
EXTENDS Approval

MCRequests == {"r1", "r2"}
MCOperators == {"o1", "o2"}
==========================================================================
