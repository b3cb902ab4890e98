--------------------------- MODULE MC_Workflows ---------------------------
(* A plan that runs (PlanExecutor), or the approvals its gates ask for     *)
(* (Approval) after a plan that was rejected.                              *)
EXTENDS MC_PlanExecutor, MC_Approval

VARIABLE machine

workflows == <<machine, vars, approval>>

WorkflowsInit ==
  /\ machine \in {"plan", "approval"}
  /\ Init /\ (machine = "approval" => deps = Cycle)
  /\ ApprovalInit

OfPlan(Action) ==
  (machine = "plan" \/ pc \notin Ended) /\ Action /\ UNCHANGED <<machine, approval>>
OfApproval(Action) ==
  machine = "approval" /\ pc \in Ended /\ Action /\ UNCHANGED <<machine, vars>>

WorkflowsNext == OfPlan(Next) \/ OfApproval(ApprovalNext)

WorkflowsSpec ==
  /\ WorkflowsInit /\ [][WorkflowsNext]_workflows
  /\ WF_workflows(OfPlan(DriverStep))
  /\ \A n \in Nodes : WF_workflows(OfPlan(Begin(n) \/ Announce(n) \/ Exit(n)))
  /\ \A id \in Requests : WF_workflows(OfApproval(Underway(id)))
  /\ \A o \in Operators : WF_workflows(OfApproval(SendDecision(o)))
==========================================================================
