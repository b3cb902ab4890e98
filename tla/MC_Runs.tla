------------------------------ MODULE MC_Runs ------------------------------
(* Three machines, one per behaviour: live runs and their sub-agents       *)
(* (RunLifecycle), the steering of one run (Steering), and the schedules   *)
(* that launch runs (Cadence).                                             *)
EXTENDS RunLifecycle, Steering, MC_Cadence

VARIABLE machine

\* Two root runs that are given the same id, and two sub-agents.
MCRank == [k \in Kids |-> IF k = "k1" THEN 1 ELSE 2]
MCId == [r \in Runs |-> "x"]
MCSettings == {[fanout |-> 1, total |-> 2, depth |-> 2], [fanout |-> 2, total |-> 1, depth |-> 2]}

\* Three interventions of one run: a redirection and a retry of it, and a halt.
MCKeyOf == [c \in Calls |-> IF c = "halt" THEN "key2" ELSE "key1"]
MCPrimitive == [c \in Calls |-> IF c = "halt" THEN "halt" ELSE "redirect"]

all == <<machine, vars, steering, cadence>>

RunsInit ==
  /\ machine \in {"lifecycle", "steering", "cadence"}
  /\ Init /\ (machine # "lifecycle" => cap.fanout = 1)
  /\ SteeringInit
  /\ CadenceInit /\ (machine # "cadence" => env.left = 2)

OfLifecycle(Action) ==
  machine = "lifecycle" /\ Action /\ UNCHANGED <<machine, steering, cadence>>
OfSteering(Action) ==
  machine = "steering" /\ Action /\ UNCHANGED <<machine, vars, cadence>>
OfCadence(Action) ==
  machine = "cadence" /\ Action /\ UNCHANGED <<machine, vars, steering>>

RunsNext == OfLifecycle(Next) \/ OfSteering(SteeringNext) \/ OfCadence(CadenceNext)

RunsSpec ==
  /\ RunsInit /\ [][RunsNext]_all
  /\ \A t \in Tasks : WF_all(OfLifecycle(Unwind(t)))
  /\ WF_all(OfCadence(Due)) /\ WF_all(OfCadence(Elapse))
  /\ WF_all(OfCadence(\E f \in due : Launch(f)))
  /\ WF_all(OfCadence(\E f \in due : Skip(f)))
  /\ \A w \in Workers :
       /\ WF_all(OfCadence(RunEnds(w)))
       /\ WF_all(OfCadence(CompleteFiring(w)))
       /\ WF_all(OfCadence(ClearGuard(w)))
==========================================================================
