------------------------ MODULE PlanExecutor_proofs ------------------------
(***************************************************************************)
(* Proofs about PlanExecutor, for every set of nodes, every plan over it   *)
(* and every worker-pool size.                                             *)
(***************************************************************************)
EXTENDS PlanExecutor, FiniteSetTheorems, TLAPS

\* What the driver and the goroutines publish has the type of an event.
LEMMA EventTypes ==
  /\ \A k \in {"plan.started", "plan.completed", "plan.failed"} : PlanEvent(k) \in Events
  /\ \A n \in Nodes, k \in {"node.started", "node.completed", "node.failed"} :
       Event(k, n) \in Events
  BY DEF PlanEvent, Event, Events, EventKinds, NodeEventKinds

\* Type correctness: the variables keep their types through every step of the
\* driver, of the node goroutines and of the caller.
THEOREM TypeCorrect == Spec => []TypeOK
<1> USE PlanAssumption
<1>1. Init => TypeOK
  <2> SUFFICES ASSUME Init PROVE TypeOK OBVIOUS
  <2>1. deps \in [Nodes -> SUBSET Nodes] BY DEF Init
  <2>2. \A n \in Nodes : Cardinality(deps[n]) \in Int
    <3> TAKE n \in Nodes
    <3>1. deps[n] \in SUBSET Nodes BY <2>1
    <3>2. IsFiniteSet(deps[n]) BY <3>1, FS_Subset
    <3> QED BY <3>2, FS_CardinalityType
  <2>3. indegree \in [Nodes -> Int] BY <2>2 DEF Init
  <2>4. events \in Seq(Events) BY DEF Init
  <2> QED BY <2>3, <2>4 DEF Init, TypeOK, DriverStates, Ended, Stages
<1>2. TypeOK /\ [Next]_vars => TypeOK'
  <2> SUFFICES ASSUME TypeOK, [Next]_vars PROVE TypeOK' OBVIOUS
  <2> USE DEF TypeOK, DriverStates, Ended, Stages
  <2>a. \A e \in Events : Append(events, e) \in Seq(Events) OBVIOUS
  <2>d. \A n \in Nodes : OneLessUnmet(n) \in [Nodes -> Int] BY DEF OneLessUnmet
  <2>1. CASE Validate BY <2>1, EventTypes, <2>a DEF Validate
  <2>2. CASE PlanStart BY <2>2, EventTypes, <2>a DEF PlanStart
  <2>3. CASE PickReady BY <2>3 DEF PickReady, Startable
  <2>4. CASE AbandonBatch BY <2>4, EventTypes, <2>a DEF AbandonBatch
  <2>5. CASE CountInflight BY <2>5 DEF CountInflight
  <2>6. CASE Wake BY <2>6 DEF Wake
  <2>7. CASE Join BY <2>7, EventTypes, <2>a DEF Join
  <2>8. ASSUME NEW n \in Nodes, FailWithoutRun(n) PROVE TypeOK'
    BY <2>8, <2>d DEF FailWithoutRun
  <2>9. ASSUME NEW n \in Nodes, Check(n) PROVE TypeOK'
    BY <2>9 DEF Check
  <2>10. ASSUME NEW n \in Nodes, Launch(n) PROVE TypeOK'
    BY <2>10 DEF Launch
  <2>11. ASSUME NEW n \in Nodes, Begin(n) PROVE TypeOK'
    BY <2>11, EventTypes, <2>a DEF Begin
  <2>12. ASSUME NEW n \in Nodes, Record(n) PROVE TypeOK'
    BY <2>12, <2>d DEF Record
  <2>13. ASSUME NEW n \in Nodes, Announce(n) PROVE TypeOK'
    BY <2>13, EventTypes, <2>a DEF Announce
  <2>14. ASSUME NEW n \in Nodes, Exit(n) PROVE TypeOK'
    BY <2>14 DEF Exit
  <2>15. CASE Cancel BY <2>15 DEF Cancel
  <2>16. CASE UNCHANGED vars BY <2>16 DEF vars
  <2> QED BY <2>1, <2>2, <2>3, <2>4, <2>5, <2>6, <2>7, <2>8, <2>9, <2>10, <2>11,
             <2>12, <2>13, <2>14, <2>15, <2>16
          DEF Next, DriverStep, NodeStep, Returned
<1> QED BY <1>1, <1>2, PTL DEF Spec

-----------------------------------------------------------------------------
(***************************************************************************)
(* The scheduler's bookkeeping.  None of the three properties proved below *)
(* is inductive alone: that a launched node had all its inputs rests on    *)
(* the batch the driver holds staying launchable while goroutines record   *)
(* outcomes, which rests on the maps of the mutex agreeing with where the  *)
(* goroutines stand, which rests on the dependency counters.               *)
(***************************************************************************)

\* The maps guarded by the mutex agree with where the goroutines stand.
MapsAgree ==
  /\ completed \subseteq started
  /\ completed = errs \cup results
  /\ \A n \in Nodes :
       /\ stage[n] # "idle" => n \in started
       /\ stage[n] \in {"queued", "running"} => n \notin completed
       /\ stage[n] \in {"recorded", "announced", "exited"} => n \in completed
       /\ n \in started /\ stage[n] = "idle" => n \in completed

\* The rest of the batch is launchable, though the mutex was released since
\* pickReady computed it.
BatchLaunchable ==
  pc \in {"launch", "start"} =>
    \A n \in ready : n \notin started /\ deps[n] \subseteq completed \ errs

\* A launched node has the result of every dependency at hand.
UpstreamDone ==
  \A n \in Nodes : stage[n] # "idle" => deps[n] \subseteq results

Bookkeeping ==
  /\ MapsAgree
  /\ BatchLaunchable
  /\ UpstreamDone
  /\ IndegreeExact
  /\ InputsComplete

\* Dependencies are finite sets; none is unmet when their number is zero.
LEMMA NothingUnmet ==
  ASSUME NEW D \in SUBSET Nodes, NEW C
  PROVE  /\ IsFiniteSet(D \ C)
         /\ Cardinality(D \ C) \in Nat
         /\ Cardinality(D \ C) = 0 => D \subseteq C
<1>1. IsFiniteSet(D \ C)
  <2>1. D \ C \in SUBSET Nodes OBVIOUS
  <2> QED BY <2>1, PlanAssumption, FS_Subset
<1>2. Cardinality(D \ C) \in Nat BY <1>1, FS_CardinalityType
<1>3. Cardinality(D \ C) = 0 => D \ C = {} BY <1>1, FS_EmptySet
<1> QED BY <1>1, <1>2, <1>3

\* One more completion takes one away from the unmet dependencies exactly
\* when it is one of them.
LEMMA UnmetShrinks ==
  ASSUME NEW D \in SUBSET Nodes, NEW C, NEW n, n \notin C
  PROVE  Cardinality(D \ (C \cup {n})) =
           IF n \in D THEN Cardinality(D \ C) - 1 ELSE Cardinality(D \ C)
<1>1. D \ (C \cup {n}) = (D \ C) \ {n} OBVIOUS
<1>2. n \in D <=> n \in D \ C OBVIOUS
<1>3. Cardinality((D \ C) \ {n}) =
        IF n \in D \ C THEN Cardinality(D \ C) - 1 ELSE Cardinality(D \ C)
  BY NothingUnmet, FS_RemoveElement
<1> QED BY <1>1, <1>2, <1>3

\* When n is recorded, decrementing the counters of its dependents keeps
\* every counter exact.
LEMMA CountersFollow ==
  ASSUME TypeOK, IndegreeExact, NEW n \in Nodes, n \notin completed,
         completed' = completed \cup {n}, indegree' = OneLessUnmet(n), deps' = deps
  PROVE  IndegreeExact'
<1> SUFFICES ASSUME NEW m \in Nodes
             PROVE  indegree'[m] = Cardinality(deps[m] \ (completed \cup {n}))
  BY DEF IndegreeExact
<1>1. deps[m] \in SUBSET Nodes BY PlanAssumption DEF TypeOK
<1>2. indegree'[m] = IF n \in deps[m] THEN indegree[m] - 1 ELSE indegree[m]
  BY DEF OneLessUnmet
<1>3. indegree[m] = Cardinality(deps[m] \ completed) BY DEF IndegreeExact
<1> QED BY <1>1, <1>2, <1>3, UnmetShrinks

\* A batch is sound when it is picked: a zero counter means that every
\* dependency has completed.
LEMMA StartableReady ==
  ASSUME TypeOK, IndegreeExact, NEW n \in Startable
  PROVE  n \notin started /\ deps[n] \subseteq completed \ errs
<1>1. n \in Nodes /\ indegree[n] = 0 /\ n \notin started /\ deps[n] \cap errs = {}
  BY DEF Startable
<1>2. deps[n] \in SUBSET Nodes BY <1>1, PlanAssumption DEF TypeOK
<1>3. Cardinality(deps[n] \ completed) = 0 BY <1>1 DEF IndegreeExact
<1>4. deps[n] \subseteq completed BY <1>2, <1>3, NothingUnmet
<1> QED BY <1>1, <1>4

\* The bookkeeping holds at every moment of every run.
THEOREM BookkeepingCorrect == Spec => []Bookkeeping
<1> USE PlanAssumption
<1>1. Init => Bookkeeping
  <2> SUFFICES ASSUME Init PROVE Bookkeeping OBVIOUS
  <2>1. \A n \in Nodes : deps[n] \ completed = deps[n] BY DEF Init
  <2>2. IndegreeExact BY <2>1 DEF Init, IndegreeExact
  <2> QED BY <2>2 DEF Init, Bookkeeping, MapsAgree, BatchLaunchable, UpstreamDone, InputsComplete
<1>2. TypeOK /\ Bookkeeping /\ [Next]_vars => Bookkeeping'
  <2> SUFFICES ASSUME TypeOK, Bookkeeping, [Next]_vars PROVE Bookkeeping' OBVIOUS
  <2> USE DEF Bookkeeping
  <2>t. stage \in [Nodes -> Stages] /\ inputs \in [Nodes -> SUBSET Nodes]
    BY DEF TypeOK
  \* A step that touches neither the maps nor the goroutines.
  <2>u. ASSUME UNCHANGED <<deps, indegree, started, completed, errs, results, stage, inputs>>
        PROVE  MapsAgree' /\ UpstreamDone' /\ IndegreeExact' /\ InputsComplete'
    BY <2>u DEF MapsAgree, UpstreamDone, IndegreeExact, InputsComplete
  <2>1. CASE Validate BY <2>1, <2>u DEF Validate, BatchLaunchable
  <2>2. CASE PlanStart BY <2>2, <2>u DEF PlanStart, BatchLaunchable
  <2>3. CASE PickReady
    <3>1. BatchLaunchable' BY <2>3, StartableReady DEF PickReady, BatchLaunchable
    <3> QED BY <2>3, <3>1, <2>u DEF PickReady
  <2>4. CASE AbandonBatch BY <2>4, <2>u DEF AbandonBatch, BatchLaunchable
  <2>5. CASE CountInflight BY <2>5, <2>u DEF CountInflight, BatchLaunchable
  <2>6. CASE Wake BY <2>6, <2>u DEF Wake, BatchLaunchable
  <2>7. CASE Join BY <2>7, <2>u DEF Join, BatchLaunchable
  <2>8. ASSUME NEW n \in Nodes, FailWithoutRun(n) PROVE Bookkeeping'
    <3>1. n \notin started /\ n \notin completed /\ pc' = "failing"
      BY <2>8 DEF FailWithoutRun, Next1, BatchLaunchable, MapsAgree
    <3>2. IndegreeExact' BY <2>8, <3>1, CountersFollow DEF FailWithoutRun
    <3>3. MapsAgree' BY <2>8, <3>1 DEF FailWithoutRun, MapsAgree
    <3>4. BatchLaunchable' BY <3>1 DEF BatchLaunchable
    <3>5. UpstreamDone' /\ InputsComplete'
      BY <2>8 DEF FailWithoutRun, UpstreamDone, InputsComplete
    <3> QED BY <3>2, <3>3, <3>4, <3>5
  <2>9. ASSUME NEW n \in Nodes, Check(n) PROVE Bookkeeping'
    BY <2>9, <2>u DEF Check, BatchLaunchable
  <2>10. ASSUME NEW n \in Nodes, Launch(n) PROVE Bookkeeping'
    <3>1. n \notin started /\ deps[n] \subseteq completed \ errs
      BY <2>10 DEF Launch, Next1, BatchLaunchable
    <3>2. /\ stage'[n] = "queued"
          /\ \A m \in Nodes \ {n} : stage'[m] = stage[m]
      BY <2>10, <2>t DEF Launch
    <3>3. MapsAgree'
      BY <2>10, <3>1, <3>2 DEF Launch, MapsAgree
    <3>4. BatchLaunchable' BY <2>10 DEF Launch, BatchLaunchable
    <3>5. deps[n] \subseteq results BY <3>1 DEF MapsAgree
    <3>6. UpstreamDone' BY <2>10, <3>2, <3>5 DEF Launch, UpstreamDone
    <3>7. IndegreeExact' BY <2>10 DEF Launch, IndegreeExact
    <3>8. InputsComplete' BY <2>10, <3>2 DEF Launch, InputsComplete
    <3> QED BY <3>3, <3>4, <3>6, <3>7, <3>8
  <2>11. ASSUME NEW n \in Nodes, Begin(n) PROVE Bookkeeping'
    <3>1. /\ stage[n] = "queued" /\ stage'[n] = "running"
          /\ \A m \in Nodes \ {n} : stage'[m] = stage[m]
          /\ inputs'[n] = deps[n] \cap results
          /\ \A m \in Nodes \ {n} : inputs'[m] = inputs[m]
      BY <2>11, <2>t DEF Begin
    <3>2. MapsAgree' BY <2>11, <3>1 DEF Begin, MapsAgree
    <3>3. BatchLaunchable' BY <2>11 DEF Begin, BatchLaunchable
    <3>4. UpstreamDone' BY <2>11, <3>1 DEF Begin, UpstreamDone
    <3>5. IndegreeExact' BY <2>11 DEF Begin, IndegreeExact
    <3>6. inputs'[n] = deps[n] BY <3>1 DEF UpstreamDone
    <3>7. InputsComplete' BY <2>11, <3>1, <3>6 DEF Begin, InputsComplete
    <3> QED BY <3>2, <3>3, <3>4, <3>5, <3>7
  <2>12. ASSUME NEW n \in Nodes, Record(n) PROVE Bookkeeping'
    <3>1. /\ stage[n] = "running" /\ stage'[n] = "recorded"
          /\ \A m \in Nodes \ {n} : stage'[m] = stage[m]
      BY <2>12, <2>t DEF Record
    <3>2. n \in started /\ n \notin completed BY <3>1 DEF MapsAgree
    <3>3. /\ completed' = completed \cup {n}
          /\ completed' = errs' \cup results'
          /\ errs \subseteq errs' /\ errs' \subseteq errs \cup {n}
          /\ results \subseteq results'
      BY <2>12 DEF Record, MapsAgree
    <3>4. MapsAgree' BY <2>12, <3>1, <3>2, <3>3 DEF Record, MapsAgree
    <3>5. BatchLaunchable' BY <2>12, <3>2, <3>3 DEF Record, BatchLaunchable
    <3>6. UpstreamDone' BY <2>12, <3>1, <3>3 DEF Record, UpstreamDone
    <3>7. IndegreeExact' BY <2>12, <3>2, CountersFollow DEF Record
    <3>8. InputsComplete' BY <2>12, <3>1 DEF Record, InputsComplete
    <3> QED BY <3>4, <3>5, <3>6, <3>7, <3>8
  <2>13. ASSUME NEW n \in Nodes, Announce(n) PROVE Bookkeeping'
    <3>1. /\ stage[n] = "recorded" /\ stage'[n] = "announced"
          /\ \A m \in Nodes \ {n} : stage'[m] = stage[m]
      BY <2>13, <2>t DEF Announce
    <3>2. MapsAgree' BY <2>13, <3>1 DEF Announce, MapsAgree
    <3>3. BatchLaunchable' BY <2>13 DEF Announce, BatchLaunchable
    <3>4. UpstreamDone' /\ InputsComplete'
      BY <2>13, <3>1 DEF Announce, UpstreamDone, InputsComplete
    <3>5. IndegreeExact' BY <2>13 DEF Announce, IndegreeExact
    <3> QED BY <3>2, <3>3, <3>4, <3>5
  <2>14. ASSUME NEW n \in Nodes, Exit(n) PROVE Bookkeeping'
    <3>1. /\ stage[n] = "announced" /\ stage'[n] = "exited"
          /\ \A m \in Nodes \ {n} : stage'[m] = stage[m]
      BY <2>14, <2>t DEF Exit
    <3>2. MapsAgree' BY <2>14, <3>1 DEF Exit, MapsAgree
    <3>3. BatchLaunchable' BY <2>14 DEF Exit, BatchLaunchable
    <3>4. UpstreamDone' /\ InputsComplete'
      BY <2>14, <3>1 DEF Exit, UpstreamDone, InputsComplete
    <3>5. IndegreeExact' BY <2>14 DEF Exit, IndegreeExact
    <3> QED BY <3>2, <3>3, <3>4, <3>5
  <2>15. CASE Cancel BY <2>15, <2>u DEF Cancel, BatchLaunchable
  <2>16. CASE UNCHANGED vars BY <2>16, <2>u DEF vars, BatchLaunchable
  <2> QED BY <2>1, <2>2, <2>3, <2>4, <2>5, <2>6, <2>7, <2>8, <2>9, <2>10, <2>11,
             <2>12, <2>13, <2>14, <2>15, <2>16
          DEF Next, DriverStep, NodeStep, Returned
<1> QED BY <1>1, <1>2, TypeCorrect, PTL DEF Spec

\* A node whose Run is entered holds the result of every dependency: every
\* one of them completed, and none failed (runNode, pickReady).
THEOREM InputsAlwaysComplete == Spec => []InputsComplete
<1>1. Bookkeeping => InputsComplete BY DEF Bookkeeping
<1> QED BY <1>1, BookkeepingCorrect, PTL

\* The driver's counters are exact whatever the interleaving of the
\* goroutines that decrement them (runNode, failNodeWithoutRun).
THEOREM IndegreeAlwaysExact == Spec => []IndegreeExact
<1>1. Bookkeeping => IndegreeExact BY DEF Bookkeeping
<1> QED BY <1>1, BookkeepingCorrect, PTL

\* The node the driver takes from the batch is fresh: no goroutine was
\* started for it.
LEMMA FreshInBatch ==
  ASSUME TypeOK, Bookkeeping, NEW n \in Nodes, FailWithoutRun(n) \/ Launch(n)
  PROVE  n \notin started /\ stage[n] = "idle"
<1>1. n \notin started
  BY DEF FailWithoutRun, Launch, Next1, Bookkeeping, BatchLaunchable
<1> QED BY <1>1 DEF Bookkeeping, MapsAgree

-----------------------------------------------------------------------------
(***************************************************************************)
(* The driver is never left waiting for a message that will not come.      *)
(***************************************************************************)

\* When the counts of started and of completed nodes differ, a goroutine is
\* still on its way to recording an outcome.
LEMMA InflightIsAlive ==
  ASSUME TypeOK, MapsAgree, Cardinality(started) - Cardinality(completed) # 0
  PROVE  \E n \in Nodes : stage[n] \in {"queued", "running", "recorded"}
<1>1. PICK n \in started : n \notin completed
  <2>1. IsFiniteSet(started) BY PlanAssumption, FS_Subset DEF TypeOK
  <2>2. Cardinality(started) \in Nat BY <2>1, FS_CardinalityType
  <2>3. started # completed BY <2>2
  <2> QED BY <2>3 DEF MapsAgree
<1>2. n \in Nodes /\ stage[n] \in Stages BY DEF TypeOK
<1> QED BY <1>1, <1>2 DEF MapsAgree, Stages

\* The wake-up of the driver is never lost (Run: "the inflight>0 guard
\* guarantee[s] a send is pending or coming, so this never deadlocks").
THEOREM WakeupNeverLost == Spec => []WakeupComing
<1>1. Init => WakeupComing BY DEF Init, WakeupComing
<1>2. TypeOK /\ Bookkeeping /\ WakeupComing /\ [Next]_vars => WakeupComing'
  <2> SUFFICES ASSUME TypeOK, MapsAgree, WakeupComing, [Next]_vars, pc' = "wait"
               PROVE  \/ tokens' > 0
                      \/ \E n \in Nodes : stage'[n] \in {"queued", "running", "recorded"}
    BY DEF Bookkeeping, WakeupComing
  <2>t. stage \in [Nodes -> Stages] /\ tokens \in Nat BY DEF TypeOK
  <2>1. CASE Validate BY <2>1 DEF Validate
  <2>2. CASE PlanStart BY <2>2 DEF PlanStart
  <2>3. CASE PickReady BY <2>3 DEF PickReady
  <2>4. CASE AbandonBatch BY <2>4 DEF AbandonBatch
  <2>5. CASE CountInflight BY <2>5, InflightIsAlive DEF CountInflight
  <2>6. CASE Wake BY <2>6 DEF Wake
  <2>7. CASE Join BY <2>7 DEF Join
  <2>8. ASSUME NEW n \in Nodes, FailWithoutRun(n) \/ Check(n) \/ Launch(n) PROVE FALSE
    BY <2>8 DEF FailWithoutRun, Check, Launch
  <2>9. ASSUME NEW n \in Nodes, Begin(n)
        PROVE  stage'[n] = "running"
    BY <2>9, <2>t DEF Begin
  <2>10. ASSUME NEW n \in Nodes, Record(n)
         PROVE  stage'[n] = "recorded"
    BY <2>10, <2>t DEF Record
  <2>11. ASSUME NEW n \in Nodes, Announce(n)
         PROVE  tokens' > 0
    BY <2>11, <2>t DEF Announce
  <2>12. ASSUME NEW n \in Nodes, Exit(n)
         PROVE  \/ tokens' > 0
                \/ \E m \in Nodes : stage'[m] \in {"queued", "running", "recorded"}
    <3>1. pc = "wait" /\ tokens' = tokens BY <2>12 DEF Exit
    <3>2. \A m \in Nodes : stage[m] \in {"queued", "running", "recorded"} => stage'[m] = stage[m]
      BY <2>12, <2>t DEF Exit
    <3> QED BY <3>1, <3>2 DEF WakeupComing
  <2>13. CASE Cancel BY <2>13 DEF Cancel, WakeupComing
  <2>14. CASE UNCHANGED vars BY <2>14 DEF vars, WakeupComing
  <2> QED BY <2>1, <2>2, <2>3, <2>4, <2>5, <2>6, <2>7, <2>8, <2>9, <2>10, <2>11,
             <2>12, <2>13, <2>14
          DEF Next, DriverStep, NodeStep, Returned
<1> QED BY <1>1, <1>2, TypeCorrect, BookkeepingCorrect, PTL DEF Spec

-----------------------------------------------------------------------------
(***************************************************************************)
(* The buffered channel `done` never fills, so no goroutine is left blocked*)
(* on it after the driver has returned: the messages sent come from        *)
(* different nodes, and there are as many places as nodes.                 *)
(***************************************************************************)

\* The nodes that have sent their message.
Sent ==
  {n \in started : \/ stage[n] \in {"announced", "exited"}
                   \/ stage[n] = "idle" /\ ~(pc = "failing" /\ n \in ready)}

OneMessageEach ==
  /\ tokens <= Cardinality(Sent)
  /\ pc = "failing" => \E n \in started : ready = {n} /\ stage[n] = "idle"

\* Every message on `done` comes from a node of its own, through every step of
\* the driver and of the goroutines.
THEOREM OneMessagePerNode == Spec => []OneMessageEach
<1>1. Init => OneMessageEach
  <2> SUFFICES ASSUME Init PROVE OneMessageEach OBVIOUS
  <2>1. Sent = {} BY DEF Init, Sent
  <2>2. Cardinality(Sent) = 0 BY <2>1, FS_EmptySet
  <2> QED BY <2>2 DEF Init, OneMessageEach
<1>2. TypeOK /\ Bookkeeping /\ OneMessageEach /\ [Next]_vars => OneMessageEach'
  <2> SUFFICES ASSUME TypeOK, Bookkeeping, OneMessageEach, [Next]_vars PROVE OneMessageEach'
    OBVIOUS
  <2>m. MapsAgree BY DEF Bookkeeping
  <2>t. stage \in [Nodes -> Stages] /\ tokens \in Nat /\ started \subseteq Nodes
    BY DEF TypeOK
  <2>f. IsFiniteSet(Sent) /\ Cardinality(Sent) \in Nat
    <3>1. Sent \in SUBSET Nodes BY <2>t DEF Sent
    <3> QED BY <3>1, PlanAssumption, FS_Subset, FS_CardinalityType
  <2>a. ASSUME NEW n, n \notin Sent, Sent' = Sent \cup {n}, tokens' = tokens + 1
        PROVE  tokens' <= Cardinality(Sent')
    <3>1. Cardinality(Sent \cup {n}) = Cardinality(Sent) + 1
      BY <2>a, <2>f, FS_AddElement
    <3> QED BY <2>a, <2>f, <2>t, <3>1 DEF OneMessageEach
  \* A driver step that leaves the goroutines alone and fails no node.
  <2>u. ASSUME UNCHANGED <<started, stage>>, pc # "failing", pc' # "failing",
               tokens' \in {tokens, tokens - 1}
        PROVE  OneMessageEach'
    <3>1. Sent' = Sent BY <2>u DEF Sent
    <3> QED BY <2>u, <2>f, <2>t, <3>1 DEF OneMessageEach
  <2>1. CASE Validate BY <2>1, <2>u DEF Validate
  <2>2. CASE PlanStart BY <2>2, <2>u DEF PlanStart
  <2>3. CASE PickReady BY <2>3, <2>u DEF PickReady
  <2>4. CASE AbandonBatch
    <3>1. PICK n \in started : ready = {n} /\ stage[n] = "idle"
      BY <2>4 DEF AbandonBatch, OneMessageEach
    <3>2. n \notin Sent /\ Sent' = Sent \cup {n} BY <2>4, <3>1 DEF AbandonBatch, Sent
    <3> QED BY <2>4, <2>a, <3>2 DEF AbandonBatch, OneMessageEach
  <2>5. CASE CountInflight BY <2>5, <2>u DEF CountInflight
  <2>6. CASE Wake BY <2>6, <2>u DEF Wake
  <2>7. CASE Join BY <2>7, <2>u DEF Join
  <2>8. ASSUME NEW n \in Nodes, FailWithoutRun(n) PROVE OneMessageEach'
    <3>1. n \notin started /\ stage[n] = "idle" BY <2>8, FreshInBatch
    <3>2. Sent' = Sent BY <2>8, <3>1 DEF FailWithoutRun, Sent
    <3> QED BY <2>8, <3>1, <3>2 DEF FailWithoutRun, OneMessageEach
  <2>9. ASSUME NEW n \in Nodes, Check(n) PROVE OneMessageEach'
    BY <2>9, <2>u DEF Check
  <2>10. ASSUME NEW n \in Nodes, Launch(n) PROVE OneMessageEach'
    <3>1. /\ n \notin started
          /\ stage'[n] = "queued" /\ \A m \in Nodes \ {n} : stage'[m] = stage[m]
      BY <2>10, <2>t, FreshInBatch DEF Launch
    <3>2. Sent' = Sent BY <2>10, <2>t, <3>1 DEF Launch, Sent
    <3> QED BY <2>10, <3>2 DEF Launch, OneMessageEach
  <2>11. ASSUME NEW n \in Nodes, Begin(n) \/ Record(n) \/ Exit(n) PROVE OneMessageEach'
    <3>1. /\ \A m \in Nodes \ {n} : stage'[m] = stage[m]
          /\ \/ stage[n] \in {"queued", "running"} /\ stage'[n] \in {"running", "recorded"}
             \/ stage[n] = "announced" /\ stage'[n] = "exited"
          /\ UNCHANGED <<started, pc, ready, tokens>>
      BY <2>11, <2>t DEF Begin, Record, Exit
    <3>2. Sent' = Sent BY <2>t, <3>1 DEF Sent
    <3> QED BY <2>t, <3>1, <3>2 DEF OneMessageEach
  <2>12. ASSUME NEW n \in Nodes, Announce(n) PROVE OneMessageEach'
    <3>1. /\ \A m \in Nodes \ {n} : stage'[m] = stage[m]
          /\ stage[n] = "recorded" /\ stage'[n] = "announced" /\ n \in started
          /\ UNCHANGED <<started, pc, ready>> /\ tokens' = tokens + 1
      BY <2>12, <2>t, <2>m DEF Announce, MapsAgree
    <3>2. n \notin Sent /\ Sent' = Sent \cup {n} BY <2>t, <3>1 DEF Sent
    <3> QED BY <2>t, <2>a, <3>1, <3>2 DEF OneMessageEach
  <2>13. CASE Cancel
    <3>1. Sent' = Sent BY <2>13 DEF Cancel, Sent
    <3> QED BY <2>13, <3>1 DEF Cancel, OneMessageEach
  <2>14. CASE UNCHANGED vars
    <3>1. Sent' = Sent BY <2>14 DEF vars, Sent
    <3> QED BY <2>14, <3>1 DEF vars, OneMessageEach
  <2> QED BY <2>1, <2>2, <2>3, <2>4, <2>5, <2>6, <2>7, <2>8, <2>9, <2>10, <2>11,
             <2>12, <2>13, <2>14
          DEF Next, DriverStep, NodeStep, Returned
<1> QED BY <1>1, <1>2, TypeCorrect, BookkeepingCorrect, PTL DEF Spec

\* No send on `done` finds its buffer full ("Buffered to the node count so a
\* completing node never blocks sending").
THEOREM SendsNeverBlock == Spec => []SendNeverBlocks
<1>1. TypeOK /\ OneMessageEach => SendNeverBlocks
  <2> SUFFICES ASSUME TypeOK, OneMessageEach PROVE SendNeverBlocks OBVIOUS
  <2>1. Sent \in SUBSET Nodes BY DEF TypeOK, Sent
  <2>2. /\ Cardinality(Sent) <= Cardinality(Nodes)
        /\ Cardinality(Sent) \in Nat /\ Cardinality(Nodes) \in Nat
    BY <2>1, PlanAssumption, FS_Subset, FS_CardinalityType
  <2> QED BY <2>2 DEF TypeOK, OneMessageEach, SendNeverBlocks
<1> QED BY <1>1, TypeCorrect, OneMessagePerNode, PTL

-----------------------------------------------------------------------------
(***************************************************************************)
(* The worker pool: the slots held are those of the compute nodes in the   *)
(* middle of their run, and there are never more than the pool has.        *)
(***************************************************************************)

SlotsHeld ==
  /\ sem = {n \in Nodes \ Gates : stage[n] \in {"running", "recorded", "announced"}}
  /\ Cardinality(sem) <= MaxParallel

\* The worker-pool bound holds for every plan and every pool size; gates take
\* no slot (runNode).
THEOREM PoolNeverExceeded == Spec => []PoolBound
<1> USE PlanAssumption
<1>1. Init => SlotsHeld
  <2> SUFFICES ASSUME Init PROVE SlotsHeld OBVIOUS
  <2>1. sem = {} BY DEF Init
  <2>2. {n \in Nodes \ Gates : stage[n] \in {"running", "recorded", "announced"}} = {}
    BY DEF Init
  <2> QED BY <2>1, <2>2, FS_EmptySet DEF SlotsHeld
<1>2. TypeOK /\ Bookkeeping /\ SlotsHeld /\ [Next]_vars => SlotsHeld'
  <2> SUFFICES ASSUME TypeOK, Bookkeeping, SlotsHeld, [Next]_vars PROVE SlotsHeld' OBVIOUS
  <2>t. stage \in [Nodes -> Stages] BY DEF TypeOK
  <2>f. IsFiniteSet(sem) /\ Cardinality(sem) \in Nat
    BY FS_Subset, FS_CardinalityType DEF TypeOK
  <2>1. ASSUME UNCHANGED <<stage, sem>> PROVE SlotsHeld' BY <2>1 DEF SlotsHeld
  <2>2. ASSUME NEW n \in Nodes, Launch(n) PROVE SlotsHeld'
    <3>1. /\ stage[n] = "idle"
          /\ stage'[n] = "queued" /\ \A m \in Nodes \ {n} : stage'[m] = stage[m]
      BY <2>2, <2>t, FreshInBatch DEF Launch
    <3> QED BY <2>2, <3>1 DEF Launch, SlotsHeld
  <2>3. ASSUME NEW n \in Nodes, Begin(n) PROVE SlotsHeld'
    <3>1. /\ stage[n] = "queued" /\ stage'[n] = "running"
          /\ \A m \in Nodes \ {n} : stage'[m] = stage[m]
      BY <2>3, <2>t DEF Begin
    <3>2. CASE n \in Gates BY <2>3, <3>1, <3>2 DEF Begin, SlotsHeld
    <3>3. CASE n \notin Gates
      <4>1. sem' = sem \cup {n} /\ Cardinality(sem) < MaxParallel BY <2>3, <3>3 DEF Begin
      <4>2. n \notin sem BY <3>1 DEF SlotsHeld
      <4>3. Cardinality(sem') = Cardinality(sem) + 1 BY <4>1, <4>2, <2>f, FS_AddElement
      <4>4. Cardinality(sem') <= MaxParallel BY <4>1, <4>3, <2>f
      <4>5. sem' = {m \in Nodes \ Gates : stage'[m] \in {"running", "recorded", "announced"}}
        BY <4>1, <3>1, <3>3 DEF SlotsHeld
      <4> QED BY <4>4, <4>5 DEF SlotsHeld
    <3> QED BY <3>2, <3>3
  <2>4. ASSUME NEW n \in Nodes, Record(n) \/ Announce(n) PROVE SlotsHeld'
    <3>1. /\ stage[n] \in {"running", "recorded"} /\ stage'[n] \in {"recorded", "announced"}
          /\ \A m \in Nodes \ {n} : stage'[m] = stage[m]
          /\ sem' = sem
      BY <2>4, <2>t DEF Record, Announce
    <3> QED BY <3>1 DEF SlotsHeld
  <2>5. ASSUME NEW n \in Nodes, Exit(n) PROVE SlotsHeld'
    <3>1. /\ stage[n] = "announced" /\ stage'[n] = "exited"
          /\ \A m \in Nodes \ {n} : stage'[m] = stage[m]
          /\ sem' = sem \ {n}
      BY <2>5, <2>t DEF Exit
    <3>2. Cardinality(sem') <= Cardinality(sem) /\ Cardinality(sem') \in Nat
      <4>1. sem' \in SUBSET sem BY <3>1
      <4> QED BY <4>1, <2>f, FS_Subset, FS_CardinalityType
    <3>3. sem' = {m \in Nodes \ Gates : stage'[m] \in {"running", "recorded", "announced"}}
      BY <3>1 DEF SlotsHeld
    <3>4. Cardinality(sem') <= MaxParallel BY <3>2, <2>f DEF SlotsHeld
    <3> QED BY <3>3, <3>4 DEF SlotsHeld
  <2> QED BY <2>1, <2>2, <2>3, <2>4, <2>5
          DEF Next, DriverStep, NodeStep, Returned, vars, Validate, PlanStart, PickReady,
              AbandonBatch, CountInflight, Wake, Join, FailWithoutRun, Check, Cancel
<1>3. SlotsHeld => PoolBound BY DEF SlotsHeld, PoolBound
<1> QED BY <1>1, <1>2, <1>3, TypeCorrect, BookkeepingCorrect, PTL DEF Spec

-----------------------------------------------------------------------------
(***************************************************************************)
(* A cancellation stops the launches: only the node whose node_start check *)
(* had passed before it arrived is still launched.                         *)
(***************************************************************************)

LateOnce ==
  /\ ~cancelled \/ pc = "start" => late = {}
  /\ Cardinality(late) <= 1

\* At most one node is launched after runCtx is cancelled, for every plan and
\* every moment of the cancellation (checkInvariant, then the launch).
THEOREM OneLaunchAfterCancel == Spec => []OneLateLaunch
<1>1. Init => LateOnce
  <2> SUFFICES ASSUME Init PROVE LateOnce OBVIOUS
  <2>1. Cardinality({}) = 0 BY FS_EmptySet
  <2> QED BY <2>1 DEF Init, LateOnce
<1>2. LateOnce /\ [Next]_vars => LateOnce'
  <2> SUFFICES ASSUME LateOnce, [Next]_vars PROVE LateOnce' OBVIOUS
  <2>1. ASSUME late' = late, cancelled => cancelled', pc' = "start" => pc = "start" \/ ~cancelled
        PROVE  LateOnce'
    BY <2>1 DEF LateOnce
  <2>2. ASSUME NEW n \in Nodes, Launch(n) PROVE LateOnce'
    <3>1. late = {} /\ pc' = "launch" BY <2>2 DEF Launch, LateOnce
    <3>2. CASE cancelled
      <4>1. late' = {n} /\ cancelled' BY <2>2, <3>1, <3>2 DEF Launch
      <4>2. Cardinality({n}) = 1 BY FS_Singleton
      <4> QED BY <3>1, <4>1, <4>2 DEF LateOnce
    <3>3. CASE ~cancelled BY <2>2, <3>1, <3>3 DEF Launch, LateOnce
    <3> QED BY <3>2, <3>3
  <2>3. CASE DriverStep
    BY <2>1, <2>2, <2>3 DEF DriverStep, Validate, PlanStart, PickReady, AbandonBatch,
       CountInflight, Wake, Join, FailWithoutRun, Check
  <2>4. ASSUME NEW n \in Nodes, NodeStep(n) PROVE LateOnce'
    BY <2>1, <2>4 DEF NodeStep, Begin, Record, Announce, Exit
  <2>5. CASE Cancel BY <2>1, <2>5 DEF Cancel
  <2>6. CASE UNCHANGED vars BY <2>1, <2>6 DEF vars
  <2> QED BY <2>3, <2>4, <2>5, <2>6 DEF Next, Returned
<1>3. LateOnce => OneLateLaunch BY DEF LateOnce, OneLateLaunch
<1> QED BY <1>1, <1>2, <1>3, PTL DEF Spec

-----------------------------------------------------------------------------
(***************************************************************************)
(* What a plan leaves on the bus: every launched node's start, its outcome *)
(* after it, each once, and the verdict of the plan last.                  *)
(***************************************************************************)

\* Where the journal names n in an event of one of the kinds.
Naming(n, kinds) == UNION {Position(Event(k, n)) : k \in kinds}

Closed(n) ==
  \E i \in Position(Event("node.started", n)), j \in Position(Outcome(n)) :
    /\ i < j
    /\ Position(Event("node.started", n)) = {i}
    /\ Position(Outcome(n)) = {j}

\* A node that failed without a run has an outcome and no start: of those, only
\* what was said before they were given up is stated.
NodeTrail(n) ==
  /\ n \notin started \/ stage[n] = "queued" => Naming(n, NodeEventKinds) = {}
  /\ stage[n] \in {"running", "recorded"} =>
       /\ \E i \in DOMAIN events : Position(Event("node.started", n)) = {i}
       /\ Naming(n, {"node.completed", "node.failed"}) = {}
  /\ stage[n] \in {"announced", "exited"} => Closed(n)

\* A run that has ended, or has launched nothing yet, has no goroutine left
\* that could still publish.
Journalled ==
  /\ \A n \in Nodes : NodeTrail(n)
  /\ pc \in {"failed", "completed"} =>
       /\ events # <<>>
       /\ events[Len(events)].kind \in {"plan.failed", "plan.completed"}
  /\ pc \in {"validate", "planStart"} \cup Ended => \A n \in Nodes : stage[n] \notin Alive

\* An event appended is at one position more, the others stay where they are.
LEMMA PositionsOfAppend ==
  ASSUME events \in Seq(Events), NEW x, events' = Append(events, x), NEW e
  PROVE  /\ Position(e)' = Position(e) \cup (IF x = e THEN {Len(events) + 1} ELSE {})
         /\ Position(e) \subseteq 1..Len(events)
         /\ Len(events) \in Nat
BY DEF Position

LEMMA SamePositions ==
  ASSUME events' = events, NEW e
  PROVE  Position(e)' = Position(e)
BY DEF Position

\* Events of different nodes, or kinds, are different.
LEMMA EventsDiffer ==
  ASSUME NEW k, NEW n
  PROVE  /\ \A l, m : Event(k, n) = Event(l, m) => k = l /\ n = m
         /\ \A l : PlanEvent(l) = Event(k, n) => l = k
BY DEF Event, PlanEvent

\* The trail of a node is disturbed neither by silence nor by what is said of
\* another node or of the plan.
LEMMA TrailBeside ==
  ASSUME events \in Seq(Events), NEW m \in Nodes, NodeTrail(m),
         stage'[m] = stage[m], m \in started' <=> m \in started, m \in errs' <=> m \in errs,
         \/ events' = events
         \/ \E x : /\ events' = Append(events, x)
                   /\ \A k \in NodeEventKinds : x # Event(k, m)
  PROVE  NodeTrail(m)'
<1>1. ASSUME NEW k \in NodeEventKinds
      PROVE  Position(Event(k, m))' = Position(Event(k, m))
  <2>1. CASE events' = events
    BY <2>1 DEF Position, Event
  <2>2. ASSUME NEW x, events' = Append(events, x), x # Event(k, m)
        PROVE  Position(Event(k, m))' = Position(Event(k, m))
    <3> DEFINE e == Event(k, m)
    <3>1. Position(e)' = Position(e) \cup (IF x = e THEN {Len(events) + 1} ELSE {})
      BY <2>2, PositionsOfAppend
    <3> QED BY <2>2, <3>1
  <2> QED BY <2>1, <2>2
<1>2. Outcome(m)' = Outcome(m) /\ Outcome(m) \in {Event(k, m) : k \in NodeEventKinds}
  BY DEF Outcome, NodeEventKinds, Event
<1>3. Position(Outcome(m))' = Position(Outcome(m))
  BY <1>1, <1>2, PositionsOfAppend, SamePositions
<1>4. Position(Event("node.started", m))' = Position(Event("node.started", m))
  BY <1>1 DEF NodeEventKinds
<1>5. DOMAIN events \subseteq DOMAIN events'
  <2>1. CASE events' = events
    BY <2>1
  <2>2. ASSUME NEW x, events' = Append(events, x)
        PROVE  DOMAIN events \subseteq DOMAIN events'
    BY <2>2
  <2> QED BY <2>1, <2>2
<1>6. Closed(m) => Closed(m)'
  BY <1>3, <1>4 DEF Closed
<1>7. /\ Naming(m, NodeEventKinds) = {} => Naming(m, NodeEventKinds)' = {}
      /\ Naming(m, {"node.completed", "node.failed"}) = {}
           => Naming(m, {"node.completed", "node.failed"})' = {}
  BY <1>1 DEF Naming, NodeEventKinds
<1> QED BY <1>4, <1>5, <1>6, <1>7 DEF NodeTrail

\* The new positions are after the old ones, and there is one only.
LEMMA PositionsAfter ==
  ASSUME events \in Seq(Events), NEW k, NEW n, NEW x, events' = Append(events, x)
  PROVE  /\ x = Event(k, n) => Position(Event(k, n))' = Position(Event(k, n)) \cup {Len(events) + 1}
         /\ x # Event(k, n) => Position(Event(k, n))' = Position(Event(k, n))
         /\ \A i \in Position(Event(k, n)) : i \in Nat /\ i < Len(events) + 1
<1> DEFINE e == Event(k, n)
<1>1. /\ Position(e)' = Position(e) \cup (IF x = e THEN {Len(events) + 1} ELSE {})
      /\ Position(e) \subseteq 1..Len(events)
      /\ Len(events) \in Nat
  BY PositionsOfAppend
<1>2. e' = Event(k, n)
  BY DEF Event
<1> QED BY <1>1, <1>2

\* What a plan has published is in order, through every step of the driver, of
\* the node goroutines and of the caller.
THEOREM JournalledAlways == Spec => []Journalled
<1>1. Init => Journalled
  <2> SUFFICES ASSUME Init PROVE Journalled OBVIOUS
  <2>1. \A e : Position(e) = {} BY DEF Init, Position
  <2> QED BY <2>1 DEF Init, Journalled, NodeTrail, Naming, Ended, Alive
<1>2. TypeOK /\ Bookkeeping /\ OneMessageEach /\ Journalled /\ [Next]_vars => Journalled'
  <2> SUFFICES ASSUME TypeOK, Bookkeeping, OneMessageEach, Journalled, [Next]_vars
               PROVE  Journalled'
    OBVIOUS
  <2>t. /\ stage \in [Nodes -> Stages] /\ events \in Seq(Events) /\ pc \in DriverStates
        /\ started \subseteq Nodes
    BY DEF TypeOK
  <2>m. MapsAgree BY DEF Bookkeeping
  \* The plan's own events, and silence, leave every node's trail alone.
  <2>p. ASSUME UNCHANGED <<stage, started, errs>>,
               events' = events \/ \E k \in EventKinds : events' = Append(events, PlanEvent(k))
        PROVE  \A m \in Nodes : NodeTrail(m)'
    <3> TAKE m \in Nodes
    <3>1. \A l \in EventKinds, k \in NodeEventKinds : PlanEvent(l) # Event(k, m)
      BY EventsDiffer DEF EventKinds, NodeEventKinds
    <3> QED BY <2>p, <2>t, <3>1, TrailBeside DEF Journalled
  \* A step of the driver that ends nothing and publishes nothing.
  <2>u. ASSUME UNCHANGED <<stage, started, errs, events>>, pc' \notin {"validate", "planStart"} \cup Ended
        PROVE  Journalled'
    BY <2>u, <2>p DEF Journalled, Ended
  \* The verdict of the plan.
  <2>v. ASSUME NEW k \in {"plan.failed", "plan.completed"},
               UNCHANGED <<stage, started, errs>>, events' = Append(events, PlanEvent(k)),
               \A n \in Nodes : stage[n] \notin Alive
        PROVE  Journalled'
    <3>1. \A m \in Nodes : NodeTrail(m)' BY <2>p, <2>v DEF EventKinds
    <3>2. events' # <<>> /\ events'[Len(events')] = PlanEvent(k) BY <2>t, <2>v
    <3> QED BY <2>v, <3>1, <3>2 DEF Journalled, PlanEvent
  <2>1. CASE Validate
    <3>1. \A n \in Nodes : stage'[n] \notin Alive BY <2>1 DEF Validate, Journalled
    <3>2. \A m \in Nodes : NodeTrail(m)' BY <2>1, <2>p DEF Validate, EventKinds
    <3>3. pc' \notin {"failed", "completed"} BY <2>1 DEF Validate
    <3> QED BY <3>1, <3>2, <3>3 DEF Journalled
  <2>2. CASE PlanStart
    <3>1. CASE cancelled
      <4>1. \A n \in Nodes : stage[n] \notin Alive BY <2>2 DEF PlanStart, Journalled
      <4> QED BY <2>2, <2>v, <3>1, <4>1 DEF PlanStart
    <3>2. CASE ~cancelled BY <2>2, <2>u, <3>2 DEF PlanStart, Ended
    <3> QED BY <3>1, <3>2
  <2>3. CASE PickReady BY <2>3, <2>u DEF PickReady, Ended
  <2>4. CASE AbandonBatch
    <3>1. PICK n \in started : ready = {n} /\ stage[n] = "idle"
      BY <2>4 DEF AbandonBatch, OneMessageEach
    <3>2. /\ events' = Append(events, Event("node.failed", n)) /\ pc' = "launch"
          /\ UNCHANGED <<stage, started, errs>>
      BY <2>4, <3>1 DEF AbandonBatch
    <3>3. ASSUME NEW m \in Nodes \ {n} PROVE NodeTrail(m)'
      <4>1. \A k \in NodeEventKinds : Event("node.failed", n) # Event(k, m)
        BY EventsDiffer
      <4> QED BY <2>t, <3>2, <4>1, TrailBeside DEF Journalled
    <3>4. NodeTrail(n)' BY <3>1, <3>2 DEF NodeTrail
    <3> QED BY <3>2, <3>3, <3>4 DEF Journalled, Ended
  <2>5. CASE CountInflight BY <2>5, <2>u DEF CountInflight, Ended
  <2>6. CASE Wake BY <2>6, <2>u DEF Wake, Ended
  <2>7. CASE Join BY <2>7, <2>v DEF Join
  <2>8. ASSUME NEW n \in Nodes, FailWithoutRun(n) PROVE Journalled'
    <3>1. stage[n] = "idle" BY <2>8, FreshInBatch
    <3>2. /\ started' = started \cup {n} /\ errs' = errs \cup {n} /\ pc' = "failing"
          /\ UNCHANGED <<stage, events>>
      BY <2>8 DEF FailWithoutRun
    <3>3. \A m \in Nodes \ {n} : NodeTrail(m)' BY <2>t, <3>2, TrailBeside DEF Journalled
    <3>4. NodeTrail(n)' BY <3>1, <3>2 DEF NodeTrail
    <3> QED BY <3>2, <3>3, <3>4 DEF Journalled, Ended
  <2>9. ASSUME NEW n \in Nodes, Check(n) PROVE Journalled'
    BY <2>9, <2>u DEF Check, Ended
  <2>10. ASSUME NEW n \in Nodes, Launch(n) PROVE Journalled'
    <3>1. /\ n \notin started
          /\ stage'[n] = "queued" /\ \A m \in Nodes \ {n} : stage'[m] = stage[m]
          /\ started' = started \cup {n} /\ pc' = "launch"
          /\ UNCHANGED <<errs, events>>
      BY <2>10, <2>t, FreshInBatch DEF Launch
    <3>2. \A m \in Nodes \ {n} : NodeTrail(m)' BY <2>t, <3>1, TrailBeside DEF Journalled
    <3>3. Naming(n, NodeEventKinds) = {} BY <3>1 DEF Journalled, NodeTrail
    <3>4. Naming(n, NodeEventKinds)' = {}
      <4>1. \A k \in NodeEventKinds : Position(Event(k, n)) = {} BY <3>3 DEF Naming
      <4>2. \A k \in NodeEventKinds : Position(Event(k, n))' = {}
        BY <3>1, <4>1 DEF Position, Event
      <4> QED BY <4>2 DEF Naming
    <3>5. NodeTrail(n)' BY <3>1, <3>4 DEF NodeTrail
    <3> QED BY <3>1, <3>2, <3>5 DEF Journalled, Ended
  <2>11. ASSUME NEW n \in Nodes, Begin(n) PROVE Journalled'
    <3>1. /\ stage[n] = "queued" /\ stage'[n] = "running"
          /\ \A m \in Nodes \ {n} : stage'[m] = stage[m]
          /\ events' = Append(events, Event("node.started", n))
          /\ UNCHANGED <<started, errs, pc>>
      BY <2>11, <2>t DEF Begin
    <3>2. \A m \in Nodes \ {n}, k \in NodeEventKinds : Event("node.started", n) # Event(k, m)
      BY EventsDiffer
    <3>3. \A m \in Nodes \ {n} : NodeTrail(m)' BY <2>t, <3>1, <3>2, TrailBeside DEF Journalled
    <3>4. \A k \in NodeEventKinds : Position(Event(k, n)) = {}
      BY <3>1 DEF Journalled, NodeTrail, Naming
    <3>5. Position(Event("node.started", n))' = {Len(events) + 1}
      BY <2>t, <3>1, <3>4, PositionsAfter DEF NodeEventKinds
    <3>6. \A k \in {"node.completed", "node.failed"} : Event("node.started", n) # Event(k, n)
      BY EventsDiffer
    <3>7. \A k \in {"node.completed", "node.failed"} : Position(Event(k, n))' = {}
      BY <2>t, <3>1, <3>4, <3>6, PositionsAfter DEF NodeEventKinds
    <3>8. Len(events) + 1 \in DOMAIN events' BY <2>t, <3>1
    <3>9. n \in started' BY <2>m, <3>1 DEF MapsAgree
    <3>10. NodeTrail(n)' BY <3>1, <3>5, <3>7, <3>8, <3>9 DEF NodeTrail, Naming
    <3>11. pc \notin {"validate", "planStart"} \cup Ended
      BY <3>1 DEF Journalled, Alive
    <3> QED BY <3>1, <3>3, <3>10, <3>11 DEF Journalled, Ended
  <2>12. ASSUME NEW n \in Nodes, Record(n) PROVE Journalled'
    <3>1. /\ stage[n] = "running" /\ stage'[n] = "recorded"
          /\ \A m \in Nodes \ {n} : stage'[m] = stage[m] /\ (m \in errs' <=> m \in errs)
          /\ UNCHANGED <<started, pc, events>>
      BY <2>12, <2>t DEF Record
    <3>2. \A m \in Nodes \ {n} : NodeTrail(m)' BY <2>t, <3>1, TrailBeside DEF Journalled
    <3>3. /\ \E i \in DOMAIN events : Position(Event("node.started", n)) = {i}
          /\ Naming(n, {"node.completed", "node.failed"}) = {}
      BY <3>1 DEF Journalled, NodeTrail
    <3>4. n \in started BY <2>m, <3>1 DEF MapsAgree
    <3>5. /\ Position(Event("node.started", n))' = Position(Event("node.started", n))
          /\ Naming(n, {"node.completed", "node.failed"})'
               = Naming(n, {"node.completed", "node.failed"})
      BY <3>1 DEF Naming, Position, Event
    <3>6. NodeTrail(n)' BY <3>1, <3>3, <3>4, <3>5 DEF NodeTrail
    <3>7. pc \notin {"validate", "planStart"} \cup Ended
      BY <3>1 DEF Journalled, Alive
    <3> QED BY <3>1, <3>2, <3>6, <3>7 DEF Journalled, Ended
  <2>13. ASSUME NEW n \in Nodes, Announce(n) PROVE Journalled'
    <3>1. /\ stage[n] = "recorded" /\ stage'[n] = "announced"
          /\ \A m \in Nodes \ {n} : stage'[m] = stage[m]
          /\ events' = Append(events, Outcome(n))
          /\ UNCHANGED <<started, errs, pc>>
      BY <2>13, <2>t DEF Announce, Outcome
    <3>2. PICK k \in {"node.completed", "node.failed"} :
             Outcome(n) = Event(k, n) /\ Outcome(n)' = Event(k, n)
      BY <3>1 DEF Outcome, Event
    <3>3. \A m \in Nodes \ {n}, l \in NodeEventKinds : Event(k, n) # Event(l, m)
      BY EventsDiffer
    <3>4. \A m \in Nodes \ {n} : NodeTrail(m)'
      BY <2>t, <3>1, <3>2, <3>3, TrailBeside DEF Journalled
    <3>5. PICK i \in DOMAIN events : Position(Event("node.started", n)) = {i}
      BY <3>1 DEF Journalled, NodeTrail
    <3>6. Position(Event(k, n)) = {}
      BY <3>1, <3>2 DEF Journalled, NodeTrail, Naming
    <3>7. Event(k, n) # Event("node.started", n) BY <3>2, EventsDiffer
    <3>8. Position(Event("node.started", n))' = {i} /\ i \in Nat /\ i < Len(events) + 1
      BY <2>t, <3>1, <3>2, <3>5, <3>7, PositionsAfter
    <3>9. Position(Event(k, n))' = {Len(events) + 1}
      BY <2>t, <3>1, <3>2, <3>6, PositionsAfter
    <3>10. Position(Outcome(n))' = {Len(events) + 1}
      BY <3>2, <3>9 DEF Position
    <3>11. Closed(n)' BY <3>8, <3>10 DEF Closed
    <3>12. n \in started' BY <2>m, <3>1 DEF MapsAgree
    <3>13. NodeTrail(n)' BY <3>1, <3>11, <3>12 DEF NodeTrail
    <3>14. pc \notin {"validate", "planStart"} \cup Ended
      BY <3>1 DEF Journalled, Alive
    <3> QED BY <3>1, <3>4, <3>13, <3>14 DEF Journalled, Ended
  <2>14. ASSUME NEW n \in Nodes, Exit(n) PROVE Journalled'
    <3>1. /\ stage[n] = "announced" /\ stage'[n] = "exited"
          /\ \A m \in Nodes \ {n} : stage'[m] = stage[m]
          /\ UNCHANGED <<started, errs, events, pc>>
      BY <2>14, <2>t DEF Exit
    <3>2. \A m \in Nodes \ {n} : NodeTrail(m)' BY <2>t, <3>1, TrailBeside DEF Journalled
    <3>3. Closed(n) /\ n \in started BY <2>m, <3>1 DEF Journalled, NodeTrail, MapsAgree
    <3>4. Closed(n)' BY <3>1, <3>3 DEF Closed, Position, Outcome, Event
    <3>5. NodeTrail(n)' BY <3>1, <3>3, <3>4 DEF NodeTrail
    <3>6. pc \notin {"validate", "planStart"} \cup Ended
      BY <3>1 DEF Journalled, Alive
    <3> QED BY <3>1, <3>2, <3>5, <3>6 DEF Journalled, Ended
  <2>15. ASSUME UNCHANGED <<stage, started, errs, events, pc>> PROVE Journalled'
    BY <2>15, <2>p DEF Journalled
  <2>16. CASE Cancel BY <2>15, <2>16 DEF Cancel
  <2>17. CASE UNCHANGED vars BY <2>15, <2>17 DEF vars
  <2> QED BY <2>1, <2>2, <2>3, <2>4, <2>5, <2>6, <2>7, <2>8, <2>9, <2>10, <2>11,
             <2>12, <2>13, <2>14, <2>16, <2>17
          DEF Next, DriverStep, NodeStep, Returned
<1> QED BY <1>1, <1>2, TypeCorrect, BookkeepingCorrect, OneMessagePerNode, PTL DEF Spec

\* When Run reports the end of a plan, every launched node's start and outcome
\* are on the bus, once each and in that order, and the verdict is last (Run,
\* runNode, failNodeWithoutRun).
THEOREM JournalAlwaysClosed == Spec => []JournalClosed
<1>1. TypeOK /\ Journalled => JournalClosed
  <2> SUFFICES ASSUME TypeOK, Journalled, pc \in {"failed", "completed"},
                      NEW n \in Nodes, stage[n] # "idle"
               PROVE  Closed(n)
    BY DEF JournalClosed, Journalled, Closed
  <2>1. stage[n] \in Stages /\ stage[n] \notin Alive
    BY DEF TypeOK, Journalled, Ended
  <2>2. stage[n] = "exited" BY <2>1 DEF Stages, Alive
  <2> QED BY <2>2 DEF Journalled, NodeTrail
<1> QED BY <1>1, TypeCorrect, JournalledAlways, PTL
=============================================================================
