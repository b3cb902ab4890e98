--------------------------- MODULE PlanExecutor ---------------------------
(***************************************************************************)
(* scheduler.Executor.Run: one driver walks a DAG of nodes, one goroutine  *)
(* per launched node, a worker-pool semaphore for the compute nodes, and a *)
(* buffered channel `done` on which a finishing node wakes the driver.     *)
(*                                                                         *)
(* One action is one critical section of the mutex, one channel operation  *)
(* or one publication on the bus, so that every interleaving of the driver *)
(* with the node goroutines and with a cancellation of the run is a        *)
(* behaviour.  Node identifiers are numbers: the driver launches the nodes *)
(* of a ready batch in increasing order (sort.Strings).                    *)
(***************************************************************************)
EXTENDS Integers, Sequences, FiniteSets, PlanGraph

CONSTANTS
  Nodes,        \* the node ids of the plan
  Gates,        \* those that are gate nodes: they wait for a human
  Plans,        \* the dependency functions a caller may submit
  MaxParallel   \* capacity of the worker-pool semaphore

ASSUME PlanAssumption ==
  /\ IsFiniteSet(Nodes)
  /\ Nodes \subseteq Nat
  /\ Gates \subseteq Nodes
  /\ Plans \subseteq [Nodes -> SUBSET Nodes]
  /\ MaxParallel \in Nat \ {0}

VARIABLES
  deps,         \* the plan: node -> its DependsOn()
  pc,           \* where the driver stands
  ready,        \* rest of the batch pickReady returned
  indegree,     \* node -> number of dependencies not yet completed
  started, completed, errs, results,   \* the maps guarded by mu
  invalidated,  \* set by failNodeWithoutRun
  cancelled,    \* runCtx is cancelled
  stage,        \* node -> where its goroutine stands
  sem,          \* holders of a worker-pool slot
  inputs,       \* node -> upstream results its Run received
  tokens,       \* messages in the channel `done`
  events,       \* what was handed to the bus, in order (an error is ignored)
  late          \* nodes launched although runCtx was cancelled (history)

vars == <<deps, pc, ready, indegree, started, completed, errs, results,
          invalidated, cancelled, stage, sem, inputs, tokens, events, late>>

Ended == {"rejected", "failed", "completed"}
DriverStates == {"validate", "planStart", "pick", "launch", "start",
                 "failing", "wait", "join"} \cup Ended
Stages == {"idle", "queued", "running", "recorded", "announced", "exited"}
Alive == {"queued", "running", "recorded", "announced"}
EventKinds == {"plan.started", "plan.completed", "plan.failed"}
NodeEventKinds == {"node.started", "node.completed", "node.failed"}
Events == [kind : EventKinds] \cup [kind : NodeEventKinds, node : Nodes]
Event(kind, n) == [kind |-> kind, node |-> n]
PlanEvent(kind) == [kind |-> kind]

\* The node of the batch the driver handles next.
Next1(n) == n \in ready /\ \A m \in ready : n <= m

Init ==
  /\ deps \in Plans
  /\ pc = "validate"
  /\ ready = {}
  /\ indegree = [n \in Nodes |-> Cardinality(deps[n])]
  /\ started = {} /\ completed = {} /\ errs = {} /\ results = {}
  /\ invalidated = FALSE /\ cancelled = FALSE
  /\ stage = [n \in Nodes |-> "idle"]
  /\ sem = {}
  /\ inputs = [n \in Nodes |-> {}]
  /\ tokens = 0
  /\ events = <<>>
  /\ late = {}
--------------------------------------------------------------------------
\* The driver.

\* Nothing is published for a plan whose graph has a cycle.
Validate ==
  /\ pc = "validate"
  /\ IF Acyclic(Nodes, deps)
       THEN /\ pc' = "planStart"
            /\ events' = Append(events, PlanEvent("plan.started"))
       ELSE /\ pc' = "rejected"
            /\ UNCHANGED events
  /\ UNCHANGED <<deps, ready, indegree, started, completed, errs, results,
                 invalidated, cancelled, stage, sem, inputs, tokens, late>>

\* The monitor's plan_start check reads runCtx.
PlanStart ==
  /\ pc = "planStart"
  /\ IF cancelled
       THEN /\ pc' = "failed"
            /\ events' = Append(events, PlanEvent("plan.failed"))
       ELSE /\ pc' = "pick"
            /\ UNCHANGED events
  /\ UNCHANGED <<deps, ready, indegree, started, completed, errs, results,
                 invalidated, cancelled, stage, sem, inputs, tokens, late>>

\* Mutant: the failed-dependency check of pickReady is missing.
StartableAfterFailure == {n \in Nodes : indegree[n] = 0 /\ n \notin started}

Startable == {n \in Nodes : /\ indegree[n] = 0
                            /\ n \notin started
                            /\ deps[n] \cap errs = {}}

PickReady ==
  /\ pc = "pick"
  /\ ready' = IF invalidated THEN {} ELSE Startable
  /\ pc' = "launch"
  /\ UNCHANGED <<deps, indegree, started, completed, errs, results,
                 invalidated, cancelled, stage, sem, inputs, tokens, events, late>>

OneLessUnmet(n) ==
  [m \in Nodes |-> IF n \in deps[m] THEN indegree[m] - 1 ELSE indegree[m]]

\* The node_start check fails: the critical section of failNodeWithoutRun.
FailWithoutRun(n) ==
  /\ pc = "launch" /\ Next1(n) /\ cancelled
  /\ invalidated' = TRUE
  /\ started' = started \cup {n}
  /\ completed' = completed \cup {n}
  /\ errs' = errs \cup {n}
  /\ indegree' = OneLessUnmet(n)
  /\ ready' = {n}
  /\ pc' = "failing"
  /\ UNCHANGED <<deps, results, cancelled, stage, sem, inputs, tokens, events, late>>

\* ... then it publishes, sends on done, and the driver cancels runCtx and
\* leaves the batch.
AbandonBatch ==
  /\ pc = "failing"
  /\ \E n \in ready : events' = Append(events, Event("node.failed", n))
  /\ tokens' = tokens + 1
  /\ cancelled' = TRUE
  /\ ready' = {}
  /\ pc' = "launch"
  /\ UNCHANGED <<deps, indegree, started, completed, errs, results,
                 invalidated, stage, sem, inputs, late>>

\* The node_start check passes.
Check(n) ==
  /\ pc = "launch" /\ Next1(n) /\ ~cancelled
  /\ pc' = "start"
  /\ UNCHANGED <<deps, ready, indegree, started, completed, errs, results,
                 invalidated, cancelled, stage, sem, inputs, tokens, events, late>>

\* Mark the node started and spawn its goroutine.
Launch(n) ==
  /\ pc = "start" /\ Next1(n)
  /\ started' = started \cup {n}
  /\ stage' = [stage EXCEPT ![n] = "queued"]
  /\ late' = IF cancelled THEN late \cup {n} ELSE late
  /\ ready' = ready \ {n}
  /\ pc' = "launch"
  /\ UNCHANGED <<deps, indegree, completed, errs, results, invalidated,
                 cancelled, sem, inputs, tokens, events>>

\* Mutant: the loop goes on while some node was not started.
WaitForUnstarted ==
  /\ pc = "launch" /\ ready = {}
  /\ pc' = IF started = Nodes /\ completed = Nodes THEN "join" ELSE "wait"
  /\ UNCHANGED <<deps, ready, indegree, started, completed, errs, results,
                 invalidated, cancelled, stage, sem, inputs, tokens, events, late>>

\* The batch is launched: read the number of nodes in flight, and stop the
\* loop when there is none.
CountInflight ==
  /\ pc = "launch" /\ ready = {}
  /\ pc' = IF Cardinality(started) - Cardinality(completed) = 0
             THEN "join" ELSE "wait"
  /\ UNCHANGED <<deps, ready, indegree, started, completed, errs, results,
                 invalidated, cancelled, stage, sem, inputs, tokens, events, late>>

\* <-done
Wake ==
  /\ pc = "wait" /\ tokens > 0
  /\ tokens' = tokens - 1
  /\ pc' = "pick"
  /\ UNCHANGED <<deps, ready, indegree, started, completed, errs, results,
                 invalidated, cancelled, stage, sem, inputs, events, late>>

\* Mutant: wg.Wait is missing.
JoinAtOnce ==
  /\ pc = "join"
  /\ pc' = IF errs = {} THEN "completed" ELSE "failed"
  /\ events' = Append(events, PlanEvent(IF errs = {} THEN "plan.completed"
                                                     ELSE "plan.failed"))
  /\ UNCHANGED <<deps, ready, indegree, started, completed, errs, results,
                 invalidated, cancelled, stage, sem, inputs, tokens, late>>

\* wg.Wait, then the verdict.
Join ==
  /\ pc = "join"
  /\ \A n \in Nodes : stage[n] \notin Alive
  /\ pc' = IF errs = {} THEN "completed" ELSE "failed"
  /\ events' = Append(events, PlanEvent(IF errs = {} THEN "plan.completed"
                                                     ELSE "plan.failed"))
  /\ UNCHANGED <<deps, ready, indegree, started, completed, errs, results,
                 invalidated, cancelled, stage, sem, inputs, tokens, late>>
--------------------------------------------------------------------------
\* A node goroutine.

\* Mutant: gates take a slot like the others.
BeginPooledGate(n) ==
  /\ stage[n] = "queued"
  /\ Cardinality(sem) < MaxParallel
  /\ sem' = sem \cup {n}
  /\ inputs' = [inputs EXCEPT ![n] = deps[n] \cap results]
  /\ events' = Append(events, Event("node.started", n))
  /\ stage' = [stage EXCEPT ![n] = "running"]
  /\ UNCHANGED <<deps, pc, ready, indegree, started, completed, errs, results,
                 invalidated, cancelled, tokens, late>>

\* Take a slot unless the node is a gate, read the upstream results, publish
\* node.started.
Begin(n) ==
  /\ stage[n] = "queued"
  /\ IF n \in Gates
       THEN UNCHANGED sem
       ELSE /\ Cardinality(sem) < MaxParallel
            /\ sem' = sem \cup {n}
  /\ inputs' = [inputs EXCEPT ![n] = deps[n] \cap results]
  /\ events' = Append(events, Event("node.started", n))
  /\ stage' = [stage EXCEPT ![n] = "running"]
  /\ UNCHANGED <<deps, pc, ready, indegree, started, completed, errs, results,
                 invalidated, cancelled, tokens, late>>

\* Run returns a result or an error and the outcome is recorded under mu.
Record(n) ==
  /\ stage[n] = "running"
  /\ completed' = completed \cup {n}
  /\ \/ errs' = errs \cup {n} /\ UNCHANGED results
     \/ results' = results \cup {n} /\ UNCHANGED errs
  /\ indegree' = OneLessUnmet(n)
  /\ stage' = [stage EXCEPT ![n] = "recorded"]
  /\ UNCHANGED <<deps, pc, ready, started, invalidated, cancelled, sem, inputs,
                 tokens, events, late>>

\* Mutant: a failed node does not wake the driver.
AnnounceQuietly(n) ==
  /\ stage[n] = "recorded"
  /\ events' = Append(events, Event(IF n \in errs THEN "node.failed"
                                                  ELSE "node.completed", n))
  /\ tokens' = IF n \in errs THEN tokens ELSE tokens + 1
  /\ stage' = [stage EXCEPT ![n] = "announced"]
  /\ UNCHANGED <<deps, pc, ready, indegree, started, completed, errs, results,
                 invalidated, cancelled, sem, inputs, late>>

\* Publish the outcome, then wake the driver.
Announce(n) ==
  /\ stage[n] = "recorded"
  /\ events' = Append(events, Event(IF n \in errs THEN "node.failed"
                                                  ELSE "node.completed", n))
  /\ tokens' = tokens + 1
  /\ stage' = [stage EXCEPT ![n] = "announced"]
  /\ UNCHANGED <<deps, pc, ready, indegree, started, completed, errs, results,
                 invalidated, cancelled, sem, inputs, late>>

\* Mutant: the deferred release wakes the driver a second time.
ExitAnnouncing(n) ==
  /\ stage[n] = "announced"
  /\ sem' = sem \ {n}
  /\ tokens' = tokens + 1
  /\ stage' = [stage EXCEPT ![n] = "exited"]
  /\ UNCHANGED <<deps, pc, ready, indegree, started, completed, errs, results,
                 invalidated, cancelled, inputs, events, late>>

\* The deferred slot release and wg.Done.
Exit(n) ==
  /\ stage[n] = "announced"
  /\ sem' = sem \ {n}
  /\ stage' = [stage EXCEPT ![n] = "exited"]
  /\ UNCHANGED <<deps, pc, ready, indegree, started, completed, errs, results,
                 invalidated, cancelled, inputs, tokens, events, late>>

\* The caller's context is cancelled (Halt, CancelRun, a timeout).
Cancel ==
  /\ pc \notin Ended /\ ~cancelled
  /\ cancelled' = TRUE
  /\ UNCHANGED <<deps, pc, ready, indegree, started, completed, errs, results,
                 invalidated, stage, sem, inputs, tokens, events, late>>
--------------------------------------------------------------------------
DriverStep == \/ Validate \/ PlanStart \/ PickReady \/ AbandonBatch
              \/ CountInflight \/ Wake \/ Join
              \/ \E n \in Nodes : FailWithoutRun(n) \/ Check(n) \/ Launch(n)
NodeStep(n) == Begin(n) \/ Record(n) \/ Announce(n) \/ Exit(n)

\* Run has returned: nothing is left to do.
Returned == pc \in Ended /\ UNCHANGED vars

Next == DriverStep \/ Cancel \/ Returned \/ \E n \in Nodes : NodeStep(n)

Spec == Init /\ [][Next]_vars

\* The Go scheduler runs every runnable goroutine.  A node's Run may last
\* forever: nothing is assumed of Record.
FairSpec == /\ Spec
            /\ WF_vars(DriverStep)
            /\ \A n \in Nodes : WF_vars(Begin(n) \/ Announce(n) \/ Exit(n))
--------------------------------------------------------------------------
TypeOK ==
  /\ deps \in Plans
  /\ pc \in DriverStates
  /\ ready \subseteq Nodes
  /\ indegree \in [Nodes -> Int]
  /\ started \subseteq Nodes /\ completed \subseteq Nodes
  /\ errs \subseteq Nodes /\ results \subseteq Nodes
  /\ invalidated \in BOOLEAN /\ cancelled \in BOOLEAN
  /\ stage \in [Nodes -> Stages]
  /\ sem \subseteq Nodes
  /\ inputs \in [Nodes -> SUBSET Nodes]
  /\ tokens \in Nat
  /\ events \in Seq(Events)
  /\ late \subseteq Nodes

\* A node whose Run was entered got the result of every one of its
\* dependencies: all of them had completed, and none had failed, whatever
\* the order in which goroutines recorded their outcomes
\* (Node.DependsOn: "must complete successfully before this one starts").
InputsComplete ==
  \A n \in Nodes : stage[n] \notin {"idle", "queued"} => inputs[n] = deps[n]

\* The counter the driver schedules by counts exactly the dependencies that
\* have not completed, through failures, invalidation and concurrent
\* decrements; it never goes below zero.
IndegreeExact ==
  \A n \in Nodes : indegree[n] = Cardinality(deps[n] \ completed)

\* No more compute nodes execute at once than the worker pool has slots.
\* Gates are not counted: they wait for a human.
PoolBound ==
  Cardinality({n \in Nodes \ Gates :
                 stage[n] \in {"running", "recorded", "announced"}}) <= MaxParallel

\* When the driver blocks on the channel, a message is there or a node that
\* will send one is alive: the wake-up cannot be lost ("the inflight>0 guard
\* guarantee[s] a send is pending or coming, so this never deadlocks").
WakeupComing ==
  pc = "wait" => \/ tokens > 0
                 \/ \E n \in Nodes : stage[n] \in {"queued", "running", "recorded"}

\* A send on `done` never finds the buffer full, so that no node goroutine
\* blocks after the driver has left its loop.
SendNeverBlocks == tokens <= Cardinality(Nodes)

\* A cancellation lets through at most the node whose check had already
\* passed when it arrived.
OneLateLaunch == Cardinality(late) <= 1

\* When Run reports the end of a plan, it has published for every node that
\* was launched one start and one outcome, in that order, before the plan's
\* own verdict, which is the last event of the plan.
Position(e) == {i \in DOMAIN events : events[i] = e}
Outcome(n) == Event(IF n \in errs THEN "node.failed" ELSE "node.completed", n)
JournalClosed ==
  pc \in {"failed", "completed"} =>
    /\ events[Len(events)].kind \in {"plan.failed", "plan.completed"}
    /\ \A n \in Nodes : stage[n] # "idle" =>
         \E i \in Position(Event("node.started", n)), j \in Position(Outcome(n)) :
           /\ i < j
           /\ Position(Event("node.started", n)) = {i}
           /\ Position(Outcome(n)) = {j}

\* When every node's Run returns, the run of the plan ends: with a rejection,
\* a failure or a completion.
RunsReturn == \A n \in Nodes : WF_vars(Record(n))
Terminates == RunsReturn => <>(pc \in Ended)

\* A gate whose dependencies are met is put to the operator even when every
\* slot of the pool is held by a compute node that never returns.  (A driver
\* that has left its loop launches nothing: see PlanRunsEveryNode.)
GatesNotStarved ==
  \A g \in Gates :
    (pc = "pick" /\ g \in Startable /\ ~invalidated)
      ~> (stage[g] \notin {"idle", "queued"} \/ cancelled)

\* "pickReady was empty AND nothing is running": when the driver leaves its
\* loop without an error, every node of the plan has run.
PlanRunsEveryNode ==
  (pc = "join" /\ errs = {}) => completed = Nodes
==========================================================================
