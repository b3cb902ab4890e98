---------------------------- MODULE RunLifecycle ---------------------------
(***************************************************************************)
(* kernel/modules/runs: the registry of live runs (registry, state), halt, *)
(* resume, cancel and drain (lifecycle), and asynchronous delegation with  *)
(* its caps (delegation).  A task is a goroutine: a root run, known to the *)
(* registry by a correlation id that its callers choose, or a kid, a       *)
(* sub-agent with an id of its own.  Kids are used in order.  Cancel       *)
(* functions are taken from the maps under the lock and called right after *)
(* it is released; cancelled are the tasks whose function was taken, and a *)
(* cancelled task still works for as long as it likes.                     *)
(***************************************************************************)
EXTENDS Integers, FiniteSets

CONSTANTS
  Runs,         \* root runs
  Id,           \* run -> its correlation id
  Kids,         \* bound: sub-agents
  Rank,         \* kid -> its place in the order in which kids are used
  Settings      \* the configured caps: [fanout, total, depth]

Nobody == "nobody"
Tasks == Runs \cup Kids
Ids == {Id[r] : r \in Runs}
Keys == Ids \cup Kids

ASSUME LifecycleAssumption ==
  /\ Rank \in [Kids -> Nat]
  /\ Settings \subseteq [fanout : Nat \ {0}, total : Nat \ {0}, depth : Nat]
  /\ Runs \cap Kids = {} /\ Ids \cap Kids = {} /\ Nobody \notin Tasks

VARIABLES
  cap,        \* the caps in force
  halted,
  entry,      \* key -> the task whose cancel function is registered
  steers,     \* key -> the task whose steering control is registered
  counted,    \* tasks in the drain's wait group
  stage,      \* task -> see TypeOK
  cancelled,  \* tasks whose context is cancelled
  by, root, level,  \* kid -> its spawner, the root of its tree, its depth
  handles,    \* kids that can be awaited
  fanout, tree,     \* key -> sub-agents spawned, id -> sub-agents of the tree
  settled,    \* the drain has seen that nothing is counted
  shadowed,   \* runs admitted while another of the same id was unwinding (history)
  late        \* kids registered after the sweep of their tree (history)

delegation == <<by, root, level, handles, fanout, tree, late>>
vars == <<cap, halted, entry, steers, counted, stage, cancelled, delegation, settled, shadowed>>

Key(t) == IF t \in Runs THEN Id[t] ELSE t

Unwinding(t) == stage[t] \in {"running", "returned", "announcing"}

Init ==
  /\ cap \in Settings
  /\ halted = FALSE
  /\ entry = [x \in Keys |-> Nobody] /\ steers = [x \in Keys |-> Nobody]
  /\ counted = {}
  /\ stage = [t \in Tasks |-> "new"]
  /\ cancelled = {}
  /\ by = [k \in Kids |-> Nobody] /\ root = [k \in Kids |-> Nobody]
  /\ level = [k \in Kids |-> 0]
  /\ handles = {}
  /\ fanout = [x \in Keys |-> 0] /\ tree = [x \in Ids |-> 0]
  /\ settled = FALSE
  /\ shadowed = {} /\ late = {}
--------------------------------------------------------------------------
\* A root run.

Goto(t, place) == stage' = [stage EXCEPT ![t] = place]

\* Mutant: an id that is in use is not refused.
AdmissibleTwice(x) == ~halted

\* Mutant: the halt is not checked under the registry's lock.
AdmissibleHalted(x) == entry[x] = Nobody

Admissible(x) == ~halted /\ entry[x] = Nobody

\* SetupRunState: refused when halted or when the id is registered.
Setup(r) ==
  /\ stage[r] = "new" /\ Admissible(Id[r])
  /\ Goto(r, "running")
  /\ entry' = [entry EXCEPT ![Id[r]] = r]
  /\ steers' = [steers EXCEPT ![Id[r]] = r]
  /\ counted' = counted \cup {r}
  /\ shadowed' = IF \E q \in Runs : Id[q] = Id[r] /\ Unwinding(q)
                   THEN shadowed \cup {r} ELSE shadowed
  /\ UNCHANGED <<cap, halted, cancelled, delegation, settled>>

\* A tool call that delegates ends before the loop that made it.
Delegating(t) == \E k \in Kids : by[k] = t /\ stage[k] \in {"fanned", "prepared"}

\* agent.Run returns, finished or cancelled; its control is deregistered.
LoopReturns(r) ==
  /\ stage[r] = "running" /\ ~Delegating(r)
  /\ Goto(r, "returned")
  /\ steers' = [steers EXCEPT ![Id[r]] = Nobody]
  /\ UNCHANGED <<cap, halted, entry, counted, cancelled, delegation, settled, shadowed>>

\* Mutant: the sweep looks at the children only, not at the whole tree.
PendingChildren(x) == {k \in handles : Key(by[k]) = x}

\* CancelSpawns: the delegations of a run or of its tree.
Pending(x) == {k \in handles : Id[root[k]] = x \/ Key(by[k]) = x}

\* CleanupRunState, and the drain count as its last step.
Cleanup(r) ==
  /\ stage[r] = "returned"
  /\ Goto(r, "done")
  /\ entry' = [entry EXCEPT ![Id[r]] = Nobody]
  /\ steers' = [steers EXCEPT ![Id[r]] = Nobody]
  /\ fanout' = [fanout EXCEPT ![Id[r]] = 0] /\ tree' = [tree EXCEPT ![Id[r]] = 0]
  /\ handles' = handles \ Pending(Id[r])
  /\ counted' = counted \ {r}
  /\ cancelled' = cancelled \cup {r} \cup Pending(Id[r])
  /\ UNCHANGED <<cap, halted, by, root, level, late, settled, shadowed>>
--------------------------------------------------------------------------
\* A sub-agent spawned by a running task.

Depth(t) == IF t \in Runs THEN 0 ELSE level[t]

\* prepare: the halt and depth checks and the fan-out tally.
TakeFanout(t, k) ==
  /\ stage[t] = "running" /\ stage[k] = "new"
  /\ \A j \in Kids : Rank[j] < Rank[k] => stage[j] # "new"
  /\ ~halted /\ Depth(t) < cap.depth /\ fanout[Key(t)] < cap.fanout
  /\ fanout' = [fanout EXCEPT ![Key(t)] = @ + 1]
  /\ by' = [by EXCEPT ![k] = t]
  /\ root' = [root EXCEPT ![k] = IF t \in Runs THEN t ELSE root[t]]
  /\ level' = [level EXCEPT ![k] = Depth(t) + 1]
  /\ Goto(k, "fanned")
  /\ UNCHANGED <<cap, halted, entry, steers, counted, cancelled, handles, tree,
                 late, settled, shadowed>>

\* Mutant: the tree is tallied under the spawner and not under its root.
TreeKeyOfSpawner(k) == IF by[k] \in Runs THEN Id[by[k]] ELSE Nobody

\* The id the tree is tallied under.
TreeKey(k) == Id[root[k]]

\* The tree tally is at its cap: an error, and the fan-out tally stays taken.
RefuseTree(k) ==
  /\ stage[k] = "fanned"
  /\ TreeKey(k) \in Ids /\ tree[TreeKey(k)] >= cap.total
  /\ Goto(k, "refused")
  /\ UNCHANGED <<cap, halted, entry, steers, counted, cancelled, delegation, settled,
                 shadowed>>

\* The tree tally is taken and the control registered.  The spend cap may
\* still refuse; both tallies stay taken.
TakeTree(k, withinSpend) ==
  /\ stage[k] = "fanned"
  /\ TreeKey(k) \in Ids => tree[TreeKey(k)] < cap.total
  /\ tree' = [x \in Ids |-> IF x = TreeKey(k) THEN tree[x] + 1 ELSE tree[x]]
  /\ Goto(k, IF withinSpend THEN "prepared" ELSE "refused")
  /\ steers' = [steers EXCEPT ![k] = IF withinSpend THEN k ELSE @]
  /\ UNCHANGED <<cap, halted, entry, counted, cancelled, by, root, level, handles,
                 fanout, late, settled, shadowed>>

MaySpawn(k) == stage[k] = "prepared" /\ ~halted

\* spawn: the kid is registered and counted before its goroutine starts.
Spawn(k) ==
  /\ MaySpawn(k)
  /\ Goto(k, "running")
  /\ handles' = handles \cup {k}
  /\ entry' = [entry EXCEPT ![k] = k]
  /\ counted' = counted \cup {k}
  /\ late' = IF stage[root[k]] = "done" THEN late \cup {k} ELSE late
  /\ UNCHANGED <<cap, halted, steers, cancelled, by, root, level, fanout, tree,
                 settled, shadowed>>

\* Halt won the race: ErrHalted.  The control stays registered.
SpawnHalted(k) ==
  /\ stage[k] = "prepared" /\ halted
  /\ Goto(k, "refused")
  /\ cancelled' = cancelled \cup {k}
  /\ UNCHANGED <<cap, halted, entry, steers, counted, delegation, settled,
                 shadowed>>

\* execute returns: the kid's own tally, control and registration go.
KidReturns(k) ==
  /\ stage[k] = "running" /\ ~Delegating(k)
  /\ Goto(k, "announcing")
  /\ fanout' = [fanout EXCEPT ![k] = 0]
  /\ steers' = [steers EXCEPT ![k] = Nobody]
  /\ entry' = [entry EXCEPT ![k] = Nobody]
  /\ UNCHANGED <<cap, halted, counted, cancelled, by, root, level, handles, tree,
                 late, settled, shadowed>>

\* Completion is journalled, the awaiters are released, the kid is done.
Announce(k) ==
  /\ stage[k] = "announcing"
  /\ Goto(k, "done")
  /\ cancelled' = cancelled \cup {k}
  /\ counted' = counted \ {k}
  /\ UNCHANGED <<cap, halted, entry, steers, delegation, settled, shadowed>>

\* Await: the spawner collects the answer.
Collect(k) ==
  /\ k \in handles /\ stage[k] = "done" /\ stage[by[k]] = "running"
  /\ handles' = handles \ {k}
  /\ UNCHANGED <<cap, halted, entry, steers, counted, stage, cancelled, by, root,
                 level, fanout, tree,
                 late, settled, shadowed>>
--------------------------------------------------------------------------
\* Operators.

\* Mutant: a halt takes the cancel functions of root runs only.
RegisteredRuns == {t \in Runs : entry[Key(t)] = t}

Registered == {t \in Tasks : entry[Key(t)] = t}

Halt ==
  /\ ~halted
  /\ halted' = TRUE
  /\ cancelled' = cancelled \cup Registered
  /\ entry' = [x \in Keys |-> Nobody]
  /\ UNCHANGED <<cap, steers, counted, stage, delegation, settled, shadowed>>

CancelRun(x) ==
  /\ entry[x] # Nobody
  /\ cancelled' = cancelled \cup {entry[x]}
  /\ entry' = [entry EXCEPT ![x] = Nobody]
  /\ UNCHANGED <<cap, halted, steers, counted, stage, delegation, settled, shadowed>>

Resume ==
  /\ halted
  /\ halted' = FALSE
  /\ settled' = FALSE
  /\ UNCHANGED <<cap, entry, steers, counted, stage, cancelled, delegation, shadowed>>

\* DrainAndHalt, after its Halt: the wait is over.  A time-out changes nothing.
Settle ==
  /\ halted /\ ~settled /\ counted = {}
  /\ settled' = TRUE
  /\ UNCHANGED <<cap, halted, entry, steers, counted, stage, cancelled, delegation,
                 shadowed>>
--------------------------------------------------------------------------
Unwind(t) ==
  \/ t \in cancelled /\ t \in Runs /\ LoopReturns(t)
  \/ t \in cancelled /\ t \in Kids /\ KidReturns(t)
  \/ t \in Runs /\ Cleanup(t)
  \/ t \in Kids /\ (RefuseTree(t) \/ TakeTree(t, TRUE) \/ Spawn(t) \/ SpawnHalted(t) \/ Announce(t))

Next ==
  \/ \E r \in Runs : Setup(r) \/ LoopReturns(r) \/ Cleanup(r)
  \/ \E t \in Tasks, k \in Kids : TakeFanout(t, k)
  \/ \E k \in Kids : \/ RefuseTree(k) \/ Spawn(k) \/ SpawnHalted(k)
                     \/ KidReturns(k) \/ Announce(k) \/ Collect(k)
                     \/ \E withinSpend \in BOOLEAN : TakeTree(k, withinSpend)
  \/ Halt \/ Resume \/ Settle
  \/ \E x \in Keys : CancelRun(x)

Spec == Init /\ [][Next]_vars

\* Goroutines run, and a task returns once its context is cancelled.  One
\* that is not may run for ever.
FairSpec ==
  /\ Spec
  /\ \A t \in Tasks : WF_vars(Unwind(t))
--------------------------------------------------------------------------
TypeOK ==
  /\ cap \in Settings
  /\ halted \in BOOLEAN
  /\ entry \in [Keys -> Tasks \cup {Nobody}] /\ steers \in [Keys -> Tasks \cup {Nobody}]
  /\ counted \subseteq Tasks /\ cancelled \subseteq Tasks
  /\ stage \in [Tasks -> {"new", "fanned", "prepared", "refused",
                          "running", "returned", "announcing", "done"}]
  /\ by \in [Kids -> Tasks \cup {Nobody}] /\ root \in [Kids -> Runs \cup {Nobody}]
  /\ level \in [Kids -> 0..cap.depth]
  /\ handles \subseteq Kids /\ late \subseteq Kids
  /\ fanout \in [Keys -> 0..cap.fanout] /\ tree \in [Ids -> 0..cap.total]
  /\ settled \in BOOLEAN
  /\ shadowed \subseteq Runs

\* No task is beyond the reach of Halt and CancelRun: as long as it works it
\* is registered or cancelled already (state.go:140-145), and its loop can be
\* steered.  The exception is a run admitted under an id whose previous run
\* was cancelled and still unwinds: that run's cleanup takes the registration
\* and the control with it.
Reachable ==
  \A t \in Tasks \ shadowed :
    /\ stage[t] \in {"running", "returned"} => entry[Key(t)] = t \/ t \in cancelled
    /\ stage[t] = "running" => steers[Key(t)] = t \/ t \in cancelled

\* A spawn does not outlive its tree: once the root has cleaned up, every kid
\* of the tree that still works is cancelled (exec.go:102-106).
\* The exception is a kid that another kid registers after the sweep.
KidsSwept ==
  \A k \in Kids : stage[k] = "running" /\ stage[root[k]] = "done" =>
    k \in cancelled \cup late

\* The caps count what was spawned, over refusals, returns and collections: a
\* spawner never has more sub-agents than its fan-out, a tree never more than
\* its total (prep.go:122-149).  Not for an id that two runs share, nor for
\* kids registered after the tallies were released.
Spawned(k) == stage[k] \in {"prepared", "running", "announcing", "done"}
Overlapping(r) == \E q \in shadowed : Id[q] = Id[r]
CapsHold ==
  /\ \A t \in Tasks : (IF t \in Runs THEN ~Overlapping(t) ELSE TRUE) =>
       Cardinality({k \in Kids : by[k] = t /\ Spawned(k)}) <= cap.fanout
  /\ \A r \in Runs : stage[r] \in {"running", "returned"} /\ ~Overlapping(r) =>
       Cardinality({k \in Kids : root[k] = r /\ Spawned(k)}) <= cap.total

\* When the drain has settled nothing works any more and nothing starts:
\* the stores can be closed (state.go:180-183).
SettledQuiet == settled => \A t \in Tasks : ~Unwinding(t)

\* A daemon that stays halted comes to rest: every task that was counted
\* ends, those admitted or spawned while Halt was under way included.
HaltSettles == [](shadowed = {}) /\ <>[]halted => <>[](counted = {})
==========================================================================
