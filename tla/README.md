# A verification project for agezt

agezt is a Go daemon that runs autonomous agents. An intent enters through one
of several surfaces, the governor picks a model provider for it, an agent loop
calls the model and tools, the Edict policy decides which tool calls need a
human, and every step is an event of one append-only, hash-chained journal.
This directory models the core of `src/kernel` in TLA+, checks it with TLC on
small instances, and proves theorems about it with TLAPS.

## 1. Inventory

Paths are relative to `src/kernel`.

| Component | State | Operations | What is hard | What makes it correct |
|---|---|---|---|---|
| journal | segments on disk; next sequence number, head hash, current segment and offset | Open (scan, quarantine, recover), Append (write, fsync, rotate), Range, Verify, Restore, Close | crash and loss of power between any two file operations, failed write, fsync or rotation, damaged files, readers without a lock | an acknowledged record stays; the chain resumes where it ended; quarantine deletes nothing; readers see a contiguous chain |
| bus | subscriptions, their channels, the mutex | Publish, PublishStreaming, Subscribe, Cancel, Close | concurrent publishers, full channels, cancellation during a fan-out | durable before delivery, one order, drops counted, no send on a closed channel |
| scheduler | a run's maps (in-degree, started, completed, results, errors), pool, channel, context | Run: validate, pick, launch, wait, join | node goroutines against the driver, cancellation at any moment, a bounded pool with gates outside it | dependencies respected, every node run, no lost wake-up, the run ends |
| approval | pending requests and their channels | Submit, Resolve, Pending | operators, the timer and the context race | one decision per request; the waiter always returns; the trail is complete |
| cadence | schedule entries (memory and file), in-flight guards | Add..., Reschedule, RunNow, Remove, SetEnabled, Due, fireDue, fireOne, CompleteFiring | a stale due list, edits during a run, crash, panic, failed save | no overlapping runs, recurring slots at most once, one-shots at least once |
| governor | breaker per provider, spend per scope, calls of the minute, response cache | Complete: rate and budget gates, chain, retries, breaker, record usage; SetDailyCeiling | check and use apart, concurrent probes, day rollover, ceilings changed meanwhile | bounded overshoot; every call ends; a tripped provider is skipped, then used again; a stream is heard once |
| state, atomicfile | a map, one file per namespace | Open, Get, Set, Delete | crash and loss of power during the replacement, failed write | what was answered with success survives the process, beside failures of other keys; a loss of power takes back whole changes only |
| run registry, state, lifecycle | live runs and their cancel functions, steering controls, halted latch, drain count | SetupRunState, CleanupRunState, Halt, CancelRun, Resume, DrainAndHalt | admission and spawns race halt, cancel and cleanup | nothing at work out of reach, a settled drain is quiet, a halted daemon comes to rest |
| delegation | tallies per spawner and per tree, handles | prepare, spawn, await, release, sweep | nested spawns, refusals between two tallies, a root that ends first | caps hold, no sub-agent outlives its tree |
| resume tickets | one file per run; attempts, status; suspend latch | claim, finalize, Suspend, MarkSuspendedAll, the resumer's scan, quarantine | crash and shutdown at any point, lists read before the lock, the boot racing new runs | interrupted work is kept, ended work is not repeated, attempts are bounded |
| steering | paused, lease, pending step, directives, remembered results | Pause, Resume, Step, Inject, Intervene, the loop's boundary | operators against the loop, retried interventions | no lost wake-up, a retry is applied once |
| edict | levels, overlay, hard denials | Decide, overlay edits | precedence | a hard denial wins |
| standing, pulse, planner, tenant, roster, reaper, workboard, workflows, board, memory, skills, extensions, providers, artifacts | stores of records and loops over them | see `PROJECT.json` | mostly data and I/O | |
| control plane, REST, OpenAI, ACP and agent gateways, web UI, channels, webhooks, update, tunnel, warden, credentials, market, command line, front end, SDK | | | I/O and rendering | |

How they interact: every component publishes on the **bus**, which holds its
mutex through `journal.Append` (an fsync) and then fans out. The **scheduler**
publishes plan and node events from the driver and from node goroutines; a gate
node calls **approval**, whose Submit blocks the node while operators call
Resolve from the control plane. **cadence** starts runs on goroutines of its
own through the run registry; **governor** is called from within runs. The
**registry** and **delegation** share the registry's lock: a sub-agent is
counted, registered and cancelled like a run. The **runner** claims a ticket
when a run is registered and finalizes it when its loop ends; the resumer of
the next boot reads what is left. **steering** is called by the loop at the top
of each iteration and by operators at any time. The
shared lock is the bus mutex, which is why the models treat a publication as a
step of its own, during which everybody else runs.

## 2. Modules

| Module | Models | Kind |
|---|---|---|
| `PlanGraph` | dependency graphs, acyclicity | definitions |
| `PlanExecutor` | `scheduler/scheduler_run.go`, `Executor.Run` | state machine |
| `PlanExecutor_proofs` | its theorems | proofs |
| `PlanValidation` | `assertAcyclic` and the id checks, step by step | algorithm |
| `SubjectPattern` | what a subject pattern means | definitions |
| `SubjectMatching` | `bus/bus_match.go`, the loop of `matches` | algorithm |
| `DurableLog` | what the journal promises: a log that grows by acknowledged records | abstract specification |
| `Journal` | `journal/*.go` over a file system with a page cache | state machine, implements `DurableLog` |
| `EventBus` | `bus/bus.go`, `bus/bus_publish.go`; the journal is what `DurableLog` promises | state machine |
| `EventBus_proofs` | its theorems | proofs |
| `Approval` | `approval/*.go` | state machine |
| `Approval_proofs` | its theorems | proofs |
| `Cadence` | `cadence/*.go` | state machine |
| `Cadence_proofs` | its theorems | proofs |
| `ProviderChain` | `governor/*.go`: `Complete`, `CompleteStream` | state machine |
| `ProviderChain_proofs` | its theorems | proofs |
| `RunLifecycle` | `modules/runs/registry`, `state`, `lifecycle`, `delegation` | state machine |
| `RunLifecycle_proofs` | theorems of `RunLifecycle` and `Steering` | proofs |
| `RunTickets` | `modules/runs/resume`, `runtime/resume.go`, the retry wrapper, the resumer of `cmd/agezt` | state machine |
| `Durability_proofs` | theorems of `RunTickets` and `Journal` | proofs |
| `Steering` | `modules/runs/steer` and the loop's boundary | state machine |
| `StateStore` | `state/state.go` over `internal/atomicfile` | state machine |
| `Algorithms_proofs` | theorems of `PlanValidation`, `SubjectMatching` and `StateStore` | proofs |
| `MC_*` | constants of the runs; `MC_Workflows`, `MC_Runs`, `MC_Durability` and `MC_Algorithms` put several machines side by side | model checking |

### State and actions against the code

**PlanExecutor.** The variables are the maps of `Run` under their names;
`pc` is the driver's place in the loop, `stage[n]` a node goroutine's, `tokens`
the number of messages in `done`, `sem` the holders of a slot. One action is one
critical section of `mu`, one channel operation or one publication. The gap that
matters is kept: `PickReady` and `CountInflight` are two critical sections with
the launches between. `Begin` merges the slot, the read of the inputs and the
publication of `node.started`, which is exact because the results of a node's
dependencies no longer change once it was launched. A custom invariant monitor
is not modelled; the default one fails exactly when the context is cancelled.
Duplicate ids and empty plans are refused or ended before the loop.

**PlanValidation, SubjectMatching.** One step per turn of the loop, the map
iteration order of Go as a choice.

**Journal.** A segment is a sequence of cells: a `line` is a record with its
newline (size two), a `frag` an unterminated piece of one (size one). `synced`
is the prefix on stable storage. Append is `NewEvent`, `AppendWrite`, `Fsync`,
`Return` (with rotation); the error branches are `WriteFails` and `FsyncFails`.
Open is `OpenStart`, `ScanSegment` per segment, `CopyTail`, `TruncateTail`,
`RenameSegment` for a quarantine, then `Position` and the `journal.recovered`
record. The environment stops or crashes the process, takes the power (the
unsynced cells of each file may go, be cut, or stay) and damages cells.
The quarantine gives names that are durable only once the directory is synced,
at its end (`SyncDirectory`): until then a copied tail is in `copied` and a
renamed segment in `renamed`; a loss of power may bring the segment back under
its old name, and may take the tail with its file, for good, since its segment
was truncated (`vanished`). The history `unnamed` holds the records moved aside by
an Open that did not return, whose gap nothing names afterwards.
A reader is Verify's callback on the lines of `rangeCompleteLines`. It takes no
lock and reads piece by piece, between any two steps of Append: `RangeStart`
lists the segments, `ReadPart` takes the first part of a line in which a chunk
ends, `ReadLine` the rest of it and the callback, `ReadPiece` an unterminated
piece that stays in the line buffer, `ReadEnd` the end of the file, which a write
under way may still move. Its `alarm` is the first line that does not continue its
chain, or that was put together from two lines. The history `cut` says that a
failed fsync cut off bytes the reader had taken.

**EventBus.** `lock` is the mutex, held from `Begin` to `Return`; a consumer's
`Receive` is outside it. A subscription's identity is used once.

**Approval.** `place[id]` is the place of a Submit, `pending` the registry;
`Claim` is the critical section of Resolve and `SendDecision` its send. Each
publication succeeds or fails; the code ignores the error and the history
`unjournaled` remembers it.

**Cadence.** `entries` is the store in memory and `disk` its file; `due` is the
rest of the list `fireDue` walks, `running` the guards, `flight` the goroutines
in `fireOne`. `Due` is one critical section of the store's mutex, and what
follows holds no lock. Daily and window entries are entries on a grid of slots.

**ProviderChain.** A caller's `pc` is its place in `completeChained`,
`preflightAndRoute` and `runChain`; `left` is what remains of the chain, so that
skipping the providers with an open circuit is `OpenChain`. Each gate is one
critical section of the governor's mutex, `Bill` and the breaker's calls too;
the provider call lies between them. `Rollover` is part of every action that
uses the ledger, as `rolloverIfNeededLocked` is. A call that fails chooses what
kind of error it was and whether a chunk had come through. `heard` and `peak` are
histories for the properties.

**RunLifecycle.** A task is a root run or a kid (a sub-agent started
asynchronously). `entry`, `steers` and `counted` are the registry's map of cancel
functions, the map of steering controls and the wait group; `fanout`, `tree` and
`handles` are the delegation service's maps. `TakeFanout`, `TakeTree` and
`Spawn` are the three critical sections of one delegation, with a refusal
possible at each; `KidReturns` and `Announce` are the ends of its goroutine. The
loop of a task returns when it likes, and must return once it is cancelled.

**RunTickets.** A run has a frame of its caller and one of the resumer. `Claim`,
`Finalize`, `MarkSuspended`, `Counted` and `MovedAside` are the store's
operations; `scan` and `listed` are the two lists the code reads before it takes
the lock again. `Exit` is the end of the process at any point, after a shutdown
or not; only `ticket` outlives it. `fate` records why work ended, for the
properties.

**Steering.** `Evaluate` is one turn of `Wait` under its lock; a parked loop holds
the wake channel and the timer of that moment (`woken`, `armed`). `Intervene` is
`Lookup`, `Apply` and `Remember`.

**StateStore.** The store's lock is held over the whole write, so the steps of
the replacement interleave with crashes only. `durable` is what a loss of power
brings back: renames and removals are undone until the file system has written
the directory (`Flush`), because the code does not sync it. The histories
`promised` and `doubtful` are the answers given; `settled` is their value at the
last directory write, to which a loss of power takes them back with the file.

## 3. Runs

A passing run checks a component, or components that belong together, with all
of their properties.

| Run | Shows | Bounds and why they are enough |
|---|---|---|
| `Workflows` | `InputsComplete`, `WakeupComing`, `SendNeverBlocks`, `JournalClosed`, `Terminates`, `GatesNotStarved` of `PlanExecutor`; `OneDecider`, `AuditedBeforeReturn`, `DecisionArrives` of `Approval` | four nodes in a diamond, a fork, a chain and a cycle, node 2 a gate, one slot: every kind of join, contention for the pool, independent branches of which one fails. Two requests, two operators, any number of calls. The safety part is proved for all plans, requests and operators |
| `PlanExecutor_skip` | the driver can leave a node behind (finding) | three nodes |
| `Approval_expired` | a decision is accepted after expiry (finding) | two requests, two operators |
| `Algorithms` | `VerdictCorrect`, `DecidesMatch`, `PromisesKept`; `DeliveredDurable`, `JournalOrder`, `DropsAccounted`, `NoSendOnClosed`, `PublishReturns` of `EventBus` | all graphs on three nodes with self-loops and an unknown id; patterns and subjects of up to three tokens over two names, which places `>` and `*` before, at and behind the end; a store of two keys that share a file, with two values, failures, crashes and losses of power without bound; a bus with two publishers, two overlapping patterns, channels of one place and three events: the second delivery to a slow consumer is a drop, the third can follow it |
| `State_power_loss` | an answered change is not on stable storage (finding) | two keys, two values |
| `Durability` | `InterruptedKept`, `EndedStaysEnded`, `AttemptsBounded`, `ListedRunEnds` of `RunTickets`; `NothingDeleted`, `GapRecorded`, `RangeContiguous`, `ImplementsDurableLog`, `ComesBack` of `Journal` | one run with two attempts, two dispatches and four boots, so that the cap is reached and a boot follows: no action reads the ticket of another run. For the journal eight environments, each a set of faults, a bound on them and on appends, two of them with a reader. Segments hold two records, so that rotation happens, oversized segments occur after a failed one, a quarantine spans segments, and a reader meets a line that was cut off and replaced, in its segment and behind it |
| `Journal_torn_write` | an acknowledged record behind a fragment is lost (finding) | one failed write |
| `Journal_cut_read` | a reader raises an alarm about a sound journal (finding) | one reader, one failed fsync |
| `Journal_tail_lost` | a loss of power takes a quarantined tail (finding) | one damaged record, one loss of power |
| `Cadence_refire` | a one-shot is run twice (finding) | two schedules, no fault |
| `ProviderChain` | `OvershootBounded`, `CallEnds`, `Heals` | two callers, a ladder of two models over two providers, one retry, one call a minute: every way to leave a provider, a model and a call occurs, and a circuit opens, cools down and is probed by both callers. One configuration has breakers and no budgets, the other budgets (a ceiling of one call, or none) and no breakers; the two do not share state |
| `Runs` | `Reachable`, `KidsSwept`, `CapsHold`, `SettledQuiet`, `HaltSettles` of `RunLifecycle`; `ParkedKnows`, `AppliedOnce` of `Steering`; `NoOverlap`, `OneShotNotLost`, `SlotAtMostOnce`, `OneShotRuns` of `Cadence` | two runs with one id and two kids, so that ids are reused, kids spawn kids and each cap is the one that binds; a redirection, its retry and a leased halt over four instants; two schedules in four environments (`MC_Cadence`), a clock of four instants, intervals of two and a grid of three, one identity for a goroutine more than there are entries: two slots of an entry fall due during one run |

`MC_Runs`, `MC_Durability` and `MC_Algorithms` choose one machine per behaviour in their initial
states and leave the variables of the others alone, and `MC_Workflows` lets the
approvals begin after a plan that was rejected: the runs cover several
components without the product of their states. Each machine keeps its own
fairness, stated over its own actions.

`Environments` in `Journal` and `Cadence` is a set of records: the state space is
the union of those of the environments, so that one run covers combinations of
faults without their product. `MaxEvents` (EventBus), `Horizon` (Cadence),
`appends` and `left` (Journal, Cadence), `MaxSpent` (ProviderChain), `MaxBoots`
(RunTickets) and `MaxTime` (Steering) are bounds on counters and nothing else.
`CHECK_DEADLOCK FALSE` is set in `Runs`, `Durability`, `ProviderChain` and the
failing runs of the store, the journal and the cadence, where a system may rest
(an idle journal, a clock that stopped, a budget that is spent). `Workflows` and
`Algorithms` are checked for deadlock: the executor and the approvals end in an
explicit idle step, and a bus may rest only when it was closed (`Quiet`).

### Fairness

* PlanExecutor: the driver and each node goroutine keep running (the Go
  scheduler). Nothing is assumed of `Record`, since a node's Run may never
  return; `Terminates` takes it as a hypothesis.
* Journal: Open goes on, with the next file operation or with an error and a
  restart by the supervisor. `ComesBack` says that it succeeds in the end.
* EventBus: a publisher within a call keeps running. Consumers owe nothing.
* Approval: a Submit under way runs on and takes what is on its channel, and a
  Resolve that claimed a request sends its decision. The timer, the context and
  the operators owe nothing, so that it is the decision and not the timeout that
  `DecisionArrives` speaks of.
* ProviderChain: the governor's own steps are taken, a provider's call returns or
  its context ends, and time passes. Nothing is assumed of callers, of the
  operator, or of which provider fails; `Heals` takes it as a hypothesis that the
  preferred provider has stopped failing and that calls keep coming.
* RunLifecycle: goroutines run, and a task returns once its context is cancelled.
  A task that is not cancelled may work for ever.
* RunTickets: the boot reads its list and walks it, goroutines run, and a loop
  ends (`MaxIter` bounds its rounds, `MaxAttempts` those of a retry policy).
* Cadence: the ticker ticks, goroutines run, time passes, and a run ends: the
  engine bounds it with `RunTimeout` when one is configured.

### What the failing runs found

1. `PlanExecutor_skip`: between `pickReady` and the count of the nodes in flight
   the last running node completes, which may be the one `pickReady` has just
   returned; nobody has looked for its dependents and the count is zero. The
   driver leaves with the dependents never launched, and the plan is reported
   completed (`scheduler_run.go:219-238`). The invariant of the loop's comment
   needs the two reads in one critical section.
2. `Journal_torn_write`: a `write(2)` that fails half way leaves its fragment;
   the next acknowledged record shares a line with it (`journal_io.go:213`).
   The branch for a failed fsync cuts the file back, this one does not.
3. `Journal_cut_read`: a reader has taken a line, or part of it, whose fsync then
   fails. The line is cut off (`journal_io.go:230`) and the next append writes
   another one in its place; the reader goes on with that one and Verify reports
   a broken chain in a sound journal.
4. `Journal_tail_lost`: the quarantine truncates the damaged segment before the
   directory entry of the copy is durable (`recover.go:72-92`). A loss of power in
   between can take the copied tail, with sound acknowledged records behind the
   damaged one.
5. `State_power_loss`: Set and Delete answer nil before the directory is synced
   (`atomicfile.go:36-56`, `state.go:199-206`), so a loss of power takes back
   answered changes, against "persist synchronously" (`state.go:192-193`).
6. `Approval_expired`: the entry is removed after the verdict was published, so
   a late Resolve returns nil (`approval_methods.go:58,67`).
7. `Cadence_refire`: a due list computed while a one-shot runs launches it again
   after it ended (`cadence_engine.go:137`).

Where a passing run has a property about the same behaviour, the property says
what is left: `RangeContiguous` allows an alarm only to a reader whose bytes a
failed fsync cut off, `NothingDeleted` allows only the loss of a tail whose file
had no durable name, and `PromisesKept` takes a loss of power back to the answers
of the last directory write, all of them and nothing else.

Further divergences met while modelling. Each is visible in the model, in an
environment or with a condition that the listed properties leave out, and has no
run of its own:

* Journal: after a crash between the quarantine and the `journal.recovered`
  record the next Open sees a sound log and the gap is never recorded
  (`journal_open.go:85-87` promises it). `GapRecorded` leaves out these records
  (`unnamed`).
* Journal: a write that fails half way leaves a fragment that `curBytes` does not
  count (`journal_io.go:213`), so the truncation after a later failed fsync
  (`journal_io.go:216-233`) cuts into the last acknowledged record.
  `NothingDeleted` and `GapRecorded` leave out environments with both faults
  (`Miscounts`); for all others they are proved.
* Journal: a record that was written and not synced when the process died is
  read back by Open and extended; a loss of power can then take it, and the
  acknowledged records behind it no longer verify. An environment with
  `{"crash", "power"}` violates `AckedDurable`.
* Approval: the errors of both publications are ignored (`approval_ops.go:41,97`),
  so "the returned Outcome is also journaled" has exceptions;
  `AuditedBeforeReturn` shows they are the only ones.
* Cadence: RunNow during a run is overwritten by CompleteFiring for a continuous
  entry, or consumed by a tick that skips the entry as busy
  (`cadence_store_run.go:50-51` says "the next tick fires it").
* Cadence: an entry rescheduled to a one-shot while its recurring firing runs is
  removed by that firing's CompleteFiring (`cadence_store_run.go:127-129`).
* Cadence: `_ = s.save()` in Due (`cadence_store_run.go:106`) gives up the
  at-most-once promise of lines 67-72 when the save fails and a crash follows.
* Cadence: a panic skips CompleteFiring, so a one-shot that always panics is
  launched at every tick, against "cannot retry-storm" (lines 116-117).
* Cadence: an Add whose save failed returns an error and leaves the entry in
  memory.
* Scheduler: a cancellation lets at most one more node through after the check of
  the context (`OneLaunchAfterCancel` is proved).
* Governor: after the cooldown every concurrent caller probes the provider;
  `breaker.go:15,20` speak of a single probe.
* Governor: the overshoot of a budget is below N calls' cost, N the number of
  callers, while `budgetgate.go:46-49` says (N-1) calls' worth. The two agree
  when spend is a multiple of a call's cost.
* Governor: `governor.go:228-232` says of ErrRateLimited that "the fallback chain
  never sees it"; the ladder of models does, and asks again with the next model
  (`RefuseRate`).
* Runs: `state.go:140-145` refuses an id that is running, because a second run
  "would clobber the run registry". After CancelRun, or Halt and Resume, the id
  is free while the first run still unwinds; a run admitted then loses its
  registration and its steering to the first one's cleanup. `Reachable` leaves
  out these runs (`shadowed`).
* Delegation: a sub-agent that another sub-agent spawns after the root was swept
  is cancelled by nobody, against "a spawn never outlives its delegation tree"
  (`exec.go:105-106`), and re-creates the tree's tally. `KidsSwept` leaves out
  these (`late`).
* Delegation: a tally taken before a later cap refuses is not given back; a spawn
  refused by Halt leaves its steering control in the map; two awaiters can both
  be handed one result ("exactly once", `service.go:70`).
* Lifecycle: `DrainAndHalt` counts the active runs after Halt has emptied the
  registry (`manager.go:107-109`), so it reports none when it times out.
* Resume: a backoff cut short by a shutdown returns `ctx.Err()` while the deferred
  finalize sees the last attempt's error, and the ticket is deleted, against
  "a shutdown-interrupted retry keeps its ticket" (`runner_retry.go:35-37`). An
  attempt refused because the daemon is halted deletes it too. Both are the
  `forfeited` runs that `InterruptedKept` leaves out.
* Resume: runs started during the boot race the resumer: one with the id of a
  ticket makes the resumed run fail as "already running", and the resumer then
  deletes the ticket of the live run.
* Resume: `MarkSuspendedAll` writes back tickets that were deleted after it listed
  them, so ended work is run again (`overtaken`). A crash between the end of a
  run and the deletion of its ticket does the same, and one between the
  registration of a run and its claim loses it (`unsaved`).
* Resume: the suspend latch is never cleared; after an update that was given up,
  a run an operator cancels keeps its ticket.
* Steering: Pause with another lease keeps a step that is pending; Step turns a
  leased halt into a pause without end.
* Steering: a retry that begins before the first call was answered is applied
  again (`AppliedOnce` leaves these keys out).
* State: a Delete that failed is answered with nil when it is retried, although
  the file still has the key, against "the on-disk representation is up to date
  already" (`state.go:192-193`); `PromisesKept` leaves the key out (`doubtful`).
  A Set that failed is visible to readers.

Hazards that no property covers and that are not in `PROJECT.json`: a dependent's
node.started may be journalled before its dependency's node.completed, about
which the code promises nothing; Truncate or Seek may fail after a failed fsync
(a double fault); two quarantines within one second clash on a file name;
Restore is not atomic; a restart leaves approval.requested without a verdict.

## 4. Theorems

TLC checks the instances above; TLAPS proves the following for every value of
the constants, from the named assumptions (`PlanAssumption`,
`ValidationAssumption`, `MatchingAssumption`, `StoreAssumption`,
`BusAssumption`, `ApprovalAssumption`, `CadenceAssumption`, `ChainAssumption`,
`LifecycleAssumption`, `TicketAssumption`, `JournalAssumption`), which the runs
evaluate. Every invariant that a passing run checks is a theorem here.

**PlanExecutor_proofs.** `TypeCorrect` is inductive alone. The bookkeeping of the
driver is not visible in the types, so the safety theorems rest on an inductive
invariant (`BookkeepingCorrect`) that relates the maps, the goroutines and the
batch: a node has an outcome recorded exactly from `Record` on, or without a
goroutine; every node of the batch is still launchable although the mutex was
released since; a launched node has the results of all its dependencies; the
in-degree of a node is the number of its dependencies not completed.
`InputsAlwaysComplete` and `IndegreeAlwaysExact` are conjuncts of it. Four more
need a little of their own on top: `WakeupNeverLost` (started and completed
differ, so a goroutine has still to record, hence to send), `SendsNeverBlock`
(the messages come from different nodes), `PoolNeverExceeded` (the slots are
those of compute nodes under way) and `OneLaunchAfterCancel` (nothing is late
before the check has passed).
`JournalAlwaysClosed` follows the trail a node leaves among the events
(`Journalled`): nothing before its start, then the start alone, then exactly one
outcome; and the plan's last event finds no goroutine that could still publish.

**Algorithms_proofs.** Of PlanValidation, `KahnInvariant` is the loop invariant: what was
processed is closed under dependencies, what is queued has in-degree zero, and
every node with in-degree zero is processed or queued. `VerdictAlwaysCorrect`
concludes that the queue runs empty before all nodes are processed exactly when
some set of nodes keeps a dependency inside itself. `NodesProcessedOnce` follows
from the same invariant. Of SubjectMatching, `MatchAlwaysDecided` needs that the
tokens before the index were compared (`ComparedSoFar`): none is the tail
wildcard and each fits its counterpart. Of StateStore, `PromisesAlwaysKept` rests
on `StoreInv`: no unsynced file ever has the store's name, a promise is kept
in the file and in memory both, since a change of another key writes memory over
the file and a restart reads memory from it, and the promises of the last
directory write are kept in the file a loss of power brings back.

**EventBus_proofs.** `SendsNeverPanic` rests on the mutex (`Locked`): a publisher
with a send in hand holds it, the subscriptions it has still to serve are live,
and only live ones have an open channel, so neither Cancel nor Close can come
between. `DeliveredAlwaysDurable` rests on `AppendedFirst`: the event a fan-out
carries, and every event in a channel or received, was appended before. `OrderIsJournals` is not inductive: it needs that the journal is
ahead of the fan-outs (`JournalAhead`), so that the record of a publisher past
its append stands behind everything fanned out so far. `DropsAlwaysAccounted`
balances an account for each subscription (`Accounts`): what it received, what
waits and what was dropped are what it was owed since it subscribed, but for the
one event a fan-out under way has still to offer it. All hold for any number of
publishers, subscriptions and channel places.

**Approval_proofs.** `TypeCorrect` and `PendingAlwaysLive` (an entry of the table
has a waiter that will take it out), then an inductive invariant that counts the
claims on a request (`DecisionInOnePlace`): an entry that is still registered has
no claim, and a decision that was claimed is in exactly one place (with its
operator, in the channel, or taken by the waiter). From it follow
`OneDeciderAlways` and `DecisionAlwaysFits`, for any number of requests and
operators. `AlwaysAuditedBeforeReturn` describes the trail of a request at every
stage of its Submit (`Traced`): empty, its request, or its request and then the
verdict the waiter has been given. Requests of which a publication failed are
left out, and only those.

**Cadence_proofs.** `TypeCorrect` includes that what the store's operations commit
is a store again and that the slot arithmetic stays in range. `GuardAlwaysHeld`:
an entry is in `running` as long as a goroutine is in `fireOne` for it, and no
two goroutines are there for one entry; the second half is what makes the first
survive `ClearGuard`, which frees the guard by the entry's id and not by its
holder. `RunsNeverOverlap` follows, for any schedules, faults and edits.
`OneShotsNeverLost` needs that the modes of an entry in memory, on disk, in the
due list and in flight agree while no schedule changes its cadence, and that a
one-shot is no longer owed when its run has ended (`Promised`).
`SlotsRunAtMostOnce` needs that a recurring entry is past every slot handed out
or run, and that the file says so too (`MovedOn`).

**ProviderChain_proofs.** `TypeCorrect` needs that a caller at a call has a
provider left. `StreamedOnce` rests on `emitted`: an attempt that fails after a
chunk ends the call. `OvershootAlwaysBounded` is not inductive, because billing
adds to a spend about which the bill knows nothing. The invariant counts the
callers that have passed a scope's gate and not yet been billed: a ceiling in
force is at most the day's peak, and the spend of the scope plus what those
callers may still add stays below the peak plus one call for each caller
(`Soft`). A caller enters the count below the ceiling only, and leaves it with
its bill.

**RunLifecycle_proofs.** `AlwaysReachable` rests on `InReach`, which adds to the
property who may hold a registration: an entry of the map belongs to a task of
that key that works, and of two runs at work under one id each is in `shadowed`
or was cancelled.
`SettledAlwaysQuiet` needs that the tasks counted are those at work and that
nothing is admitted while halted. `KidsAlwaysSwept` needs that a kid at work has
a handle or was cancelled, because handles go only by the sweep or when the kid
is done. `CapsAlwaysHold` counts (`Tallied`): a tally is at least the number of
sub-agents it stands for as long as its task works, and only the run's own
cleanup clears it. Of Steering, `ParkedAlwaysKnows` holds with nothing else;
`AlwaysAppliedOnce` needs that a key whose calls never overlapped has one call
under way, which finds it unapplied or is there to remember the result
(`OnceEach`).

**Durability_proofs.** Of RunTickets, two invariants carry the rest: `Shape` (types) and `Order`
(what can be on disk and in the lists: nothing before the claim, at most one
dispatch of a run in a boot, and that from the list, the suspension after it).
`AlwaysInterruptedKept` adds `Decided`: where a ticket is missing the run's fate
is decided. `AlwaysEndedStaysEnded` adds `Ended`: a run whose ticket was deleted
is in no list that could be written back, so that `Counted` finds no file.
`AttemptsAlwaysBounded` adds `Attempts`: dispatches are at most the attempts in
the file and in each list that has the run, through crashes and boots.
`TypeCorrect` needs `Tried` besides: a frame that may retry has attempts left.

Of Journal, for any segment size, number of records, readers and sets of faults,
the invariant is `LedgerInv`. Its types say that files are well formed and that
what a step works on exists; `BytesCounted`, that `curBytes` is the committed
size of the current file, without which the truncation after a failed fsync
could cut too much; `LastWritten` and `Copied`, that what is about to be cut off
is not synced, or has been copied. On these rests `KeepsSafe`: no step loses
a record that was synced or copied, but for a loss of power that takes a copied
tail whose file has no durable name, and this one is then in `vanished`. It holds
through losses of power in the middle of a quarantine that bring any of the
renamed segments back. `NothingEverDeleted` and
`GapAlwaysRecorded` follow, as acknowledged events and the records that name a
gap are both safe from their fsync on. `RangeAlwaysContiguous` needs another
shape, since a reader knows only what it has read: there are points, one for each
segment, at which a single chain through all the files enters it (`OneChain`);
Open establishes them, whatever the disk holds, append and rotation extend them,
and a reader that no failed fsync has cut stands on that chain at every step, also
within a segment and within a line (`Stands`). Scans and cuts are defined by
the cell at which they stop; that there is one is the least element of a set of
numbers (`LeastNatural`), the only use of induction.

Only model-checked: the liveness properties (`Terminates`, `GatesNotStarved`,
`ListedRunEnds`, `ComesBack`, `PublishReturns`, `DecisionArrives`, `OneShotRuns`,
`CallEnds`, `Heals`, `HaltSettles`), since ENABLED and fairness are out of the
prover's reach; and that the journal implements `DurableLog`, whose log is put
together over the segments by recursion, so that each step needs an induction
over them.
What a recursive definition computes over all data is out of reach, so no module
with theorems declares one.

## 5. Abstractions

* Journal: the directory entry of a new segment is durable when the segment is
  used (the code calls `syncDir` there and ignores its error), that of a
  quarantined file only from the `syncDir` at the end of the quarantine; the bytes
  of a segment are stable when it is renamed; truncations are durable at once and
  not undone by a loss of power; Truncate and Seek after a failed fsync succeed.
  A reader behind a cut meets lines of the length of those it had read, so that
  it goes on at the start of a line or in the middle of one. Files are not
  damaged while Open reads them; a clash of quarantine names and other I/O
  errors of Open are a crash during Open. Hashes are identities of records.
* EventBus: redaction is left out, as a pure function of the payload; a nil bus
  is not modelled.
* Approval: the id is fresh; a nil bus behaves as one that refuses everything.
* Cadence: the clock read of a tick and Due are one step; the order within a due
  list is arbitrary; a graceful stop is a run that ends or a crash.
* Scheduler: what a node computes is its result or its error.
* ProviderChain: the route of a model is a constant; the response cache, the
  capability and pricing gates and the hot reload of providers are left out; the
  reads of the breaker for one chain are one step; a call without streaming is
  one whose attempts never speak; a ceiling that an operator sets is a choice,
  and those of tasks and agents are scopes of the same kind.
* RunLifecycle: cancel functions are called in the step that takes them from the
  map; a task learns of it when it likes. Synchronous delegation is part of its
  caller. The deadline of a run is its loop returning. The caps are positive: a
  cap of zero, which the code takes for none, is not modelled.
* RunTickets: the conversation in a ticket is left out; `RunAssured` owns its
  ticket as the retry wrapper does; tickets are written without error; Suspend
  comes after the boot's scan.
* Steering: a directive is the call that brought it; Abort and Query change
  neither control nor directives.
* StateStore: one namespace; the fallback for Windows is left out; the temporary
  file of a dead process is never read; the file system writes all pending changes
  of the directory together.

## 6. Plan

Done: the modules above. Next, in this order:

1. Proofs: the step simulation of `DurableLog`, from the chain of `OneChain` and
   an order of its records that needs no recursion.
2. Standing orders: cooldown and rate limit of a trigger, with the run it starts.
3. Claims on the workboard and the self-repair coordinator: one worker per card,
   retry after a lost worker.
4. The precedence of edict's hard denials, levels and overlays, and next-slot
   arithmetic of `forecast.go`, as algorithms next to `PlanValidation`.
5. A composition of `Approval` with the gate nodes of `PlanExecutor`, and of
   `RunTickets` with `StateStore`.

## 7. Not modelled

`PROJECT.json` lists every part with the reason. In short: the control plane, the
HTTP and agent surfaces, channels, webhooks, the command line and the front end
parse requests and render answers; plugins, MCP, warden, tunnel and update drive
other processes; memory, world model, skills, catalog, artifacts and market hold
data whose content is the point. These are most of the repository's lines and
have no protocol of their own: what can go wrong between concurrent actors, and
across crashes, goes through the components modelled here. Standing orders, the
workboard, self-repair, tenants and the edict policy have state of their own and
are in the plan.
