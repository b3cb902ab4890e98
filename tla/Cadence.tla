------------------------------ MODULE Cadence ------------------------------
(***************************************************************************)
(* kernel/cadence: the schedule store (entries in memory, one file on      *)
(* disk) and the engine whose ticker fires what is due.  Daily and window  *)
(* entries are both "grid" entries here: their next slot is the first of a *)
(* fixed grid of instants after now.  The engine holds no lock between the *)
(* due list it was handed and the guard of each entry in it, a run lives   *)
(* on a goroutine of its own, and operators edit the store at any moment.  *)
(* An entry's id is a fresh ULID, so an id is used once.                   *)
(***************************************************************************)
EXTENDS Naturals, FiniteSets, Functions

CONSTANTS
    Schedules,  \* schedule ids
    Workers,    \* identities for the goroutines of firings
    Environments, \* what may happen together: the schedules, the operations
                \* on them (modes that may be added, and edits), the kinds of
                \* fault, and a bound on the crashes and panics
    Horizon,    \* bound: the clock stops here
    Interval,   \* the interval of interval entries, the cooldown of continuous ones
    Grid        \* the distance of the slots of a grid entry

Modes == {"interval", "grid", "once", "continuous"}
Recurring == {"interval", "grid"}
Edits == {"remove", "runnow", "pause", "reschedule"}

Environment == [ids : SUBSET Schedules, ops : SUBSET (Modes \cup Edits),
                faults : SUBSET {"crash", "panic", "save"}, left : Nat]

ASSUME CadenceAssumption ==
    /\ Environments \subseteq Environment
    /\ Horizon \in Nat
    /\ Interval \in Nat \ {0} /\ Grid \in Nat \ {0}

VARIABLES
    now,
    entries,    \* Store.entries: a function on the ids present
    disk,       \* the file the store was last saved to
    due,        \* what the running fireDue has still to launch
    running,    \* Engine.running: the in-flight guards
    flight,     \* goroutines in fireOne
    env,        \* the environment: the operations in use, the faults to come
    made,       \* ids already handed out
    owed,       \* history: one-shots promised and not yet run
    launched,   \* history: the firings launched
    relaunched  \* history: the firings launched more than once

cadence == <<now, entries, disk, due, running, flight, env, made,
          owed, launched, relaunched>>

Idle == [stage |-> "idle"]
Slots == 0..(Horizon + Interval + Grid)
Firings == [id : Schedules, mode : Modes, slot : Slots]

Entry == [mode : Modes, next : Slots, enabled : BOOLEAN]

CadenceTypeOK ==
    /\ now \in 0..Horizon
    /\ entries \in [DOMAIN entries -> Entry] /\ DOMAIN entries \subseteq made
    /\ disk \in [DOMAIN disk -> Entry] /\ DOMAIN disk \subseteq made
    /\ due \subseteq Firings
    /\ running \subseteq Schedules
    /\ flight \in [Workers -> {Idle} \cup
                     [stage : {"run", "complete", "clear"}, what : Firings]]
    /\ env \in Environment
    /\ made \subseteq Schedules
    /\ owed \subseteq Schedules
    /\ relaunched \subseteq launched /\ launched \subseteq Firings

CadenceInit ==
    /\ now = 0
    /\ entries = <<>> /\ disk = <<>>
    /\ due = {} /\ running = {}
    /\ flight = [w \in Workers |-> Idle]
    /\ env \in Environments
    /\ made = {} /\ owed = {}
    /\ launched = {} /\ relaunched = {}

engine == <<due, running, flight, launched, relaunched>>

\* One fault of this kind happens.
Fault(kind) ==
    /\ kind \in env.faults /\ env.left > 0
    /\ env' = [env EXCEPT !.left = @ - 1]

-----------------------------------------------------------------------------
\* The first slot of an entry added or rescheduled now, "at" being the instant
\* asked of a one-shot, and the slot after a firing of a recurring entry.

FirstRun(mode, at) ==
    CASE mode = "once" -> at
      [] mode = "continuous" -> now
      [] mode = "interval" -> now + Interval
      [] mode = "grid" -> Grid * (now \div Grid + 1)

Advance(mode) ==
    IF mode = "grid" THEN Grid * (now \div Grid + 1) ELSE now + Interval

\* The outcomes of Store.save.
SaveOutcomes == IF "save" \in env.faults THEN BOOLEAN ELSE {TRUE}

\* The store becomes s in memory, and on disk too when save succeeds.
Commit(s, saved) == entries' = s /\ disk' = IF saved THEN s ELSE disk

-----------------------------------------------------------------------------
\* Operators' calls, each atomic under Store.mu.

\* Add, AddDaily, AddWindow, AddOnce, AddContinuous.  When save fails the
\* caller gets the error, but the entry stays in memory.
AddEntry(id, mode, at) ==
    /\ id \in env.ids /\ mode \in env.ops /\ id \notin made
    /\ IF mode = "once" THEN at > now ELSE at = now
    /\ \E saved \in SaveOutcomes :
          /\ Commit([x \in DOMAIN entries \cup {id} |->
                        IF x = id
                        THEN [mode |-> mode, next |-> FirstRun(mode, at), enabled |-> TRUE]
                        ELSE entries[x]], saved)
          /\ owed' = IF saved /\ mode = "once" THEN owed \cup {id} ELSE owed
    /\ made' = made \cup {id}
    /\ UNCHANGED <<now, env, engine>>

Remove(id) ==
    /\ "remove" \in env.ops /\ id \in DOMAIN entries
    /\ \E saved \in SaveOutcomes : Commit(Restrict(entries, DOMAIN entries \ {id}), saved)
    /\ owed' = owed \ {id}
    /\ UNCHANGED <<now, env, made, engine>>

RunNow(id) ==
    /\ "runnow" \in env.ops /\ id \in DOMAIN entries
    /\ \E saved \in SaveOutcomes :
          Commit([entries EXCEPT ![id].next = 0, ![id].enabled = TRUE], saved)
    /\ UNCHANGED <<now, env, made, owed, engine>>

SetEnabled(id, enabled) ==
    /\ "pause" \in env.ops /\ id \in DOMAIN entries
    /\ \E saved \in SaveOutcomes : Commit([entries EXCEPT ![id].enabled = enabled], saved)
    /\ UNCHANGED <<now, env, made, owed, engine>>

\* Reschedule replaces the cadence and keeps the id and the enabled flag.
Reschedule(id, mode, at) ==
    /\ {"reschedule", mode} \subseteq env.ops /\ id \in DOMAIN entries
    /\ IF mode = "once" THEN at > now ELSE at = now
    /\ \E saved \in SaveOutcomes :
          /\ Commit([entries EXCEPT ![id].mode = mode, ![id].next = FirstRun(mode, at)], saved)
          /\ owed' = IF saved /\ mode = "once" THEN owed \cup {id} ELSE owed \ {id}
    /\ UNCHANGED <<now, env, made, engine>>

-----------------------------------------------------------------------------
\* The engine.

DueNow == {id \in DOMAIN entries : entries[id].enabled /\ now >= entries[id].next}

\* Mutants of Due: the advance is not saved; one-shots are taken out before
\* their run.
DueAs(advanced, saved) ==
  /\ due = {} /\ DueNow # {}
  /\ due' = {[id |-> id, mode |-> entries[id].mode, slot |-> entries[id].next] : id \in DueNow}
  /\ Commit(advanced, saved)
  /\ UNCHANGED <<now, running, flight, env, made, owed, launched, relaunched>>
Advanced(id) == IF id \in DueNow /\ entries[id].mode \in Recurring
                THEN [entries[id] EXCEPT !.next = Advance(entries[id].mode)]
                ELSE entries[id]
DueUnsaved == DueAs([id \in DOMAIN entries |-> Advanced(id)], FALSE)
DueRemoving ==
  DueAs([id \in {i \in DOMAIN entries : ~(i \in DueNow /\ entries[i].mode = "once")}
           |-> Advanced(id)], TRUE)

\* A tick calls Store.Due: recurring entries advance at once, one-shot and
\* continuous entries stay as they are; the copies it returns are what
\* fireDue works through.  The error of the save is ignored.
Due ==
    /\ due = {} /\ DueNow # {}
    /\ due' = {[id |-> id, mode |-> entries[id].mode, slot |-> entries[id].next] : id \in DueNow}
    /\ LET advanced == [id \in DOMAIN entries |->
                          IF id \in DueNow /\ entries[id].mode \in Recurring
                          THEN [entries[id] EXCEPT !.next = Advance(entries[id].mode)]
                          ELSE entries[id]]
       IN  IF \E id \in DueNow : entries[id].mode \in Recurring
           THEN \E saved \in SaveOutcomes : Commit(advanced, saved)
           ELSE UNCHANGED <<entries, disk>>
    /\ UNCHANGED <<now, running, flight, env, made, owed, launched, relaunched>>

FreeWorker == CHOOSE w \in Workers : flight[w] = Idle

\* Slot 0 is what RunNow writes, and continuous entries have no slots of their
\* own: the history leaves both out.
Slotted(f) == f.slot # 0 /\ f.mode # "continuous"

\* Mutant: the guard is not looked at.
LaunchUnguarded(f) ==
  /\ f \in due
  /\ \E w \in Workers : flight[w] = Idle
  /\ due' = due \ {f}
  /\ running' = running \cup {f.id}
  /\ flight' = [flight EXCEPT ![FreeWorker] = [stage |-> "run", what |-> f]]
  /\ launched' = IF Slotted(f) THEN launched \cup {f} ELSE launched
  /\ relaunched' = relaunched \cup ({f} \cap launched)
  /\ UNCHANGED <<now, entries, disk, env, made, owed>>

\* fireDue: LoadOrStore takes the guard and a goroutine starts.
Launch(f) ==
    /\ f \in due /\ f.id \notin running
    /\ \E w \in Workers : flight[w] = Idle
    /\ due' = due \ {f}
    /\ running' = running \cup {f.id}
    /\ flight' = [flight EXCEPT ![FreeWorker] = [stage |-> "run", what |-> f]]
    /\ launched' = IF Slotted(f) THEN launched \cup {f} ELSE launched
    /\ relaunched' = relaunched \cup ({f} \cap launched)
    /\ UNCHANGED <<now, entries, disk, env, made, owed>>

\* fireDue: the guard is taken, so the entry is skipped.
Skip(f) ==
    /\ f \in due /\ f.id \in running
    /\ due' = due \ {f}
    /\ UNCHANGED <<now, entries, disk, running, flight, env, made,
                   owed, launched, relaunched>>

\* fireOne: the run returns, with or without an error or at RunTimeout.
RunEnds(w) ==
    /\ flight[w].stage = "run"
    /\ flight' = [flight EXCEPT ![w].stage = "complete"]
    /\ owed' = IF flight[w].what.mode = "once" THEN owed \ {flight[w].what.id} ELSE owed
    /\ UNCHANGED <<now, entries, disk, due, running, env, made, launched, relaunched>>

\* Mutant: a panic skips the deferred Delete.
PanicLeaks(w) ==
  /\ Fault("panic")
  /\ flight[w].stage = "run"
  /\ flight' = [flight EXCEPT ![w] = Idle]
  /\ UNCHANGED <<now, entries, disk, due, running, made, owed, launched, relaunched>>

\* fireOne: the run panics; the recover skips CompleteFiring.
Panic(w) ==
    /\ Fault("panic")
    /\ flight[w].stage = "run"
    /\ flight' = [flight EXCEPT ![w].stage = "clear"]
    /\ UNCHANGED <<now, entries, disk, due, running, made, owed, launched, relaunched>>

\* Store.CompleteFiring acts on the entry as it is now.  (Fires is left out.)
CompleteFiring(w) ==
    /\ flight[w].stage = "complete"
    /\ flight' = [flight EXCEPT ![w].stage = "clear"]
    /\ LET id == flight[w].what.id
           mode == entries[id].mode
       IN  IF id \notin DOMAIN entries
           THEN UNCHANGED <<entries, disk>>
           ELSE \E saved \in SaveOutcomes :
                  Commit(IF mode = "once" THEN Restrict(entries, DOMAIN entries \ {id})
                         ELSE IF mode = "continuous"
                              THEN [entries EXCEPT ![id].next = now + Interval]
                              ELSE entries, saved)
    /\ UNCHANGED <<now, due, running, env, made, owed, launched, relaunched>>

\* The deferred running.Delete; the goroutine ends.
ClearGuard(w) ==
    /\ flight[w].stage = "clear"
    /\ running' = running \ {flight[w].what.id}
    /\ flight' = [flight EXCEPT ![w] = Idle]
    /\ UNCHANGED <<now, entries, disk, due, env, made, owed, launched, relaunched>>

-----------------------------------------------------------------------------
\* The environment: time, and a crash with the restart that loads the file.

Elapse ==
    /\ now < Horizon
    /\ now' = now + 1
    /\ UNCHANGED <<entries, disk, due, running, flight, env, made,
                   owed, launched, relaunched>>

Crash ==
    /\ Fault("crash")
    /\ entries' = disk
    /\ due' = {} /\ running' = {}
    /\ flight' = [w \in Workers |-> Idle]
    /\ UNCHANGED <<now, disk, made, owed, launched, relaunched>>

CadenceNext ==
    \/ \E id \in Schedules, mode \in Modes, at \in 0..Horizon :
          AddEntry(id, mode, at) \/ Reschedule(id, mode, at)
    \/ \E id \in Schedules : Remove(id) \/ RunNow(id)
    \/ \E id \in Schedules, enabled \in BOOLEAN : SetEnabled(id, enabled)
    \/ Due
    \/ \E f \in due : Launch(f) \/ Skip(f)
    \/ \E w \in Workers : RunEnds(w) \/ Panic(w) \/ CompleteFiring(w) \/ ClearGuard(w)
    \/ Elapse \/ Crash

CadenceSpec == CadenceInit /\ [][CadenceNext]_cadence

\* The ticker keeps ticking, goroutines are scheduled, time passes, and every
\* run ends: RunTimeout bounds it.
Fairness ==
    /\ WF_cadence(Due) /\ WF_cadence(Elapse)
    /\ WF_cadence(\E f \in due : Launch(f))
    /\ WF_cadence(\E f \in due : Skip(f))
    /\ \A w \in Workers :
          WF_cadence(RunEnds(w)) /\ WF_cadence(CompleteFiring(w)) /\ WF_cadence(ClearGuard(w))

FairCadence == CadenceSpec /\ Fairness

-----------------------------------------------------------------------------
\* Properties.

\* Two runs of one entry never overlap: the guard of fireDue is cleared only by
\* the goroutine it was taken for, whatever happens to the entry meanwhile.
NoOverlap ==
    \A v, w \in Workers :
       (v # w /\ flight[v] # Idle /\ flight[w] # Idle)
          => flight[v].what.id # flight[w].what.id

\* A one-shot that was promised is on disk until a run launched for it has
\* ended, so no crash can lose it (Due, CompleteFiring: at-least-once).
\* (Not one made of a recurring entry while that entry runs: the
\* CompleteFiring of the old firing removes it.)
OneShotNotLost ==
    "reschedule" \notin env.ops =>
       \A id \in owed : id \in DOMAIN disk /\ disk[id].mode = "once"

\* A slot of a recurring entry is run at most once, across crashes too: Due
\* moves the entry past the slot on disk before the run is launched.  (Due
\* ignores an error of that save: a crash then runs the slot again.)
SlotAtMostOnce ==
    "save" \notin env.faults => \A f \in relaunched : f.mode \notin Recurring

\* AddOnce promises an entry that "fires exactly once".
OneShotFiresOnce == \A f \in relaunched : f.mode # "once"

\* Every promised one-shot is run in the end, through crashes and panics,
\* unless an operator pauses it or changes its cadence.
OneShotRuns ==
    \A id \in Schedules :
       (id \in owed /\ env.ops \cap {"pause", "reschedule"} = {}) ~> id \notin owed
=============================================================================
