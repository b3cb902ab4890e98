-------------------------- MODULE Cadence_proofs --------------------------
(***************************************************************************)
(* Theorems about kernel/cadence, for any schedules, goroutines, faults    *)
(* and operators' edits: runs of an entry do not overlap, one-shots are    *)
(* not lost, and recurring slots are run at most once.                     *)
(***************************************************************************)
EXTENDS Cadence, TLAPS

\* A goroutine is idle or in one of fireOne's stages, with the firing it was
\* started for.
Flight == [stage : {"run", "complete", "clear"}, what : Firings]

\* The guard of an entry is taken as long as a goroutine runs it, and no two
\* goroutines run the same entry.
GuardHeld ==
    /\ \A w \in Workers : flight[w] # Idle => flight[w].what.id \in running
    /\ NoOverlap

LEMMA IdleStage == \A x \in {Idle} \cup Flight : x # Idle => x \in Flight
  OBVIOUS

LEMMA GridStep ==
    ASSUME NEW c \in Nat, NEW g \in Nat \ {0}
    PROVE  /\ g * (c \div g + 1) \in Nat
           /\ g * (c \div g + 1) <= c + g
<1>1. c \div g \in Nat OBVIOUS
<1>2. g * (c \div g) <= c OBVIOUS
<1>3. g * (c \div g + 1) = g * (c \div g) + g BY <1>1
<1>4. g * (c \div g) \in Nat BY <1>1
<1> QED BY <1>2, <1>3, <1>4

LEMMA GridSlot ==
    ASSUME now \in 0..Horizon
    PROVE  Grid * (now \div Grid + 1) \in Slots
<1> DEFINE n == Grid * (now \div Grid + 1)
<1>1. now \in Nat /\ now <= Horizon /\ Grid \in Nat \ {0}
  BY CadenceAssumption
<1>2. n \in Nat /\ n <= now + Grid
  BY <1>1, GridStep
<1> HIDE DEF n
<1>3. n \in Slots
  BY <1>1, <1>2, CadenceAssumption DEF Slots
<1> QED BY <1>3 DEF n

\* The first slot of an entry, and the next one, is an instant of the model.
LEMMA FirstRunTyped ==
    ASSUME now \in 0..Horizon, NEW mode \in Modes, NEW at \in 0..Horizon
    PROVE  FirstRun(mode, at) \in Slots
<1>1. Grid * (now \div Grid + 1) \in Slots
  BY GridSlot
<1> QED
  BY <1>1, CadenceAssumption DEF FirstRun, Slots, Modes

LEMMA AdvanceTyped ==
    ASSUME now \in 0..Horizon, NEW mode \in Modes
    PROVE  Advance(mode) \in Slots
<1>1. Grid * (now \div Grid + 1) \in Slots
  BY GridSlot
<1> QED
  BY <1>1, CadenceAssumption DEF Advance, Slots

\* The store and the file: entries under ids handed out.
Store(s, ids) == s \in [DOMAIN s -> Entry] /\ DOMAIN s \subseteq ids
StoresOK == Store(entries, made) /\ Store(disk, made)

\* What the store's operations commit is a store again.
LEMMA CommitTyped ==
    ASSUME StoresOK, NEW s, NEW ids, Store(s, ids), made \subseteq ids,
           NEW saved, Commit(s, saved)
    PROVE  Store(entries', ids) /\ Store(disk', ids)
BY DEF StoresOK, Store, Commit

LEMMA PutTyped ==
    ASSUME NEW s, NEW ids, Store(s, ids), NEW id, NEW e \in Entry
    PROVE  Store([x \in DOMAIN s \cup {id} |-> IF x = id THEN e ELSE s[x]], ids \cup {id})
BY DEF Store

LEMMA UpdateTyped ==
    ASSUME NEW s, NEW ids, Store(s, ids), NEW id \in DOMAIN s, NEW e \in Entry
    PROVE  Store([s EXCEPT ![id] = e], ids)
BY DEF Store

LEMMA RestrictTyped ==
    ASSUME NEW s, NEW ids, Store(s, ids), NEW id
    PROVE  Store(Restrict(s, DOMAIN s \ {id}), ids)
BY DEF Store, Restrict

\* What is left of the type invariant.
EngineOK ==
    /\ due \subseteq Firings
    /\ running \subseteq Schedules
    /\ flight \in [Workers -> {Idle} \cup Flight]
    /\ relaunched \subseteq launched /\ launched \subseteq Firings


TypeParts ==
    /\ now \in 0..Horizon /\ StoresOK /\ EngineOK
    /\ env \in Environment /\ made \subseteq Schedules /\ owed \subseteq Schedules

LEMMA TypeSplit == (CadenceTypeOK <=> TypeParts) /\ (CadenceTypeOK' <=> TypeParts')
BY DEF CadenceTypeOK, TypeParts, StoresOK, Store, EngineOK, Flight

LEMMA FaultTyped ==
    ASSUME env \in Environment, NEW kind, Fault(kind)
    PROVE  env' \in Environment
BY DEF Fault, Environment

\* The steps that leave the store alone.
LEMMA StoresUnchanged ==
    ASSUME StoresOK, UNCHANGED <<entries, disk, made>>
    PROVE  StoresOK'
BY DEF StoresOK, Store

\* A firing handed out by Due.
LEMMA FiringsTyped ==
    ASSUME StoresOK, made \subseteq Schedules
    PROVE  {[id |-> id, mode |-> entries[id].mode, slot |-> entries[id].next] : id \in DueNow}
              \subseteq Firings
BY DEF StoresOK, Store, DueNow, Firings, Entry

-----------------------------------------------------------------------------
\* Every variable keeps its type, through edits, firings and crashes.
THEOREM TypeCorrect == CadenceSpec => []CadenceTypeOK
<1>1. CadenceInit => CadenceTypeOK
  <2> SUFFICES ASSUME CadenceInit PROVE TypeParts
    BY TypeSplit
  <2>1. StoresOK
    BY DEF CadenceInit, StoresOK, Store
  <2>2. now \in 0..Horizon /\ EngineOK
    BY CadenceAssumption DEF CadenceInit, EngineOK
  <2>3. env \in Environment /\ made \subseteq Schedules /\ owed \subseteq Schedules
    BY CadenceAssumption DEF CadenceInit
  <2> QED BY <2>1, <2>2, <2>3 DEF TypeParts
<1>2. CadenceTypeOK /\ [CadenceNext]_cadence => CadenceTypeOK'
  <2> SUFFICES ASSUME TypeParts, [CadenceNext]_cadence PROVE TypeParts'
    BY TypeSplit
  <2>0. /\ now \in 0..Horizon /\ StoresOK /\ EngineOK
        /\ env \in Environment /\ made \subseteq Schedules /\ owed \subseteq Schedules
    BY DEF TypeParts
  <2>1. ASSUME NEW id \in Schedules, NEW mode \in Modes, NEW at \in 0..Horizon,
               AddEntry(id, mode, at)
        PROVE  TypeParts'
    <3> DEFINE e == [mode |-> mode, next |-> FirstRun(mode, at), enabled |-> TRUE]
               s == [x \in DOMAIN entries \cup {id} |-> IF x = id THEN e ELSE entries[x]]
    <3>1. e \in Entry
      BY <2>0, FirstRunTyped DEF Entry
    <3>2. PICK saved \in SaveOutcomes :
             /\ Commit(s, saved)
             /\ owed' = IF saved /\ mode = "once" THEN owed \cup {id} ELSE owed
      BY <2>1 DEF AddEntry
    <3> HIDE DEF e
    <3>3. Store(s, made \cup {id})
      BY <2>0, <3>1, PutTyped DEF StoresOK
    <3> HIDE DEF s
    <3>4. Store(entries', made \cup {id}) /\ Store(disk', made \cup {id})
      BY <2>0, <3>2, <3>3, CommitTyped
    <3>5. made' = made \cup {id} /\ UNCHANGED <<now, env, due, running, flight, launched, relaunched>>
      BY <2>1 DEF AddEntry, engine
    <3>6. StoresOK'
      BY <3>4, <3>5 DEF StoresOK, Store
    <3> QED BY <2>0, <3>2, <3>5, <3>6 DEF TypeParts, EngineOK
  <2>2. ASSUME NEW id \in Schedules, NEW mode \in Modes, NEW at \in 0..Horizon,
               Reschedule(id, mode, at)
        PROVE  TypeParts'
    <3> DEFINE e == [entries[id] EXCEPT !.mode = mode, !.next = FirstRun(mode, at)]
               s == [entries EXCEPT ![id].mode = mode, ![id].next = FirstRun(mode, at)]
    <3>1. id \in DOMAIN entries /\ e \in Entry
      BY <2>0, <2>2, FirstRunTyped DEF Entry, Reschedule, StoresOK, Store
    <3>2. PICK saved \in SaveOutcomes :
             /\ Commit(s, saved)
             /\ owed' = IF saved /\ mode = "once" THEN owed \cup {id} ELSE owed \ {id}
      BY <2>2 DEF Reschedule
    <3>3. Store(s, made)
      BY <2>0, <3>1 DEF StoresOK, Store, Entry
    <3> HIDE DEF s
    <3>4. Store(entries', made) /\ Store(disk', made)
      BY <2>0, <3>2, <3>3, CommitTyped
    <3>5. UNCHANGED <<made, now, env, due, running, flight, launched, relaunched>>
      BY <2>2 DEF Reschedule, engine
    <3>6. StoresOK'
      BY <3>4, <3>5 DEF StoresOK, Store
    <3> QED BY <2>0, <3>2, <3>5, <3>6 DEF TypeParts, EngineOK
  <2>3. ASSUME NEW id \in Schedules, Remove(id)
        PROVE  TypeParts'
    <3> DEFINE s == Restrict(entries, DOMAIN entries \ {id})
    <3>1. PICK saved \in SaveOutcomes : Commit(s, saved)
      BY <2>3 DEF Remove
    <3>2. Store(s, made)
      BY <2>0, RestrictTyped DEF StoresOK
    <3> HIDE DEF s
    <3>3. Store(entries', made) /\ Store(disk', made)
      BY <2>0, <3>1, <3>2, CommitTyped
    <3>4. owed' \subseteq owed /\ UNCHANGED <<made, now, env, due, running, flight, launched, relaunched>>
      BY <2>3 DEF Remove, engine
    <3>5. StoresOK'
      BY <3>3, <3>4 DEF StoresOK, Store
    <3> QED BY <2>0, <3>4, <3>5 DEF TypeParts, EngineOK
  <2>4. ASSUME NEW id \in Schedules, RunNow(id)
        PROVE  TypeParts'
    <3> DEFINE s == [entries EXCEPT ![id].next = 0, ![id].enabled = TRUE]
    <3>1. PICK saved \in SaveOutcomes : Commit(s, saved)
      BY <2>4 DEF RunNow
    <3>2. Store(s, made)
      BY <2>0, <2>4, CadenceAssumption DEF StoresOK, Store, Entry, Slots, RunNow
    <3> HIDE DEF s
    <3>3. Store(entries', made) /\ Store(disk', made)
      BY <2>0, <3>1, <3>2, CommitTyped
    <3>4. UNCHANGED <<made, owed, now, env, due, running, flight, launched, relaunched>>
      BY <2>4 DEF RunNow, engine
    <3>5. StoresOK'
      BY <3>3, <3>4 DEF StoresOK, Store
    <3> QED BY <2>0, <3>4, <3>5 DEF TypeParts, EngineOK
  <2>5. ASSUME NEW id \in Schedules, NEW enabled \in BOOLEAN, SetEnabled(id, enabled)
        PROVE  TypeParts'
    <3> DEFINE s == [entries EXCEPT ![id].enabled = enabled]
    <3>1. PICK saved \in SaveOutcomes : Commit(s, saved)
      BY <2>5 DEF SetEnabled
    <3>2. Store(s, made)
      BY <2>0, <2>5 DEF StoresOK, Store, Entry, SetEnabled
    <3> HIDE DEF s
    <3>3. Store(entries', made) /\ Store(disk', made)
      BY <2>0, <3>1, <3>2, CommitTyped
    <3>4. UNCHANGED <<made, owed, now, env, due, running, flight, launched, relaunched>>
      BY <2>5 DEF SetEnabled, engine
    <3>5. StoresOK'
      BY <3>3, <3>4 DEF StoresOK, Store
    <3> QED BY <2>0, <3>4, <3>5 DEF TypeParts, EngineOK
  <2>6. ASSUME Due
        PROVE  TypeParts'
    <3> DEFINE s == [id \in DOMAIN entries |->
                       IF id \in DueNow /\ entries[id].mode \in Recurring
                       THEN [entries[id] EXCEPT !.next = Advance(entries[id].mode)]
                       ELSE entries[id]]
    <3>1. due' \subseteq Firings
      BY <2>0, <2>6, FiringsTyped DEF Due
    <3>2. UNCHANGED <<made, owed, now, env, running, flight, launched, relaunched>>
      BY <2>6 DEF Due
    <3>3. Store(s, made)
      BY <2>0, AdvanceTyped DEF StoresOK, Store, Entry
    <3>4. (\E saved \in SaveOutcomes : Commit(s, saved)) \/ UNCHANGED <<entries, disk>>
      BY <2>6 DEF Due
    <3> HIDE DEF s
    <3>5. CASE \E saved \in SaveOutcomes : Commit(s, saved)
      <4>1. Store(entries', made) /\ Store(disk', made)
        BY <2>0, <3>3, <3>5, CommitTyped
      <4> QED BY <2>0, <3>1, <3>2, <4>1 DEF TypeParts, EngineOK, StoresOK, Store
    <3>6. CASE UNCHANGED <<entries, disk>>
      BY <2>0, <3>1, <3>2, <3>6, StoresUnchanged DEF TypeParts, EngineOK
    <3> QED BY <3>4, <3>5, <3>6
  <2>7. ASSUME NEW f \in due, Launch(f)
        PROVE  TypeParts'
    <3>1. f \in Firings /\ f.id \in Schedules /\ [stage |-> "run", what |-> f] \in Flight
      BY <2>0 DEF EngineOK, Firings, Flight
    <3>2. EngineOK'
      BY <2>0, <2>7, <3>1 DEF EngineOK, Launch
    <3> QED BY <2>0, <2>7, <3>2, StoresUnchanged DEF TypeParts, Launch
  <2>8. ASSUME NEW f \in due, Skip(f)
        PROVE  TypeParts'
    BY <2>0, <2>8, StoresUnchanged DEF TypeParts, EngineOK, Skip
  <2>9. ASSUME NEW w \in Workers, RunEnds(w)
        PROVE  TypeParts'
    <3>1. [flight[w] EXCEPT !.stage = "complete"] \in {Idle} \cup Flight
      BY <2>0, <2>9 DEF EngineOK, RunEnds, Flight, Idle
    <3>2. EngineOK'
      BY <2>0, <2>9, <3>1 DEF EngineOK, RunEnds
    <3> QED BY <2>0, <2>9, <3>2, StoresUnchanged DEF TypeParts, RunEnds
  <2>10. ASSUME NEW w \in Workers, Panic(w)
         PROVE  TypeParts'
    <3>1. [flight[w] EXCEPT !.stage = "clear"] \in {Idle} \cup Flight
      BY <2>0, <2>10 DEF EngineOK, Panic, Flight, Idle
    <3>2. EngineOK'
      BY <2>0, <2>10, <3>1 DEF EngineOK, Panic
    <3>3. env' \in Environment
      BY <2>0, <2>10, FaultTyped DEF Panic
    <3> QED BY <2>0, <2>10, <3>2, <3>3, StoresUnchanged DEF TypeParts, Panic
  <2>11. ASSUME NEW w \in Workers, CompleteFiring(w)
         PROVE  TypeParts'
    <3> DEFINE id == flight[w].what.id
               s == IF entries[id].mode = "once" THEN Restrict(entries, DOMAIN entries \ {id})
                    ELSE IF entries[id].mode = "continuous"
                         THEN [entries EXCEPT ![id].next = now + Interval]
                         ELSE entries
    <3>1. [flight[w] EXCEPT !.stage = "clear"] \in {Idle} \cup Flight
      BY <2>0, <2>11 DEF EngineOK, CompleteFiring, Flight, Idle
    <3>2. EngineOK'
      BY <2>0, <2>11, <3>1 DEF EngineOK, CompleteFiring
    <3>3. UNCHANGED <<made, owed, now, env>>
      BY <2>11 DEF CompleteFiring
    <3>4. CASE id \notin DOMAIN entries
      <4>1. UNCHANGED <<entries, disk>>
        BY <2>11, <3>4 DEF CompleteFiring
      <4> QED BY <2>0, <3>2, <3>3, <4>1, StoresUnchanged DEF TypeParts
    <3>5. CASE id \in DOMAIN entries
      <4>1. PICK saved \in SaveOutcomes : Commit(s, saved)
        BY <2>11, <3>5 DEF CompleteFiring
      <4>2. now + Interval \in Slots
        BY <2>0, CadenceAssumption DEF Slots
      <4>3. Store([entries EXCEPT ![id].next = now + Interval], made)
        BY <2>0, <3>5, <4>2 DEF StoresOK, Store, Entry
      <4>4. Store(Restrict(entries, DOMAIN entries \ {id}), made)
        BY <2>0, RestrictTyped DEF StoresOK
      <4>5. Store(s, made)
        BY <2>0, <4>3, <4>4 DEF StoresOK
      <4> HIDE DEF s
      <4>6. Store(entries', made) /\ Store(disk', made)
        BY <2>0, <4>1, <4>5, CommitTyped
      <4> QED BY <2>0, <3>2, <3>3, <4>6 DEF TypeParts, StoresOK, Store
    <3> QED BY <3>4, <3>5
  <2>12. ASSUME NEW w \in Workers, ClearGuard(w)
         PROVE  TypeParts'
    BY <2>0, <2>12, StoresUnchanged DEF TypeParts, EngineOK, ClearGuard
  <2>13. ASSUME Elapse
         PROVE  TypeParts'
    <3>1. now' \in 0..Horizon
      BY <2>0, <2>13, CadenceAssumption DEF Elapse
    <3> QED BY <2>0, <2>13, <3>1, StoresUnchanged DEF TypeParts, EngineOK, Elapse
  <2>14. ASSUME Crash
         PROVE  TypeParts'
    <3>1. env' \in Environment
      BY <2>0, <2>14, FaultTyped DEF Crash
    <3>2. StoresOK'
      BY <2>0, <2>14 DEF StoresOK, Store, Crash
    <3>3. EngineOK'
      BY <2>0, <2>14 DEF EngineOK, Crash
    <3> QED BY <2>0, <2>14, <3>1, <3>2, <3>3 DEF TypeParts, Crash
  <2>15. CASE UNCHANGED cadence
    BY <2>0, <2>15, StoresUnchanged DEF TypeParts, EngineOK, cadence
  <2> QED
    BY <2>1, <2>2, <2>3, <2>4, <2>5, <2>6, <2>7, <2>8, <2>9, <2>10, <2>11, <2>12,
       <2>13, <2>14, <2>15 DEF CadenceNext
<1> QED BY <1>1, <1>2, PTL DEF CadenceSpec

-----------------------------------------------------------------------------
\* The steps of a goroutine that keep the firing it was started for.
LEMMA StageOnly ==
    ASSUME EngineOK, GuardHeld, NEW w \in Workers, flight[w] # Idle,
           NEW stage, flight' = [flight EXCEPT ![w].stage = stage],
           EngineOK', running' = running
    PROVE  GuardHeld'
<1>1. \A v \in Workers : flight'[v] # Idle =>
         flight[v] # Idle /\ flight'[v].what = flight[v].what
  BY IdleStage DEF EngineOK, Flight, Idle
<1> QED BY <1>1 DEF GuardHeld, NoOverlap

LEMMA GuardKept ==
    ASSUME GuardHeld, UNCHANGED <<flight, running>>
    PROVE  GuardHeld'
BY DEF GuardHeld, NoOverlap

\* GuardHeld is inductive: Launch takes a guard that was free, and ClearGuard
\* frees that of the only goroutine that runs the entry.
THEOREM GuardAlwaysHeld == CadenceSpec => []GuardHeld
<1>1. CadenceInit => GuardHeld
  BY DEF CadenceInit, GuardHeld, NoOverlap
<1>2. CadenceTypeOK /\ CadenceTypeOK' /\ GuardHeld /\ [CadenceNext]_cadence => GuardHeld'
  <2> SUFFICES ASSUME TypeParts, TypeParts', GuardHeld, [CadenceNext]_cadence PROVE GuardHeld'
    BY TypeSplit
  <2>0. EngineOK /\ EngineOK'
    BY DEF TypeParts
  <2>1. ASSUME NEW id \in Schedules, NEW mode \in Modes, NEW at \in 0..Horizon,
               AddEntry(id, mode, at) \/ Reschedule(id, mode, at)
        PROVE  GuardHeld'
    BY <2>1, GuardKept DEF AddEntry, Reschedule, engine
  <2>2. ASSUME NEW id \in Schedules, Remove(id) \/ RunNow(id)
        PROVE  GuardHeld'
    BY <2>2, GuardKept DEF Remove, RunNow, engine
  <2>3. ASSUME NEW id \in Schedules, NEW enabled \in BOOLEAN, SetEnabled(id, enabled)
        PROVE  GuardHeld'
    BY <2>3, GuardKept DEF SetEnabled, engine
  <2>4. CASE Due
    BY <2>4, GuardKept DEF Due
  <2>5. ASSUME NEW f \in due, Launch(f)
        PROVE  GuardHeld'
    <3> DEFINE u == FreeWorker
               r == [stage |-> "run", what |-> f]
    <3>1. u \in Workers /\ flight[u] = Idle
      BY <2>5 DEF Launch, FreeWorker
    <3>2. flight' = [flight EXCEPT ![u] = r] /\ running' = running \cup {f.id}
      BY <2>5 DEF Launch
    <3>3. f.id \notin running
      BY <2>5 DEF Launch
    <3> HIDE DEF u
    <3>4. flight'[u] = r /\ \A w \in Workers \ {u} : flight'[w] = flight[w]
      BY <2>0, <3>1, <3>2 DEF EngineOK
    <3>5. \A w \in Workers \ {u} : flight[w] # Idle => flight[w].what.id # f.id
      BY <3>3 DEF GuardHeld
    <3> QED BY <3>2, <3>4, <3>5 DEF GuardHeld, NoOverlap
  <2>6. ASSUME NEW f \in due, Skip(f)
        PROVE  GuardHeld'
    BY <2>6, GuardKept DEF Skip
  <2>7. ASSUME NEW w \in Workers, RunEnds(w) \/ Panic(w) \/ CompleteFiring(w)
        PROVE  GuardHeld'
    <3>1. flight[w] # Idle
      BY <2>7 DEF RunEnds, Panic, CompleteFiring, Idle
    <3>2. running' = running
      BY <2>7 DEF RunEnds, Panic, CompleteFiring
    <3>3. CASE flight' = [flight EXCEPT ![w].stage = "complete"]
      BY <2>0, <3>1, <3>2, <3>3, StageOnly
    <3>4. CASE flight' = [flight EXCEPT ![w].stage = "clear"]
      BY <2>0, <3>1, <3>2, <3>4, StageOnly
    <3> QED BY <2>7, <3>3, <3>4 DEF RunEnds, Panic, CompleteFiring
  <2>8. ASSUME NEW u \in Workers, ClearGuard(u)
        PROVE  GuardHeld'
    <3>1. flight[u] # Idle
      BY <2>8 DEF ClearGuard, Idle
    <3>2. flight'[u] = Idle /\ \A w \in Workers \ {u} : flight'[w] = flight[w]
      BY <2>0, <2>8 DEF ClearGuard, EngineOK
    <3>3. \A w \in Workers \ {u} : flight[w] # Idle => flight[w].what.id # flight[u].what.id
      BY <3>1 DEF GuardHeld, NoOverlap
    <3>4. running' = running \ {flight[u].what.id}
      BY <2>8 DEF ClearGuard
    <3> QED BY <3>2, <3>3, <3>4 DEF GuardHeld, NoOverlap
  <2>9. CASE Elapse
    BY <2>9, GuardKept DEF Elapse
  <2>10. CASE Crash
    BY <2>10 DEF Crash, GuardHeld, NoOverlap
  <2>11. CASE UNCHANGED cadence
    BY <2>11, GuardKept DEF cadence
  <2> QED
    BY <2>1, <2>2, <2>3, <2>4, <2>5, <2>6, <2>7, <2>8, <2>9, <2>10, <2>11 DEF CadenceNext
<1> QED BY <1>1, <1>2, TypeCorrect, PTL DEF CadenceSpec

\* Two runs of one entry never overlap, whatever operators, panics and crashes
\* do to the entry while it runs.
THEOREM RunsNeverOverlap == CadenceSpec => []NoOverlap
<1>1. GuardHeld => NoOverlap
  BY DEF GuardHeld
<1> QED BY <1>1, GuardAlwaysHeld, PTL

-----------------------------------------------------------------------------
\* One-shots.  As long as no schedule changes its cadence, the mode of an id
\* never changes either, so a firing in hand, the entry it was made from and
\* the one on disk agree on it; and a one-shot is still owed only as long as
\* no run of it has ended.

InHand == due \cup {flight[w].what : w \in {v \in Workers : flight[v] # Idle}}

\* In a store, id is a one-shot; the entry of f, if there is one, has f's mode.
Kept(id, s) == id \in DOMAIN s /\ s[id].mode = "once"
Labelled(f, s) == f.id \in DOMAIN s => s[f.id].mode = f.mode

StoresAgree == \A id \in DOMAIN entries \cap DOMAIN disk : entries[id].mode = disk[id].mode

Promised ==
    /\ \A id \in owed : Kept(id, entries) /\ Kept(id, disk)
    /\ StoresAgree
    /\ \A f \in InHand : f.id \in made /\ Labelled(f, entries) /\ Labelled(f, disk)
    /\ \A w \in Workers :
          (flight[w].stage = "complete" /\ flight[w].what.mode = "once")
             => flight[w].what.id \notin owed

\* t has the ids of s, or fewer, with the modes they have in s.
Within(t, s) == DOMAIN t \subseteq DOMAIN s /\ \A id \in DOMAIN t : t[id].mode = s[id].mode

\* A step that commits a store within the one in memory, with every owed
\* one-shot still in it, and takes no firing in hand.
LEMMA EditKeepsPromise ==
    ASSUME Promised, NEW s, NEW saved, Commit(s, saved), Within(s, entries),
           owed' \subseteq owed, \A id \in owed' : id \in DOMAIN s,
           InHand' \subseteq InHand, made' = made,
           \A w \in Workers :
              flight'[w].stage = "complete" => flight'[w] = flight[w]
    PROVE  Promised'
<1>1. Within(entries', entries) /\ (Within(disk', entries) \/ disk' = disk)
  BY DEF Commit, Within
<1>2. \A id \in owed' : Kept(id, entries)' /\ Kept(id, disk)'
  BY DEF Promised, Commit, Kept, Within
<1>3. StoresAgree'
  BY <1>1 DEF Promised, StoresAgree, Within
<1>4. \A f \in InHand' : f.id \in made' /\ Labelled(f, entries)' /\ Labelled(f, disk)'
  BY <1>1 DEF Promised, Labelled, Within
<1>5. \A w \in Workers :
         (flight'[w].stage = "complete" /\ flight'[w].what.mode = "once")
            => flight'[w].what.id \notin owed'
  BY DEF Promised
<1> QED BY <1>2, <1>3, <1>4, <1>5 DEF Promised

\* The steps that leave both stores alone.
LEMMA QuietKeepsPromise ==
    ASSUME Promised, UNCHANGED <<entries, disk, made>>, owed' \subseteq owed,
           InHand' \subseteq InHand,
           \A w \in Workers :
              (flight'[w].stage = "complete" /\ flight'[w] # flight[w]
                 /\ flight'[w].what.mode = "once") => flight'[w].what.id \notin owed'
    PROVE  Promised'
BY DEF Promised, StoresAgree, Kept, Labelled

\* A goroutine that moves on to another stage keeps its firing in hand.
LEMMA HandOnStage ==
    ASSUME EngineOK, NEW w \in Workers, flight[w] # Idle, NEW stage,
           flight' = [flight EXCEPT ![w].stage = stage], due' = due
    PROVE  /\ InHand' \subseteq InHand
           /\ flight'[w] = [flight[w] EXCEPT !.stage = stage]
           /\ \A v \in Workers \ {w} : flight'[v] = flight[v]
<1>1. flight[w] \in Flight
  BY IdleStage DEF EngineOK
<1>2. flight'[w] = [flight[w] EXCEPT !.stage = stage]
  BY DEF EngineOK
<1>3. flight'[w].what = flight[w].what
  BY <1>1, <1>2 DEF Flight
<1>4. \A v \in Workers \ {w} : flight'[v] = flight[v]
  BY DEF EngineOK
<1>5. ASSUME NEW v \in Workers, flight'[v] # Idle
      PROVE  flight[v] # Idle /\ flight'[v].what = flight[v].what
  BY <1>3, <1>4, <1>5
<1>6. {flight'[v].what : v \in {u \in Workers : flight'[u] # Idle}}
        \subseteq {flight[v].what : v \in {u \in Workers : flight[u] # Idle}}
  BY <1>5
<1> QED BY <1>2, <1>4, <1>6 DEF InHand

\* The modes of the entries whose mode no operation but Reschedule changes.
LEMMA SameModes ==
    ASSUME StoresOK, NEW id \in DOMAIN entries, NEW n, NEW e
    PROVE  /\ Within([entries EXCEPT ![id].next = n], entries)
           /\ Within([entries EXCEPT ![id].enabled = e], entries)
           /\ Within([entries EXCEPT ![id].next = n, ![id].enabled = e], entries)
BY DEF StoresOK, Store, Entry, Within

LEMMA FewerWithin ==
    ASSUME NEW s, NEW id
    PROVE  /\ Within(Restrict(s, DOMAIN s \ {id}), s)
           /\ DOMAIN Restrict(s, DOMAIN s \ {id}) = DOMAIN s \ {id}
           /\ Within(s, s)
BY DEF Restrict, Within

LEMMA FaultKeepsOps ==
    ASSUME TypeParts, [CadenceNext]_cadence
    PROVE  env'.ops = env.ops /\ env'.faults = env.faults
<1>1. env' = env \/ env' = [env EXCEPT !.left = @ - 1]
  BY DEF CadenceNext, cadence, Fault, AddEntry, Reschedule, Remove, RunNow, SetEnabled, Due, Launch, Skip,
         RunEnds, Panic, CompleteFiring, ClearGuard, Elapse, Crash
<1> QED BY <1>1 DEF TypeParts, Environment

LEMMA PromisedStep ==
    ASSUME TypeParts, TypeParts', Promised, "reschedule" \notin env.ops, [CadenceNext]_cadence
    PROVE  Promised'
<1>0. StoresOK /\ EngineOK /\ EngineOK' /\ made \subseteq Schedules
  BY DEF TypeParts
<1>a. \A id \in owed : id \in DOMAIN entries
  BY DEF Promised, Kept
<1>1. ASSUME NEW id \in Schedules, NEW mode \in Modes, NEW at \in 0..Horizon,
             AddEntry(id, mode, at)
      PROVE  Promised'
  <2> DEFINE e == [mode |-> mode, next |-> FirstRun(mode, at), enabled |-> TRUE]
             s == [x \in DOMAIN entries \cup {id} |-> IF x = id THEN e ELSE entries[x]]
  <2>1. PICK saved \in SaveOutcomes :
           /\ Commit(s, saved)
           /\ owed' = IF saved /\ mode = "once" THEN owed \cup {id} ELSE owed
    BY <1>1 DEF AddEntry
  <2>2. made' = made \cup {id} /\ id \notin made /\ UNCHANGED <<due, flight>>
    BY <1>1 DEF AddEntry, engine
  <2>3. id \notin DOMAIN entries /\ id \notin DOMAIN disk
    BY <1>0, <2>2 DEF StoresOK, Store
  <2>4. e.mode = mode
    OBVIOUS
  <2> HIDE DEF e
  <2>5. /\ DOMAIN entries' = DOMAIN entries \cup {id} /\ entries'[id] = e
        /\ \A x \in DOMAIN entries : entries'[x] = entries[x]
    BY <2>1, <2>3 DEF Commit
  <2>6. disk' = entries' \/ (disk' = disk /\ ~saved)
    BY <2>1 DEF Commit
  <2>7. \A x \in owed' : Kept(x, entries)' /\ Kept(x, disk)'
    BY <2>1, <2>4, <2>5, <2>6 DEF Promised, Kept
  <2>8. StoresAgree'
    BY <2>3, <2>5, <2>6 DEF Promised, StoresAgree
  <2>9. InHand' = InHand
    BY <2>2 DEF InHand
  <2>10. \A f \in InHand' : f.id \in made' /\ Labelled(f, entries)' /\ Labelled(f, disk)'
    BY <2>2, <2>5, <2>6, <2>9 DEF Promised, Labelled
  <2>11. ASSUME NEW w \in Workers, flight'[w].stage = "complete", flight'[w].what.mode = "once"
         PROVE  flight'[w].what.id \notin owed'
    <3>1. flight[w].what \in InHand
      BY <2>2, <2>11 DEF InHand, Idle
    <3> QED BY <2>1, <2>2, <2>11, <3>1 DEF Promised
  <2> QED BY <2>7, <2>8, <2>10, <2>11 DEF Promised
<1>2. ASSUME NEW id \in Schedules, Remove(id)
      PROVE  Promised'
  <2> DEFINE s == Restrict(entries, DOMAIN entries \ {id})
  <2>1. PICK saved \in SaveOutcomes : Commit(s, saved)
    BY <1>2 DEF Remove
  <2>2. owed' = owed \ {id} /\ UNCHANGED <<made, due, flight>>
    BY <1>2 DEF Remove, engine
  <2>3. Within(s, entries) /\ DOMAIN s = DOMAIN entries \ {id}
    BY FewerWithin
  <2> HIDE DEF s
  <2>4. InHand' = InHand
    BY <2>2 DEF InHand
  <2> QED BY <1>a, <2>1, <2>2, <2>3, <2>4, EditKeepsPromise
<1>3. ASSUME NEW id \in Schedules, RunNow(id)
      PROVE  Promised'
  <2> DEFINE s == [entries EXCEPT ![id].next = 0, ![id].enabled = TRUE]
  <2>1. PICK saved \in SaveOutcomes : Commit(s, saved)
    BY <1>3 DEF RunNow
  <2>2. Within(s, entries) /\ DOMAIN s = DOMAIN entries
    BY <1>0, <1>3, SameModes DEF RunNow
  <2> HIDE DEF s
  <2>3. UNCHANGED <<made, due, flight, owed>> /\ InHand' = InHand
    BY <1>3 DEF RunNow, engine, InHand
  <2> QED BY <1>a, <2>1, <2>2, <2>3, EditKeepsPromise
<1>4. ASSUME NEW id \in Schedules, NEW enabled \in BOOLEAN, SetEnabled(id, enabled)
      PROVE  Promised'
  <2> DEFINE s == [entries EXCEPT ![id].enabled = enabled]
  <2>1. PICK saved \in SaveOutcomes : Commit(s, saved)
    BY <1>4 DEF SetEnabled
  <2>2. Within(s, entries) /\ DOMAIN s = DOMAIN entries
    BY <1>0, <1>4, SameModes DEF SetEnabled
  <2> HIDE DEF s
  <2>3. UNCHANGED <<made, due, flight, owed>> /\ InHand' = InHand
    BY <1>4 DEF SetEnabled, engine, InHand
  <2> QED BY <1>a, <2>1, <2>2, <2>3, EditKeepsPromise
<1>5. CASE Due
  <2> DEFINE s == [id \in DOMAIN entries |->
                     IF id \in DueNow /\ entries[id].mode \in Recurring
                     THEN [entries[id] EXCEPT !.next = Advance(entries[id].mode)]
                     ELSE entries[id]]
             handed == {[id |-> id, mode |-> entries[id].mode, slot |-> entries[id].next] :
                          id \in DueNow}
  <2>1. due = {} /\ due' = handed /\ UNCHANGED <<made, flight, owed>>
    BY <1>5 DEF Due
  <2>2. (\E saved \in SaveOutcomes : Commit(s, saved)) \/ UNCHANGED <<entries, disk>>
    BY <1>5 DEF Due
  <2>3. \A id \in DOMAIN entries : s[id].mode = entries[id].mode
    BY <1>0 DEF StoresOK, Store, Entry
  <2>4. DOMAIN s = DOMAIN entries
    OBVIOUS
  <2>5. \A f \in handed : f.id \in DOMAIN entries /\ f.mode = entries[f.id].mode
    BY DEF DueNow
  <2> HIDE DEF s, handed
  <2>6. /\ DOMAIN entries' = DOMAIN entries
        /\ \A id \in DOMAIN entries : entries'[id].mode = entries[id].mode
        /\ disk' = entries' \/ disk' = disk
    BY <2>2, <2>3, <2>4 DEF Commit
  <2>7. \A id \in owed' : Kept(id, entries)' /\ Kept(id, disk)'
    BY <2>1, <2>6 DEF Promised, Kept
  <2>8. StoresAgree'
    BY <2>6 DEF Promised, StoresAgree
  <2>9. InHand' \subseteq InHand \cup handed
    BY <2>1 DEF InHand
  <2>10. ASSUME NEW f \in InHand'
         PROVE  f.id \in made' /\ Labelled(f, entries)' /\ Labelled(f, disk)'
    <3>1. f.id \in made /\ Labelled(f, entries) /\ Labelled(f, disk)
      BY <1>0, <2>5, <2>9 DEF Promised, Labelled, StoresAgree, StoresOK, Store
    <3> QED BY <2>1, <2>6, <3>1 DEF Labelled
  <2> QED BY <2>1, <2>7, <2>8, <2>10 DEF Promised
<1>6. ASSUME NEW f \in due, Launch(f)
      PROVE  Promised'
  <2> DEFINE u == FreeWorker
             r == [stage |-> "run", what |-> f]
  <2>1. u \in Workers
    BY <1>6 DEF Launch, FreeWorker
  <2>2. flight' = [flight EXCEPT ![u] = r] /\ due' = due \ {f}
    BY <1>6 DEF Launch
  <2> HIDE DEF u
  <2>3. flight'[u] = r /\ \A w \in Workers \ {u} : flight'[w] = flight[w]
    BY <1>0, <2>1, <2>2 DEF EngineOK
  <2>4. InHand' \subseteq InHand
    BY <2>2, <2>3 DEF InHand
  <2>5. \A w \in Workers : flight'[w].stage = "complete" => flight'[w] = flight[w]
    BY <2>3
  <2>6. UNCHANGED <<entries, disk, made, owed>>
    BY <1>6 DEF Launch
  <2> QED BY <2>4, <2>5, <2>6, QuietKeepsPromise
<1>7. ASSUME NEW f \in due, Skip(f)
      PROVE  Promised'
  <2>1. InHand' \subseteq InHand /\ UNCHANGED <<entries, disk, made, owed, flight>>
    BY <1>7 DEF Skip, InHand
  <2> QED BY <2>1, QuietKeepsPromise
<1>8. ASSUME NEW w \in Workers, RunEnds(w)
      PROVE  Promised'
  <2>1. flight[w] # Idle /\ flight' = [flight EXCEPT ![w].stage = "complete"] /\ due' = due
    BY <1>8 DEF RunEnds, Idle
  <2>2. /\ InHand' \subseteq InHand
        /\ flight'[w] = [flight[w] EXCEPT !.stage = "complete"]
        /\ \A v \in Workers \ {w} : flight'[v] = flight[v]
    BY <1>0, <2>1, HandOnStage
  <2>3. flight'[w].what = flight[w].what
    BY <1>0, <2>1, <2>2, IdleStage DEF EngineOK, Flight
  <2>4. UNCHANGED <<entries, disk, made>>
    BY <1>8 DEF RunEnds
  <2>5. owed' = IF flight[w].what.mode = "once" THEN owed \ {flight[w].what.id} ELSE owed
    BY <1>8 DEF RunEnds
  <2> QED BY <2>2, <2>3, <2>4, <2>5, QuietKeepsPromise
<1>9. ASSUME NEW w \in Workers, Panic(w)
      PROVE  Promised'
  <2>1. flight[w] # Idle /\ flight' = [flight EXCEPT ![w].stage = "clear"] /\ due' = due
    BY <1>9 DEF Panic, Idle
  <2>2. /\ InHand' \subseteq InHand
        /\ flight'[w] = [flight[w] EXCEPT !.stage = "clear"]
        /\ \A v \in Workers \ {w} : flight'[v] = flight[v]
    BY <1>0, <2>1, HandOnStage
  <2>3. flight'[w].stage = "clear"
    BY <1>0, <2>1, <2>2, IdleStage DEF EngineOK, Flight
  <2>4. UNCHANGED <<entries, disk, made, owed>>
    BY <1>9 DEF Panic
  <2> QED BY <2>2, <2>3, <2>4, QuietKeepsPromise
<1>10. ASSUME NEW w \in Workers, CompleteFiring(w)
       PROVE  Promised'
  <2> DEFINE id == flight[w].what.id
             s == IF entries[id].mode = "once" THEN Restrict(entries, DOMAIN entries \ {id})
                  ELSE IF entries[id].mode = "continuous"
                       THEN [entries EXCEPT ![id].next = now + Interval]
                       ELSE entries
  <2>1. /\ flight[w] # Idle /\ flight' = [flight EXCEPT ![w].stage = "clear"] /\ due' = due
        /\ flight[w].stage = "complete"
    BY <1>10 DEF CompleteFiring, Idle
  <2>2. /\ InHand' \subseteq InHand
        /\ flight'[w] = [flight[w] EXCEPT !.stage = "clear"]
        /\ \A v \in Workers \ {w} : flight'[v] = flight[v]
    BY <1>0, <2>1, HandOnStage
  <2>3. flight'[w].stage = "clear"
    BY <1>0, <2>1, <2>2, IdleStage DEF EngineOK, Flight
  <2>4. UNCHANGED <<made, owed>>
    BY <1>10 DEF CompleteFiring
  <2>5. CASE id \notin DOMAIN entries
    <3>1. UNCHANGED <<entries, disk>>
      BY <1>10, <2>5 DEF CompleteFiring
    <3> QED BY <2>2, <2>3, <2>4, <3>1, QuietKeepsPromise
  <2>6. CASE id \in DOMAIN entries
    <3>1. PICK saved \in SaveOutcomes : Commit(s, saved)
      BY <1>10, <2>6 DEF CompleteFiring
    <3>2. flight[w].what \in InHand
      BY <2>1 DEF InHand
    <3>3. entries[id].mode = "once" => id \notin owed
      BY <2>1, <2>6, <3>2 DEF Promised, Labelled
    <3>4. CASE entries[id].mode = "once"
      <4>1. s = Restrict(entries, DOMAIN entries \ {id})
        BY <3>4
      <4>2. Within(s, entries) /\ \A x \in owed : x \in DOMAIN s
        BY <1>a, <3>3, <3>4, <4>1, FewerWithin
      <4> QED BY <2>2, <2>3, <2>4, <3>1, <4>2, EditKeepsPromise
    <3>5. CASE entries[id].mode # "once"
      <4>1. Within(s, entries) /\ DOMAIN s = DOMAIN entries
        BY <1>0, <2>6, <3>5, SameModes, FewerWithin
      <4> QED BY <1>a, <2>2, <2>3, <2>4, <3>1, <4>1, EditKeepsPromise
    <3> QED BY <3>4, <3>5
  <2> QED BY <2>5, <2>6
<1>11. ASSUME NEW w \in Workers, ClearGuard(w)
       PROVE  Promised'
  <2>1. flight'[w] = Idle /\ \A v \in Workers \ {w} : flight'[v] = flight[v]
    BY <1>0, <1>11 DEF ClearGuard, EngineOK
  <2>2. UNCHANGED <<entries, disk, due, made, owed>>
    BY <1>11 DEF ClearGuard
  <2>3. InHand' \subseteq InHand
    BY <2>1, <2>2 DEF InHand
  <2> QED BY <2>1, <2>2, <2>3, QuietKeepsPromise DEF Idle
<1>12. CASE Elapse
  <2>1. InHand' = InHand /\ UNCHANGED <<entries, disk, made, owed, flight>>
    BY <1>12 DEF Elapse, InHand
  <2> QED BY <2>1, QuietKeepsPromise
<1>13. CASE Crash
  <2>1. entries' = disk /\ UNCHANGED <<disk, made, owed>>
    BY <1>13 DEF Crash
  <2>2. InHand' = {} /\ \A w \in Workers : flight'[w].stage = "idle"
    BY <1>13 DEF Crash, InHand, Idle
  <2> QED BY <2>1, <2>2 DEF Promised, StoresAgree, Kept
<1>14. CASE UNCHANGED cadence
  <2>1. InHand' = InHand /\ UNCHANGED <<entries, disk, made, owed, flight>>
    BY <1>14 DEF cadence, InHand
  <2> QED BY <2>1, QuietKeepsPromise
<1>15. ASSUME NEW id \in Schedules, NEW mode \in Modes, NEW at \in 0..Horizon,
              Reschedule(id, mode, at)
       PROVE  FALSE
  BY <1>15 DEF Reschedule
<1> QED
  BY <1>1, <1>2, <1>3, <1>4, <1>5, <1>6, <1>7, <1>8, <1>9, <1>10, <1>11, <1>12, <1>13,
     <1>14, <1>15 DEF CadenceNext

\* A promised one-shot is on disk until a run launched for it has ended, for
\* any operators' edits but a change of cadence, failed saves, panics and
\* crashes.
THEOREM OneShotsNeverLost == CadenceSpec => []OneShotNotLost
<1> DEFINE Inv == "reschedule" \notin env.ops => Promised
<1>1. CadenceInit => Inv
  BY DEF CadenceInit, Promised, StoresAgree, InHand, Idle
<1>2. CadenceTypeOK /\ CadenceTypeOK' /\ Inv /\ [CadenceNext]_cadence => Inv'
  <2> SUFFICES ASSUME TypeParts, TypeParts', Inv, [CadenceNext]_cadence PROVE Inv'
    BY TypeSplit
  <2>1. env'.ops = env.ops
    BY FaultKeepsOps
  <2> QED BY <2>1, PromisedStep
<1>3. Inv => OneShotNotLost
  BY DEF Promised, Kept, OneShotNotLost
<1> QED BY <1>1, <1>2, <1>3, TypeCorrect, PTL DEF CadenceSpec

-----------------------------------------------------------------------------
\* Slots.  The entry of a recurring schedule is past every slot handed out or
\* run, unless RunNow has put it back to 0, where no slot is.

Past(f) ==
    /\ f.slot <= now
    /\ (f.id \in DOMAIN entries /\ entries[f.id].mode \in Recurring)
          => (entries[f.id].next = 0 \/ entries[f.id].next > f.slot)

MovedOn ==
    /\ entries = disk
    /\ \A f \in due \cup launched : f.mode \in Recurring => Past(f)
    /\ \A f \in launched : f.slot # 0
    /\ \A f \in due \cap launched : f.mode \notin Recurring
    /\ \A f \in relaunched : f.mode \notin Recurring

\* The next slot of a recurring entry is later than now.
LEMMA NextSlotLater ==
    ASSUME now \in 0..Horizon, NEW mode \in Recurring, NEW at
    PROVE  Advance(mode) > now /\ FirstRun(mode, at) > now
<1> DEFINE n == Grid * (now \div Grid + 1)
<1>1. now \in Nat /\ Grid \in Nat \ {0} /\ Interval \in Nat \ {0}
  BY CadenceAssumption
<1>2. n > now
  <2>1. now \div Grid \in Nat
    BY <1>1
  <2>2. now = Grid * (now \div Grid) + (now % Grid) /\ now % Grid \in 0..(Grid - 1)
    BY <1>1
  <2>3. n = Grid * (now \div Grid) + Grid
    BY <1>1, <2>1
  <2>4. Grid * (now \div Grid) \in Nat
    BY <1>1, <2>1
  <2> QED BY <1>1, <2>2, <2>3, <2>4
<1> HIDE DEF n
<1>3. now + Interval > now
  BY <1>1
<1> QED BY <1>2, <1>3 DEF Recurring, Advance, FirstRun, n

\* An edit that saves, at the same time: every entry of the new store that is
\* recurring is as it was, back at 0, or later than now.
LEMMA EditMovesOn ==
    ASSUME TypeParts, MovedOn, NEW s, Commit(s, TRUE),
           UNCHANGED <<now, due, launched, relaunched>>,
           \A id \in DOMAIN s :
              s[id].mode \in Recurring =>
                 \/ id \in DOMAIN entries /\ entries[id].mode \in Recurring
                       /\ s[id].next = entries[id].next
                 \/ s[id].next = 0
                 \/ s[id].next > now /\ s[id].next \in Nat
    PROVE  MovedOn'
<1>1. entries' = s /\ disk' = s
  BY DEF Commit
<1>2. ASSUME NEW f \in due \cup launched, f.mode \in Recurring
      PROVE  Past(f)'
  <2>1. Past(f)
    BY <1>2 DEF MovedOn
  <2>2. f.slot \in Nat /\ now \in Nat
    BY CadenceAssumption DEF TypeParts, EngineOK, Firings, Slots
  <2> QED BY <1>1, <2>1, <2>2 DEF Past
<1> QED BY <1>1, <1>2 DEF MovedOn

\* The steps that leave the stores alone and hand out nothing.
LEMMA QuietMovesOn ==
    ASSUME MovedOn, UNCHANGED <<entries, disk, now, launched, relaunched>>, due' \subseteq due
    PROVE  MovedOn'
BY DEF MovedOn, Past

LEMMA MovedOnStep ==
    ASSUME TypeParts, TypeParts', MovedOn, "save" \notin env.faults, [CadenceNext]_cadence
    PROVE  MovedOn'
<1>0. /\ StoresOK /\ EngineOK /\ now \in 0..Horizon /\ now \in Nat
      /\ SaveOutcomes = {TRUE}
  BY CadenceAssumption DEF TypeParts, SaveOutcomes
<1>a. \A id \in DOMAIN entries : entries[id] \in Entry
  BY <1>0 DEF StoresOK, Store
<1>b. \A mode \in Modes, at \in 0..Horizon : FirstRun(mode, at) \in Nat
  BY <1>0, FirstRunTyped DEF Slots
<1>1. ASSUME NEW id \in Schedules, NEW mode \in Modes, NEW at \in 0..Horizon,
             AddEntry(id, mode, at)
      PROVE  MovedOn'
  <2> DEFINE e == [mode |-> mode, next |-> FirstRun(mode, at), enabled |-> TRUE]
             s == [x \in DOMAIN entries \cup {id} |-> IF x = id THEN e ELSE entries[x]]
  <2>1. Commit(s, TRUE) /\ UNCHANGED <<now, due, launched, relaunched>>
    BY <1>0, <1>1 DEF AddEntry, engine
  <2>2. e.mode = mode /\ e.next = FirstRun(mode, at)
    OBVIOUS
  <2> HIDE DEF e
  <2>3. \A x \in DOMAIN s :
           s[x].mode \in Recurring =>
              \/ x \in DOMAIN entries /\ entries[x].mode \in Recurring
                    /\ s[x].next = entries[x].next
              \/ s[x].next = 0
              \/ s[x].next > now /\ s[x].next \in Nat
    BY <1>0, <1>b, <2>2, NextSlotLater
  <2> HIDE DEF s
  <2> QED BY <2>1, <2>3, EditMovesOn
<1>2. ASSUME NEW id \in Schedules, NEW mode \in Modes, NEW at \in 0..Horizon,
             Reschedule(id, mode, at)
      PROVE  MovedOn'
  <2> DEFINE s == [entries EXCEPT ![id].mode = mode, ![id].next = FirstRun(mode, at)]
  <2>1. Commit(s, TRUE) /\ id \in DOMAIN entries /\ UNCHANGED <<now, due, launched, relaunched>>
    BY <1>0, <1>2 DEF Reschedule, engine
  <2>2. /\ s[id].mode = mode /\ s[id].next = FirstRun(mode, at)
        /\ DOMAIN s = DOMAIN entries
        /\ \A x \in DOMAIN entries \ {id} : s[x] = entries[x]
    BY <1>a, <2>1 DEF Entry
  <2> HIDE DEF s
  <2>3. \A x \in DOMAIN s :
           s[x].mode \in Recurring =>
              \/ x \in DOMAIN entries /\ entries[x].mode \in Recurring
                    /\ s[x].next = entries[x].next
              \/ s[x].next = 0
              \/ s[x].next > now /\ s[x].next \in Nat
    BY <1>0, <1>b, <2>2, NextSlotLater
  <2> QED BY <2>1, <2>3, EditMovesOn
<1>3. ASSUME NEW id \in Schedules, Remove(id)
      PROVE  MovedOn'
  <2> DEFINE s == Restrict(entries, DOMAIN entries \ {id})
  <2>1. Commit(s, TRUE) /\ UNCHANGED <<now, due, launched, relaunched>>
    BY <1>0, <1>3 DEF Remove, engine
  <2>2. \A x \in DOMAIN s : x \in DOMAIN entries /\ s[x] = entries[x]
    BY DEF Restrict
  <2> HIDE DEF s
  <2> QED BY <2>1, <2>2, EditMovesOn
<1>4. ASSUME NEW id \in Schedules, RunNow(id)
      PROVE  MovedOn'
  <2> DEFINE s == [entries EXCEPT ![id].next = 0, ![id].enabled = TRUE]
  <2>1. Commit(s, TRUE) /\ id \in DOMAIN entries /\ UNCHANGED <<now, due, launched, relaunched>>
    BY <1>0, <1>4 DEF RunNow, engine
  <2>2. /\ s[id].next = 0 /\ DOMAIN s = DOMAIN entries
        /\ \A x \in DOMAIN entries \ {id} : s[x] = entries[x]
    BY <1>a, <2>1 DEF Entry
  <2> HIDE DEF s
  <2>3. \A x \in DOMAIN s : s[x].next = 0 \/ (x \in DOMAIN entries /\ s[x] = entries[x])
    BY <2>2
  <2> QED BY <2>1, <2>3, EditMovesOn
<1>5. ASSUME NEW id \in Schedules, NEW enabled \in BOOLEAN, SetEnabled(id, enabled)
      PROVE  MovedOn'
  <2> DEFINE s == [entries EXCEPT ![id].enabled = enabled]
  <2>1. Commit(s, TRUE) /\ UNCHANGED <<now, due, launched, relaunched>>
    BY <1>0, <1>5 DEF SetEnabled, engine
  <2>2. \A x \in DOMAIN s :
           x \in DOMAIN entries /\ s[x].mode = entries[x].mode /\ s[x].next = entries[x].next
    BY <1>a DEF Entry
  <2> HIDE DEF s
  <2> QED BY <2>1, <2>2, EditMovesOn
<1>6. CASE Due
  <2> DEFINE s == [id \in DOMAIN entries |->
                     IF id \in DueNow /\ entries[id].mode \in Recurring
                     THEN [entries[id] EXCEPT !.next = Advance(entries[id].mode)]
                     ELSE entries[id]]
             handed == {[id |-> id, mode |-> entries[id].mode, slot |-> entries[id].next] :
                          id \in DueNow}
  <2>1. due' = handed /\ UNCHANGED <<now, launched, relaunched>>
    BY <1>6 DEF Due
  <2>2. ASSUME NEW id \in DOMAIN entries
        PROVE  /\ s[id].mode = entries[id].mode
               /\ (id \in DueNow /\ entries[id].mode \in Recurring)
                     => s[id].next = Advance(entries[id].mode)
               /\ ~(id \in DueNow /\ entries[id].mode \in Recurring)
                     => s[id].next = entries[id].next
    BY <1>a DEF Entry
  <2>3. \/ entries' = s /\ disk' = s
        \/ /\ \A id \in DueNow : entries[id].mode \notin Recurring
           /\ UNCHANGED <<entries, disk>>
    BY <1>0, <1>6 DEF Due, Commit
  <2>4. DOMAIN s = DOMAIN entries
    OBVIOUS
  <2> HIDE DEF s
  <2>5. entries' = disk' /\ DOMAIN entries' = DOMAIN entries
    BY <2>3, <2>4 DEF MovedOn
  <2>6. ASSUME NEW id \in DOMAIN entries
        PROVE  /\ entries'[id].mode = entries[id].mode
               /\ (id \in DueNow /\ entries[id].mode \in Recurring)
                     => entries'[id].next > now /\ entries'[id].next \in Nat
               /\ ~(id \in DueNow /\ entries[id].mode \in Recurring)
                     => entries'[id].next = entries[id].next
    <3>1. entries[id].mode \in Modes
      BY <1>a DEF Entry
    <3>2. entries[id].mode \in Recurring => Advance(entries[id].mode) > now
      BY <1>0, NextSlotLater
    <3>3. Advance(entries[id].mode) \in Nat
      BY <1>0, <3>1, AdvanceTyped DEF Slots
    <3> QED BY <2>2, <2>3, <3>2, <3>3
  <2>7. ASSUME NEW f \in handed, f.mode \in Recurring
        PROVE  Past(f)' /\ f \notin launched
    <3>1. PICK id \in DueNow :
             f = [id |-> id, mode |-> entries[id].mode, slot |-> entries[id].next]
      OBVIOUS
    <3>2. /\ f.id = id /\ f.mode = entries[id].mode /\ f.slot = entries[id].next
          /\ id \in DOMAIN entries /\ now >= f.slot
      BY <3>1 DEF DueNow
    <3>3. f.slot \in Nat
      BY <1>a, <3>2 DEF Entry, Slots
    <3>4. entries'[id].next > now /\ entries'[id].next \in Nat
      BY <2>6, <2>7, <3>2
    <3>5. Past(f)'
      BY <1>0, <2>1, <3>2, <3>3, <3>4 DEF Past
    <3>6. f \notin launched
      <4> SUFFICES ASSUME f \in launched PROVE FALSE
        OBVIOUS
      <4>1. f.slot # 0 /\ Past(f)
        BY <2>7 DEF MovedOn
      <4> QED BY <2>7, <3>2, <3>3, <4>1 DEF Past
    <3> QED BY <3>5, <3>6
  <2>8. ASSUME NEW f \in launched, f.mode \in Recurring
        PROVE  Past(f)'
    <3>1. Past(f) /\ f.slot \in Nat
      BY <1>0, <2>8 DEF MovedOn, EngineOK, Firings, Slots
    <3> QED BY <1>0, <2>1, <2>5, <2>6, <3>1 DEF Past
  <2> HIDE DEF handed
  <2> QED BY <2>1, <2>5, <2>7, <2>8 DEF MovedOn
<1>7. ASSUME NEW f \in due, Launch(f)
      PROVE  MovedOn'
  <2>1. /\ due' = due \ {f} /\ UNCHANGED <<entries, disk, now>>
        /\ launched' = IF Slotted(f) THEN launched \cup {f} ELSE launched
        /\ relaunched' = relaunched \cup ({f} \cap launched)
    BY <1>7 DEF Launch
  <2>2. \A g \in launched' : g.slot # 0
    BY <2>1 DEF MovedOn, Slotted
  <2>3. due' \cup launched' \subseteq due \cup launched
    BY <2>1
  <2>4. \A g \in due' \cup launched' : g.mode \in Recurring => Past(g)'
    BY <2>1, <2>3 DEF MovedOn, Past
  <2>5. due' \cap launched' \subseteq due \cap launched
    BY <2>1
  <2>6. relaunched' \subseteq relaunched \cup (due \cap launched)
    BY <2>1
  <2> QED BY <2>1, <2>2, <2>4, <2>5, <2>6 DEF MovedOn
<1>8. ASSUME NEW f \in due, Skip(f)
      PROVE  MovedOn'
  BY <1>8, QuietMovesOn DEF Skip
<1>9. ASSUME NEW w \in Workers, RunEnds(w) \/ Panic(w) \/ ClearGuard(w)
      PROVE  MovedOn'
  BY <1>9, QuietMovesOn DEF RunEnds, Panic, ClearGuard
<1>10. ASSUME NEW w \in Workers, CompleteFiring(w)
       PROVE  MovedOn'
  <2> DEFINE id == flight[w].what.id
             s == IF entries[id].mode = "once" THEN Restrict(entries, DOMAIN entries \ {id})
                  ELSE IF entries[id].mode = "continuous"
                       THEN [entries EXCEPT ![id].next = now + Interval]
                       ELSE entries
  <2>1. UNCHANGED <<now, due, launched, relaunched>>
    BY <1>10 DEF CompleteFiring
  <2>2. CASE id \notin DOMAIN entries
    <3>1. UNCHANGED <<entries, disk>>
      BY <1>10, <2>2 DEF CompleteFiring
    <3> QED BY <2>1, <3>1, QuietMovesOn
  <2>3. CASE id \in DOMAIN entries
    <3>1. Commit(s, TRUE)
      BY <1>0, <1>10, <2>3 DEF CompleteFiring
    <3>2. \A x \in DOMAIN s :
             s[x].mode \in Recurring => x \in DOMAIN entries /\ s[x] = entries[x]
      <4>1. CASE entries[id].mode = "once"
        BY <4>1 DEF Restrict
      <4>2. CASE entries[id].mode = "continuous"
        BY <1>a, <2>3, <4>2 DEF Entry, Recurring
      <4>3. CASE entries[id].mode # "once" /\ entries[id].mode # "continuous"
        BY <4>3
      <4> QED BY <4>1, <4>2, <4>3
    <3> HIDE DEF s
    <3> QED BY <2>1, <3>1, <3>2, EditMovesOn
  <2> QED BY <2>2, <2>3
<1>11. CASE Elapse
  <2>1. now' = now + 1 /\ UNCHANGED <<entries, disk, due, launched, relaunched>>
    BY <1>11 DEF Elapse
  <2>2. \A f \in due \cup launched : f.slot \in Nat
    BY <1>0 DEF EngineOK, Firings, Slots
  <2>3. \A f \in due \cup launched : Past(f) => Past(f)'
    BY <1>0, <2>1, <2>2 DEF Past
  <2> QED BY <2>1, <2>3 DEF MovedOn
<1>12. CASE Crash
  <2>1. UNCHANGED <<entries, disk, now, launched, relaunched>> /\ due' = {}
    BY <1>12 DEF Crash, MovedOn
  <2> QED BY <2>1, QuietMovesOn
<1>13. CASE UNCHANGED cadence
  BY <1>13, QuietMovesOn DEF cadence
<1> QED
  BY <1>1, <1>2, <1>3, <1>4, <1>5, <1>6, <1>7, <1>8, <1>9, <1>10, <1>11, <1>12, <1>13 DEF CadenceNext

\* When saves succeed, no slot of a recurring entry is run twice, across edits,
\* panics and crashes.
THEOREM SlotsRunAtMostOnce == CadenceSpec => []SlotAtMostOnce
<1> DEFINE Inv == "save" \notin env.faults => MovedOn
<1>1. CadenceInit => Inv
  BY DEF CadenceInit, MovedOn
<1>2. CadenceTypeOK /\ CadenceTypeOK' /\ Inv /\ [CadenceNext]_cadence => Inv'
  <2> SUFFICES ASSUME TypeParts, TypeParts', Inv, [CadenceNext]_cadence PROVE Inv'
    BY TypeSplit
  <2>1. env'.faults = env.faults
    BY FaultKeepsOps
  <2> QED BY <2>1, MovedOnStep
<1>3. Inv => SlotAtMostOnce
  BY DEF MovedOn, SlotAtMostOnce
<1> QED BY <1>1, <1>2, <1>3, TypeCorrect, PTL DEF CadenceSpec
=============================================================================
