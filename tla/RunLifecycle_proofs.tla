------------------------ MODULE RunLifecycle_proofs ------------------------
(***************************************************************************)
(* Theorems about live runs and their sub-agents, for any runs, any sharing*)
(* of correlation ids, any number of sub-agents and any caps; and, at the  *)
(* end, about the steering of one of them (Steering), for any calls, keys  *)
(* and lease.                                                              *)
(***************************************************************************)
EXTENDS RunLifecycle, Steering, FiniteSetTheorems, TLAPS

\* A sub-agent that was asked for has a spawner and a root run.
Rooted == \A k \in Kids : stage[k] # "new" => by[k] \in Tasks /\ root[k] \in Runs

Typed == TypeOK /\ Rooted

LEMMA KeyTyped == \A t \in Tasks : Key(t) \in Keys
BY DEF Key, Keys, Ids, Tasks

LEMMA KidsApart ==
    /\ \A k \in Kids : k \notin Runs /\ k \notin Ids /\ Key(k) = k
    /\ \A r \in Runs : Id[r] \in Ids /\ Id[r] \notin Kids /\ Key(r) = Id[r]
    /\ Nobody \notin Tasks
BY LifecycleAssumption DEF Key, Ids, Tasks

LEMMA GotoTyped ==
    ASSUME TypeOK, NEW t \in Tasks, NEW place, Goto(t, place),
           place \in {"new", "fanned", "prepared", "refused",
                      "running", "returned", "announcing", "done"}
    PROVE  /\ stage' \in [Tasks -> {"new", "fanned", "prepared", "refused",
                                    "running", "returned", "announcing", "done"}]
           /\ stage'[t] = place
           /\ \A u \in Tasks \ {t} : stage'[u] = stage[u]
BY DEF TypeOK, Goto

\* The caps are numbers.
LEMMA CapsTyped == TypeOK => cap.fanout \in Nat \ {0} /\ cap.total \in Nat \ {0} /\ cap.depth \in Nat
BY LifecycleAssumption DEF TypeOK
-----------------------------------------------------------------------------
LEMMA InitTyped == Init => Typed
<1> SUFFICES ASSUME Init PROVE Typed
  OBVIOUS
<1>1. TypeOK
  <2>1. cap.fanout \in Nat /\ cap.total \in Nat /\ cap.depth \in Nat
    BY LifecycleAssumption DEF Init
  <2>2. 0 \in 0..cap.depth /\ 0 \in 0..cap.fanout /\ 0 \in 0..cap.total
    BY <2>1
  <2>3. level \in [Kids -> 0..cap.depth] /\ fanout \in [Keys -> 0..cap.fanout] /\ tree \in [Ids -> 0..cap.total]
    BY <2>2 DEF Init
  <2> QED BY <2>3 DEF Init, TypeOK
<1>2. Rooted
  BY DEF Init, Rooted, Tasks
<1> QED BY <1>1, <1>2 DEF Typed

LEMMA NextTyped == Typed /\ [Next]_vars => Typed'
<1> SUFFICES ASSUME Typed, [Next]_vars PROVE Typed'
  OBVIOUS
<1>t. TypeOK /\ Rooted
  BY DEF Typed
<1>n. cap.fanout \in Nat \ {0} /\ cap.total \in Nat \ {0} /\ cap.depth \in Nat
  BY <1>t, CapsTyped
<1>r. \A r \in Runs : r \in Tasks /\ Id[r] \in Keys /\ Id[r] \in Ids
  BY DEF Tasks, Keys, Ids
<1>k. \A k \in Kids : k \in Tasks /\ k \in Keys
  BY DEF Tasks, Keys
<1>1. ASSUME NEW r \in Runs, Setup(r) PROVE Typed'
  <2>1. TypeOK'
    BY <1>1, <1>t, <1>r, GotoTyped DEF Setup, TypeOK, delegation
  <2>2. Rooted'
    BY <1>1, <1>t, <1>r, KidsApart, GotoTyped DEF Setup, Rooted, delegation, Tasks
  <2> QED BY <2>1, <2>2 DEF Typed
<1>2. ASSUME NEW r \in Runs, LoopReturns(r) PROVE Typed'
  <2>1. TypeOK'
    BY <1>2, <1>t, <1>r, GotoTyped DEF LoopReturns, TypeOK, delegation
  <2>2. Rooted'
    BY <1>2, <1>t, <1>r, KidsApart, GotoTyped DEF LoopReturns, Rooted, delegation, Tasks
  <2> QED BY <2>1, <2>2 DEF Typed
<1>3. ASSUME NEW r \in Runs, Cleanup(r) PROVE Typed'
  <2>1. Pending(Id[r]) \subseteq Kids
    BY <1>t DEF Pending, TypeOK
  <2>2. TypeOK'
    BY <1>3, <1>t, <1>r, <1>n, <2>1, GotoTyped DEF Cleanup, TypeOK, Tasks
  <2>3. Rooted'
    BY <1>3, <1>t, <1>r, KidsApart, GotoTyped DEF Cleanup, Rooted, Tasks
  <2> QED BY <2>2, <2>3 DEF Typed
<1>4. ASSUME NEW t \in Tasks, NEW k \in Kids, TakeFanout(t, k) PROVE Typed'
  <2>1. Key(t) \in Keys
    BY KeyTyped
  <2>2. (IF t \in Runs THEN t ELSE root[t]) \in Runs
    BY <1>4, <1>t DEF TakeFanout, Rooted, Tasks
  <2>3. Depth(t) \in Nat /\ Depth(t) + 1 \in 0..cap.depth
    BY <1>4, <1>t, <1>n DEF TakeFanout, TypeOK, Depth, Tasks
  <2>4. stage' \in [Tasks -> {"new", "fanned", "prepared", "refused",
                              "running", "returned", "announcing", "done"}]
    BY <1>4, <1>t, <1>k, GotoTyped DEF TakeFanout
  <2>5. fanout' \in [Keys -> 0..cap.fanout]
    BY <1>4, <1>t, <1>n, <2>1 DEF TakeFanout, TypeOK
  <2>6. TypeOK'
    BY <1>4, <1>t, <2>2, <2>3, <2>4, <2>5 DEF TakeFanout, TypeOK
  <2>7. Rooted'
    <3>1. by'[k] = t /\ root'[k] \in Runs
      BY <1>4, <1>t, <2>2 DEF TakeFanout, TypeOK
    <3>2. \A j \in Kids \ {k} : stage'[j] = stage[j] /\ by'[j] = by[j] /\ root'[j] = root[j]
      BY <1>4, <1>t, <1>k, GotoTyped DEF TakeFanout, TypeOK
    <3> QED BY <1>t, <3>1, <3>2 DEF Rooted
  <2> QED BY <2>6, <2>7 DEF Typed
<1>5. ASSUME NEW k \in Kids, RefuseTree(k) PROVE Typed'
  <2>1. TypeOK'
    BY <1>5, <1>t, <1>k, GotoTyped DEF RefuseTree, TypeOK, delegation
  <2>2. Rooted'
    BY <1>5, <1>t, <1>k, GotoTyped DEF RefuseTree, Rooted, delegation
  <2> QED BY <2>1, <2>2 DEF Typed
<1>6. ASSUME NEW k \in Kids, NEW withinSpend \in BOOLEAN, TakeTree(k, withinSpend) PROVE Typed'
  <2>1. tree' \in [Ids -> 0..cap.total]
    BY <1>6, <1>t, <1>n DEF TakeTree, TypeOK
  <2>2. stage' \in [Tasks -> {"new", "fanned", "prepared", "refused",
                              "running", "returned", "announcing", "done"}]
    BY <1>6, <1>t, <1>k, GotoTyped DEF TakeTree
  <2>3. TypeOK'
    BY <1>6, <1>t, <1>k, <2>1, <2>2 DEF TakeTree, TypeOK
  <2>4. Rooted'
    BY <1>6, <1>t, <1>k, GotoTyped DEF TakeTree, Rooted
  <2> QED BY <2>3, <2>4 DEF Typed
<1>7. ASSUME NEW k \in Kids, Spawn(k) PROVE Typed'
  <2>1. TypeOK'
    BY <1>7, <1>t, <1>k, GotoTyped DEF Spawn, TypeOK
  <2>2. Rooted'
    BY <1>7, <1>t, <1>k, GotoTyped DEF Spawn, MaySpawn, Rooted
  <2> QED BY <2>1, <2>2 DEF Typed
<1>8. ASSUME NEW k \in Kids, SpawnHalted(k) PROVE Typed'
  <2>1. TypeOK'
    BY <1>8, <1>t, <1>k, GotoTyped DEF SpawnHalted, TypeOK, delegation
  <2>2. Rooted'
    BY <1>8, <1>t, <1>k, GotoTyped DEF SpawnHalted, Rooted, delegation
  <2> QED BY <2>1, <2>2 DEF Typed
<1>9. ASSUME NEW k \in Kids, KidReturns(k) PROVE Typed'
  <2>1. TypeOK'
    BY <1>9, <1>t, <1>k, <1>n, GotoTyped DEF KidReturns, TypeOK
  <2>2. Rooted'
    BY <1>9, <1>t, <1>k, GotoTyped DEF KidReturns, Rooted
  <2> QED BY <2>1, <2>2 DEF Typed
<1>10. ASSUME NEW k \in Kids, Announce(k) PROVE Typed'
  <2>1. TypeOK'
    BY <1>10, <1>t, <1>k, GotoTyped DEF Announce, TypeOK, delegation
  <2>2. Rooted'
    BY <1>10, <1>t, <1>k, GotoTyped DEF Announce, Rooted, delegation
  <2> QED BY <2>1, <2>2 DEF Typed
<1>11. ASSUME NEW k \in Kids, Collect(k) PROVE Typed'
  BY <1>11, <1>t DEF Collect, Typed, TypeOK, Rooted
<1>12. ASSUME Halt PROVE Typed'
  BY <1>12, <1>t DEF Halt, Registered, Typed, TypeOK, Rooted, delegation
<1>13. ASSUME NEW x \in Keys, CancelRun(x) PROVE Typed'
  BY <1>13, <1>t DEF CancelRun, Typed, TypeOK, Rooted, delegation
<1>14. ASSUME Resume \/ Settle PROVE Typed'
  BY <1>14, <1>t DEF Resume, Settle, Typed, TypeOK, Rooted, delegation
<1>15. ASSUME UNCHANGED vars PROVE Typed'
  BY <1>15, <1>t DEF vars, Typed, TypeOK, Rooted, delegation
<1> QED
  BY <1>1, <1>2, <1>3, <1>4, <1>5, <1>6, <1>7, <1>8, <1>9, <1>10, <1>11, <1>12, <1>13, <1>14,
     <1>15 DEF Next
-----------------------------------------------------------------------------
\* Reachable, with what keeps it: of two runs that work under one id, each is
\* shadowed or was cancelled, since the second was admitted after the first
\* had left the registry.
Working(t) == stage[t] \in {"running", "returned"}

Registration == \A t \in Tasks \ shadowed : Working(t) => entry[Key(t)] = t \/ t \in cancelled

Steered ==
    \A t \in Tasks \ shadowed :
      stage[t] = "running" \/ (t \in Kids /\ stage[t] = "prepared")
        => steers[Key(t)] = t \/ t \in cancelled

OneOwner ==
    \A q, r \in Runs : q # r /\ Id[q] = Id[r] /\ Working(q) /\ Working(r)
                         => q \in shadowed \cup cancelled

InReach == Registration /\ Steered /\ OneOwner

LEMMA InitInReach == Init => InReach
BY DEF Init, InReach, Registration, Steered, OneOwner, Working, Tasks

LEMMA NextInReach == Typed /\ InReach /\ [Next]_vars => InReach'
<1> SUFFICES ASSUME Typed, InReach, [Next]_vars PROVE InReach'
  OBVIOUS
<1>t. TypeOK
  BY DEF Typed
<1>i. Registration /\ Steered /\ OneOwner
  BY DEF InReach
<1>r. \A r \in Runs : r \in Tasks /\ Id[r] \in Keys /\ Key(r) = Id[r] /\ r \notin Kids /\ r # Nobody
  BY KidsApart DEF Tasks, Keys, Ids
<1>k. \A k \in Kids : /\ k \in Tasks /\ k \in Keys /\ Key(k) = k /\ k \notin Runs /\ k # Nobody
                      /\ \A r \in Runs : Id[r] # k
  BY KidsApart DEF Tasks, Keys
<1>a. \A t \in Tasks : (t \in Runs \/ t \in Kids) /\ Key(t) \in Keys
  BY KeyTyped DEF Tasks
<1>1. ASSUME NEW r \in Runs, Setup(r) PROVE InReach'
  <2>1. /\ stage[r] = "new" /\ entry[Id[r]] = Nobody
        /\ entry' = [entry EXCEPT ![Id[r]] = r] /\ steers' = [steers EXCEPT ![Id[r]] = r]
        /\ cancelled' = cancelled /\ shadowed \subseteq shadowed'
        /\ \A q \in Runs : Id[q] = Id[r] /\ Working(q) => r \in shadowed'
    BY <1>1 DEF Setup, Admissible, Unwinding, Working
  <2>2. stage'[r] = "running" /\ \A t \in Tasks \ {r} : stage'[t] = stage[t]
    BY <1>1, <1>t, <1>r, GotoTyped DEF Setup
  <2>3. entry'[Id[r]] = r /\ steers'[Id[r]] = r
        /\ \A x \in Keys \ {Id[r]} : entry'[x] = entry[x] /\ steers'[x] = steers[x]
    BY <2>1, <1>r, <1>t DEF TypeOK
  <2>4. \A q \in Runs : q # r /\ Id[q] = Id[r] /\ Working(q) => q \in shadowed \cup cancelled
    BY <2>1, <1>i, <1>r DEF Registration
  <2>5. Registration'
    BY <2>1, <2>2, <2>3, <2>4, <1>i, <1>r, <1>k, <1>a DEF Registration, Working
  <2>6. Steered'
    <3> SUFFICES ASSUME NEW t \in Tasks, t \notin shadowed', t \notin cancelled',
                        stage'[t] = "running" \/ (t \in Kids /\ stage'[t] = "prepared")
                 PROVE  steers'[Key(t)] = t
      BY DEF Steered, Key
    <3>1. CASE t = r
      BY <3>1, <2>3, <1>r
    <3>2. CASE t \in Kids
      BY <3>2, <2>1, <2>2, <2>3, <1>i, <1>k, <1>r DEF Steered
    <3>3. CASE t \in Runs \ {r}
      <4>1. stage[t] = "running" /\ t \notin shadowed \cup cancelled
        BY <3>3, <2>1, <2>2, <1>r, <1>k
      <4>2. Id[t] # Id[r]
        BY <3>3, <4>1, <2>4 DEF Working
      <4> QED BY <3>3, <4>1, <4>2, <2>3, <1>i, <1>r DEF Steered
    <3> QED BY <3>1, <3>2, <3>3, <1>a
  <2>7. OneOwner'
    BY <2>1, <2>2, <2>4, <1>i, <1>r DEF OneOwner, Working
  <2> QED BY <2>5, <2>6, <2>7 DEF InReach
<1>2. ASSUME NEW r \in Runs, LoopReturns(r) PROVE InReach'
  <2>1. /\ stage[r] = "running" /\ steers' = [steers EXCEPT ![Id[r]] = Nobody]
        /\ entry' = entry /\ cancelled' = cancelled /\ shadowed' = shadowed
    BY <1>2 DEF LoopReturns
  <2>2. stage'[r] = "returned" /\ \A t \in Tasks \ {r} : stage'[t] = stage[t]
    BY <1>2, <1>t, <1>r, GotoTyped DEF LoopReturns
  <2>3. \A x \in Keys \ {Id[r]} : steers'[x] = steers[x]
    BY <2>1, <1>t DEF TypeOK
  <2>4. Registration' /\ OneOwner'
    BY <2>1, <2>2, <1>i, <1>r DEF Registration, OneOwner, Working, Key
  <2>5. Steered'
    <3> SUFFICES ASSUME NEW t \in Tasks, t \notin shadowed', t \notin cancelled',
                        stage'[t] = "running" \/ (t \in Kids /\ stage'[t] = "prepared")
                 PROVE  steers'[Key(t)] = t
      BY DEF Steered, Key
    <3>1. t # r /\ stage[t] = stage'[t]
      BY <2>2
    <3>2. Key(t) # Id[r]
      BY <3>1, <2>1, <1>i, <1>r, <1>k, <1>a DEF OneOwner, Working
    <3> QED BY <3>1, <3>2, <2>1, <2>3, <1>i, <1>a DEF Steered
  <2> QED BY <2>4, <2>5 DEF InReach
<1>3. ASSUME NEW r \in Runs, Cleanup(r) PROVE InReach'
  <2>1. /\ stage[r] = "returned" /\ steers' = [steers EXCEPT ![Id[r]] = Nobody]
        /\ entry' = [entry EXCEPT ![Id[r]] = Nobody]
        /\ cancelled \subseteq cancelled' /\ shadowed' = shadowed
    BY <1>3 DEF Cleanup
  <2>2. stage'[r] = "done" /\ \A t \in Tasks \ {r} : stage'[t] = stage[t]
    BY <1>3, <1>t, <1>r, GotoTyped DEF Cleanup
  <2>3. \A x \in Keys \ {Id[r]} : steers'[x] = steers[x] /\ entry'[x] = entry[x]
    BY <2>1, <1>t DEF TypeOK
  <2>4. \A t \in Tasks \ shadowed' :
           stage'[t] \in {"running", "returned", "prepared"} /\ t \notin cancelled'
           /\ (t \in Runs => Working(t)) => t # r /\ Key(t) # Id[r]
    BY <2>1, <2>2, <1>i, <1>r, <1>k, <1>a DEF OneOwner, Working
  <2>5. Registration'
    <3> SUFFICES ASSUME NEW t \in Tasks, t \notin shadowed', t \notin cancelled',
                        stage'[t] \in {"running", "returned"}
                 PROVE  entry'[Key(t)] = t
      BY DEF Registration, Working, Key
    <3>1. t # r /\ Key(t) # Id[r] /\ Working(t)
      BY <2>2, <2>4 DEF Working
    <3> QED BY <3>1, <2>1, <2>3, <1>i, <1>a DEF Registration
  <2>6. Steered'
    <3> SUFFICES ASSUME NEW t \in Tasks, t \notin shadowed', t \notin cancelled',
                        stage'[t] = "running" \/ (t \in Kids /\ stage'[t] = "prepared")
                 PROVE  steers'[Key(t)] = t
      BY DEF Steered, Key
    <3>1. t # r /\ stage[t] = stage'[t]
      BY <2>2
    <3>2. t \in Runs => Working(t)
      BY <3>1, <1>r DEF Working
    <3>3. Key(t) # Id[r]
      BY <3>1, <3>2, <2>4
    <3> QED BY <3>1, <3>3, <2>1, <2>3, <1>i, <1>a DEF Steered
  <2>7. OneOwner'
    BY <2>1, <2>2, <1>i, <1>r DEF OneOwner, Working
  <2> QED BY <2>5, <2>6, <2>7 DEF InReach
<1>4. ASSUME NEW k \in Kids, NEW place, Goto(k, place), place \in {"fanned", "refused", "announcing", "done"},
             \A x \in Keys \ {k} : steers'[x] = steers[x] /\ entry'[x] = entry[x],
             cancelled \subseteq cancelled', shadowed' = shadowed
      PROVE  InReach'
  <2>1. stage'[k] = place /\ \A t \in Tasks \ {k} : stage'[t] = stage[t]
    BY <1>4, <1>t, <1>k, GotoTyped
  <2>2. Registration'
    BY <1>4, <2>1, <1>i, <1>r, <1>k, <1>a DEF Registration, Working, Key
  <2>3. Steered'
    BY <1>4, <2>1, <1>i, <1>r, <1>k, <1>a DEF Steered, Key
  <2>4. OneOwner'
    BY <1>4, <2>1, <1>i, <1>r, <1>k DEF OneOwner, Working
  <2> QED BY <2>2, <2>3, <2>4 DEF InReach
<1>5. ASSUME NEW t \in Tasks, NEW k \in Kids, TakeFanout(t, k) PROVE InReach'
  BY <1>5, <1>4 DEF TakeFanout
<1>6. ASSUME NEW k \in Kids,
             \/ RefuseTree(k) \/ SpawnHalted(k) \/ Announce(k) \/ KidReturns(k) \/ TakeTree(k, FALSE)
      PROVE  InReach'
  <2>1. \A x \in Keys \ {k} : steers'[x] = steers[x] /\ entry'[x] = entry[x]
    BY <1>6, <1>t, <1>k DEF RefuseTree, SpawnHalted, Announce, KidReturns, TakeTree, TypeOK
  <2>2. cancelled \subseteq cancelled' /\ shadowed' = shadowed
    BY <1>6 DEF RefuseTree, SpawnHalted, Announce, KidReturns, TakeTree
  <2>3. Goto(k, "refused") \/ Goto(k, "done") \/ Goto(k, "announcing")
    BY <1>6 DEF RefuseTree, SpawnHalted, Announce, KidReturns, TakeTree
  <2> QED BY <2>1, <2>2, <2>3, <1>4
<1>7. ASSUME NEW k \in Kids, TakeTree(k, TRUE) \/ Spawn(k) PROVE InReach'
  <2>1. /\ cancelled' = cancelled /\ shadowed' = shadowed
        /\ stage'[k] \in {"prepared", "running"} /\ \A t \in Tasks \ {k} : stage'[t] = stage[t]
    BY <1>7, <1>t, <1>k, GotoTyped DEF TakeTree, Spawn
  <2>2. \A x \in Keys \ {k} : steers'[x] = steers[x] /\ entry'[x] = entry[x]
    BY <1>7, <1>t, <1>k DEF TakeTree, Spawn, TypeOK
  <2>3. stage'[k] = "running" => entry'[k] = k
    BY <1>7, <1>t, <1>k, GotoTyped DEF TakeTree, Spawn, TypeOK
  <2>4. steers'[k] = k \/ k \in cancelled \/ k \in shadowed
    <3>1. CASE TakeTree(k, TRUE)
      BY <3>1, <1>t, <1>k DEF TakeTree, TypeOK
    <3>2. CASE Spawn(k)
      BY <3>2, <1>i, <1>k DEF Spawn, MaySpawn, Steered
    <3> QED BY <1>7, <3>1, <3>2
  <2>5. Registration'
    BY <2>1, <2>2, <2>3, <1>i, <1>r, <1>k, <1>a DEF Registration, Working, Key
  <2>6. Steered'
    BY <2>1, <2>2, <2>4, <1>i, <1>r, <1>k, <1>a DEF Steered, Key
  <2>7. OneOwner'
    BY <2>1, <1>i, <1>r, <1>k DEF OneOwner, Working
  <2> QED BY <2>5, <2>6, <2>7 DEF InReach
<1>8. ASSUME NEW k \in Kids, Collect(k) PROVE InReach'
  BY <1>8, <1>i DEF Collect, InReach, Registration, Steered, OneOwner, Working, Key
<1>9. ASSUME Halt PROVE InReach'
  <2>1. \A t \in Tasks : entry[Key(t)] = t => t \in cancelled'
    BY <1>9 DEF Halt, Registered
  <2>2. cancelled \subseteq cancelled' /\ UNCHANGED <<stage, steers, shadowed>>
    BY <1>9 DEF Halt
  <2> QED BY <2>1, <2>2, <1>i DEF InReach, Registration, Steered, OneOwner, Working, Key
<1>10. ASSUME NEW x \in Keys, CancelRun(x) PROVE InReach'
  <2>1. entry[x] \in cancelled' /\ \A y \in Keys \ {x} : entry'[y] = entry[y]
    BY <1>10, <1>t DEF CancelRun, TypeOK
  <2>2. cancelled \subseteq cancelled' /\ UNCHANGED <<stage, steers, shadowed>>
    BY <1>10 DEF CancelRun
  <2>3. Registration'
    BY <2>1, <2>2, <1>i, <1>a DEF Registration, Working, Key
  <2> QED BY <2>2, <2>3, <1>i DEF InReach, Steered, OneOwner, Working, Key
<1>11. ASSUME Resume \/ Settle \/ UNCHANGED vars PROVE InReach'
  BY <1>11, <1>i DEF Resume, Settle, vars, InReach, Registration, Steered, OneOwner, Working, Key
<1> QED
  BY <1>1, <1>2, <1>3, <1>5, <1>6, <1>7, <1>8, <1>9, <1>10, <1>11 DEF Next
-----------------------------------------------------------------------------
\* SettledQuiet, with what keeps it: the drain counts the tasks that unwind.
Drained ==
    /\ counted = {t \in Tasks : Unwinding(t)}
    /\ settled => halted /\ counted = {}

LEMMA InitDrained == Init => Drained
BY DEF Init, Drained, Unwinding

LEMMA NextDrained == Typed /\ Drained /\ [Next]_vars => Drained'
<1> SUFFICES ASSUME Typed, Drained, [Next]_vars PROVE Drained'
  OBVIOUS
<1>t. TypeOK
  BY DEF Typed
<1>r. /\ \A r \in Runs : r \in Tasks
      /\ \A k \in Kids : k \in Tasks
  BY DEF Tasks
<1>1. ASSUME NEW t \in Tasks, NEW place, Goto(t, place), place \in {"running", "returned", "announcing"},
             counted' = counted \cup {t}, UNCHANGED <<halted, settled>>, ~halted \/ Unwinding(t)
      PROVE  Drained'
  <2>1. stage'[t] = place /\ \A u \in Tasks \ {t} : stage'[u] = stage[u]
    BY <1>1, <1>t, GotoTyped
  <2> QED BY <1>1, <2>1 DEF Drained, Unwinding
<1>2. ASSUME NEW t \in Tasks, NEW place, Goto(t, place), place \in {"fanned", "prepared", "refused", "done"},
             counted' = counted \ {t}, UNCHANGED <<halted, settled>>
      PROVE  Drained'
  <2>1. stage'[t] = place /\ \A u \in Tasks \ {t} : stage'[u] = stage[u]
    BY <1>2, <1>t, GotoTyped
  <2> QED BY <1>2, <2>1 DEF Drained, Unwinding
<1>3. ASSUME NEW r \in Runs, Setup(r) \/ LoopReturns(r) PROVE Drained'
  <2>1. r \in Tasks
    BY <1>r
  <2>2. CASE Setup(r)
    BY <2>1, <2>2, <1>1 DEF Setup, Admissible
  <2>3. CASE LoopReturns(r)
    <3>1. Unwinding(r) /\ counted' = counted \cup {r}
      BY <2>1, <2>3 DEF LoopReturns, Drained, Unwinding
    <3> QED BY <2>1, <2>3, <3>1, <1>1 DEF LoopReturns
  <2> QED BY <1>3, <2>2, <2>3
<1>4. ASSUME NEW r \in Runs, Cleanup(r) PROVE Drained'
  BY <1>4, <1>2, <1>r DEF Cleanup
<1>5. ASSUME NEW t \in Tasks, NEW k \in Kids, TakeFanout(t, k) PROVE Drained'
  <2>1. counted' = counted \ {k}
    BY <1>5, <1>r DEF TakeFanout, Drained, Unwinding
  <2> QED BY <1>5, <2>1, <1>2, <1>r DEF TakeFanout
<1>6. ASSUME NEW k \in Kids, NEW withinSpend \in BOOLEAN,
             RefuseTree(k) \/ TakeTree(k, withinSpend) \/ SpawnHalted(k)
      PROVE  Drained'
  <2>1. counted' = counted \ {k}
    BY <1>6, <1>r DEF RefuseTree, TakeTree, SpawnHalted, Drained, Unwinding
  <2>2. UNCHANGED <<halted, settled>> /\ (Goto(k, "refused") \/ Goto(k, "prepared"))
    BY <1>6 DEF RefuseTree, TakeTree, SpawnHalted
  <2> QED BY <2>1, <2>2, <1>2, <1>r
<1>7. ASSUME NEW k \in Kids, Spawn(k) \/ KidReturns(k) PROVE Drained'
  <2>1. k \in Tasks
    BY <1>r
  <2>2. CASE Spawn(k)
    BY <2>1, <2>2, <1>1 DEF Spawn, MaySpawn
  <2>3. CASE KidReturns(k)
    <3>1. Unwinding(k) /\ counted' = counted \cup {k}
      BY <2>1, <2>3 DEF KidReturns, Drained, Unwinding
    <3> QED BY <2>1, <2>3, <3>1, <1>1 DEF KidReturns
  <2> QED BY <1>7, <2>2, <2>3
<1>8. ASSUME NEW k \in Kids, Announce(k) PROVE Drained'
  BY <1>8, <1>2, <1>r DEF Announce
<1>9. ASSUME NEW k \in Kids, Collect(k) PROVE Drained'
  BY <1>9 DEF Collect, Drained, Unwinding
<1>10. ASSUME Halt \/ Resume \/ Settle \/ \E x \in Keys : CancelRun(x) PROVE Drained'
  BY <1>10 DEF Halt, Resume, Settle, CancelRun, Drained, Unwinding
<1>11. ASSUME UNCHANGED vars PROVE Drained'
  BY <1>11 DEF vars, Drained, Unwinding
<1> QED
  BY <1>3, <1>4, <1>5, <1>6, <1>7, <1>8, <1>9, <1>10, <1>11 DEF Next
-----------------------------------------------------------------------------
\* KidsSwept, with what keeps it: a kid that runs can be awaited, and is then
\* in reach of its root's sweep, or was cancelled by one.
Held == \A k \in Kids : stage[k] = "running" => k \in handles \cup cancelled

InTree == Held /\ KidsSwept

LEMMA InitInTree == Init => InTree
BY DEF Init, InTree, Held, KidsSwept, Tasks

LEMMA NextInTree == Typed /\ InTree /\ [Next]_vars => InTree'
<1> SUFFICES ASSUME Typed, InTree, [Next]_vars PROVE InTree'
  OBVIOUS
<1>t. TypeOK /\ Rooted
  BY DEF Typed
<1>i. Held /\ KidsSwept
  BY DEF InTree
<1>r. /\ \A r \in Runs : r \in Tasks /\ r \notin Kids
      /\ \A k \in Kids : k \in Tasks /\ k \notin Runs
      /\ \A k \in Kids : stage[k] = "running" => root[k] \in Runs
  BY <1>t, KidsApart DEF Tasks, Rooted
<1>1. ASSUME NEW t \in Tasks, NEW place, Goto(t, place),
             place \in {"fanned", "prepared", "refused", "running", "returned", "announcing", "done"},
             t \in Kids => place # "running", t \in Runs => place # "done",
             cancelled \subseteq cancelled', UNCHANGED <<handles, late>>,
             \A k \in Kids \ {t} : root'[k] = root[k]
      PROVE  InTree'
  <2>1. stage'[t] = place /\ \A u \in Tasks \ {t} : stage'[u] = stage[u]
    BY <1>1, <1>t, GotoTyped
  <2>2. Held'
    BY <1>1, <2>1, <1>i, <1>r DEF Held
  <2>3. KidsSwept'
    <3> SUFFICES ASSUME NEW k \in Kids, stage'[k] = "running", stage'[root'[k]] = "done"
                 PROVE  k \in cancelled' \cup late'
      BY DEF KidsSwept
    <3>1. k # t /\ stage[k] = "running" /\ root'[k] = root[k] /\ root[k] \in Runs
      BY <1>1, <2>1, <1>r
    <3>2. stage[root[k]] = "done"
      BY <1>1, <2>1, <3>1, <1>r
    <3> QED BY <1>1, <3>1, <3>2, <1>i DEF KidsSwept
  <2> QED BY <2>2, <2>3 DEF InTree
<1>2. ASSUME NEW r \in Runs, Setup(r) \/ LoopReturns(r) PROVE InTree'
  BY <1>2, <1>1, <1>r DEF Setup, LoopReturns, delegation
<1>3. ASSUME NEW r \in Runs, Cleanup(r) PROVE InTree'
  <2>1. stage'[r] = "done" /\ \A u \in Tasks \ {r} : stage'[u] = stage[u]
    BY <1>3, <1>t, <1>r, GotoTyped DEF Cleanup
  <2>2. /\ handles' = handles \ Pending(Id[r]) /\ cancelled' = cancelled \cup {r} \cup Pending(Id[r])
        /\ UNCHANGED <<root, late>>
    BY <1>3 DEF Cleanup
  <2>3. Held'
    BY <2>1, <2>2, <1>i, <1>r DEF Held
  <2>4. KidsSwept'
    <3> SUFFICES ASSUME NEW k \in Kids, stage'[k] = "running", stage'[root'[k]] = "done"
                 PROVE  k \in cancelled' \cup late'
      BY DEF KidsSwept
    <3>1. stage[k] = "running" /\ root'[k] = root[k] /\ root[k] \in Runs
      BY <2>1, <2>2, <1>r
    <3>2. CASE root[k] = r
      BY <3>1, <3>2, <2>2, <1>i DEF Held, Pending
    <3>3. CASE root[k] # r
      BY <3>1, <3>3, <2>1, <2>2, <1>i, <1>r DEF KidsSwept
    <3> QED BY <3>2, <3>3
  <2> QED BY <2>3, <2>4 DEF InTree
<1>4. ASSUME NEW t \in Tasks, NEW k \in Kids, TakeFanout(t, k) PROVE InTree'
  <2>1. \A j \in Kids \ {k} : root'[j] = root[j]
    BY <1>4, <1>t DEF TakeFanout, TypeOK
  <2> QED BY <1>4, <2>1, <1>1, <1>r DEF TakeFanout
<1>5. ASSUME NEW k \in Kids, NEW withinSpend \in BOOLEAN,
             \/ RefuseTree(k) \/ TakeTree(k, withinSpend) \/ SpawnHalted(k)
             \/ KidReturns(k) \/ Announce(k)
      PROVE  InTree'
  <2>1. cancelled \subseteq cancelled' /\ UNCHANGED <<handles, late, root>>
    BY <1>5 DEF RefuseTree, TakeTree, SpawnHalted, KidReturns, Announce, delegation
  <2>2. Goto(k, "refused") \/ Goto(k, "prepared") \/ Goto(k, "announcing") \/ Goto(k, "done")
    BY <1>5 DEF RefuseTree, TakeTree, SpawnHalted, KidReturns, Announce
  <2> QED BY <2>1, <2>2, <1>1, <1>r
<1>6. ASSUME NEW k \in Kids, Spawn(k) PROVE InTree'
  <2>1. stage'[k] = "running" /\ \A u \in Tasks \ {k} : stage'[u] = stage[u]
    BY <1>6, <1>t, <1>r, GotoTyped DEF Spawn
  <2>2. /\ handles' = handles \cup {k} /\ UNCHANGED <<cancelled, root>> /\ late \subseteq late'
        /\ stage[root[k]] = "done" => k \in late'
    BY <1>6 DEF Spawn
  <2>3. root[k] \in Runs
    BY <1>6, <1>t DEF Spawn, MaySpawn, Rooted
  <2>4. Held' /\ KidsSwept'
    BY <2>1, <2>2, <2>3, <1>i, <1>r DEF Held, KidsSwept
  <2> QED BY <2>4 DEF InTree
<1>7. ASSUME NEW k \in Kids, Collect(k) PROVE InTree'
  BY <1>7, <1>i DEF Collect, InTree, Held, KidsSwept
<1>8. ASSUME Halt \/ Resume \/ Settle \/ (\E x \in Keys : CancelRun(x)) \/ UNCHANGED vars PROVE InTree'
  BY <1>8, <1>i DEF Halt, Resume, Settle, CancelRun, vars, delegation, InTree, Held, KidsSwept
<1> QED
  BY <1>2, <1>3, <1>4, <1>5, <1>6, <1>7, <1>8 DEF Next
-----------------------------------------------------------------------------
\* CapsHold, with what keeps it: the tallies are at least the numbers they stand
\* for, as long as their task is in the registry's hands.
Used == {k \in Kids : stage[k] # "new"}
Asked(t) == {k \in Used : by[k] = t}
Grown(r) == {k \in Kids : root[k] = r /\ Spawned(k)}
Alone(t) == IF t \in Runs THEN ~Overlapping(t) ELSE TRUE

\* Nothing is tallied for a task that has not started, so that its tallies
\* start from no sub-agent.
Begun(t) == stage[t] \in {"running", "returned", "announcing", "done"}
Parented == \A k \in Used : Begun(by[k]) /\ Begun(root[k])

\* While a run with an id of its own works, no other run's cleanup clears the
\* tallies of that id.
Exclusive ==
    \A q, r \in Runs : q # r /\ Id[q] = Id[r] /\ Unwinding(q) /\ Unwinding(r)
                         => q \in shadowed \/ r \in shadowed

FanoutTallied ==
    \A t \in Tasks : Alone(t) =>
      /\ Cardinality(Asked(t)) <= cap.fanout
      /\ Working(t) => Cardinality(Asked(t)) <= fanout[Key(t)]

TreeTallied ==
    \A r \in Runs : Working(r) /\ ~Overlapping(r) => Cardinality(Grown(r)) <= tree[Id[r]]

Tallied == IsFiniteSet(Used) /\ Parented /\ Exclusive /\ FanoutTallied /\ TreeTallied

LEMMA InitTallied == Init => Tallied
<1> SUFFICES ASSUME Init PROVE Tallied
  OBVIOUS
<1>1. Used = {}
  BY DEF Init, Used, Tasks
<1>2. /\ \A t \in Tasks : Asked(t) = {}
      /\ \A r \in Runs : ~Working(r) /\ ~Unwinding(r)
      /\ \A t \in Tasks : ~Working(t)
  BY <1>1 DEF Asked, Init, Working, Unwinding, Tasks
<1>3. IsFiniteSet({}) /\ Cardinality({}) = 0
  BY FS_EmptySet
<1>4. cap.fanout \in Nat
  BY LifecycleAssumption DEF Init
<1> QED BY <1>1, <1>2, <1>3, <1>4 DEF Tallied, Parented, Exclusive, FanoutTallied, TreeTallied

\* What is counted is finite: sub-agents are asked for one at a time.
LEMMA CountsFinite ==
    ASSUME IsFiniteSet(Used)
    PROVE  /\ \A t : IsFiniteSet(Asked(t)) /\ Cardinality(Asked(t)) \in Nat
           /\ \A r : IsFiniteSet(Grown(r)) /\ Cardinality(Grown(r)) \in Nat
<1>1. ASSUME NEW S \in SUBSET Used PROVE IsFiniteSet(S) /\ Cardinality(S) \in Nat
  <2>1. IsFiniteSet(S)
    BY FS_Subset
  <2> QED BY <2>1, FS_CardinalityType
<1>2. \A t : Asked(t) \in SUBSET Used
  BY DEF Asked
<1>3. \A r : Grown(r) \in SUBSET Used
  BY DEF Grown, Spawned, Used
<1> QED BY <1>1, <1>2, <1>3

\* A step that asks for no sub-agent and lowers the tallies of no task at work
\* keeps every tally large enough.
LEMMA TalliesKept ==
    ASSUME Typed, TypeOK', Tallied, Exclusive', cap' = cap, shadowed \subseteq shadowed',
           \A k \in Kids : /\ stage'[k] = "new" <=> stage[k] = "new"
                           /\ by'[k] = by[k] /\ root'[k] = root[k]
                           /\ Spawned(k)' => Spawned(k),
           \A t \in Tasks : Begun(t) => Begun(t)',
           \A t \in Tasks : Working(t)' /\ Alone(t) =>
             ~Begun(t) \/ (Working(t) /\ fanout'[Key(t)] >= fanout[Key(t)]),
           \A r \in Runs : Working(r)' /\ ~Overlapping(r) =>
             ~Begun(r) \/ (Working(r) /\ tree'[Id[r]] >= tree[Id[r]])
    PROVE  Tallied'
<1>1. Used' = Used /\ \A t : Asked(t)' = Asked(t)
  BY DEF Used, Asked
<1>2. IsFiniteSet(Used)
  BY DEF Tallied
<1>3. Parented'
  <2> SUFFICES ASSUME NEW k \in Used PROVE Begun(by[k])' /\ Begun(root[k])'
    BY <1>1 DEF Parented
  <2>1. k \in Kids /\ by[k] \in Tasks /\ root[k] \in Tasks
    BY DEF Used, Typed, Rooted, Tasks
  <2>2. Begun(by[k]) /\ Begun(root[k])
    BY DEF Tallied, Parented
  <2>3. by'[k] = by[k] /\ root'[k] = root[k]
    BY <2>1
  <2> QED BY <2>1, <2>2, <2>3 DEF Begun
<1>4. \A t \in Tasks : Alone(t)' => Alone(t)
  BY DEF Alone, Overlapping
<1>5. \A t \in Tasks : Key(t) \in Keys /\ Key(t)' = Key(t)
  BY KeyTyped DEF Key
<1>6. FanoutTallied'
  <2> SUFFICES ASSUME NEW t \in Tasks, Alone(t)
               PROVE  /\ Cardinality(Asked(t)) <= cap.fanout
                      /\ Working(t)' => Cardinality(Asked(t)) <= fanout'[Key(t)]
    BY <1>1, <1>4, <1>5 DEF FanoutTallied
  <2>1. Cardinality(Asked(t)) <= cap.fanout
    BY DEF Tallied, FanoutTallied
  <2>2. ASSUME Working(t)' PROVE Cardinality(Asked(t)) <= fanout'[Key(t)]
    <3>1. CASE ~Begun(t)
      <4>1. Asked(t) = {}
        BY <3>1 DEF Tallied, Parented, Asked
      <4>2. Cardinality(Asked(t)) = 0
        BY <4>1, FS_EmptySet
      <4>3. fanout'[Key(t)] \in 0..cap'.fanout
        BY <1>5 DEF TypeOK
      <4> QED BY <4>2, <4>3
    <3>2. CASE Begun(t)
      <4>1. Working(t) /\ fanout'[Key(t)] >= fanout[Key(t)]
        BY <2>2, <3>2
      <4>2. Cardinality(Asked(t)) <= fanout[Key(t)]
        BY <4>1 DEF Tallied, FanoutTallied
      <4>3. fanout'[Key(t)] \in Int /\ fanout[Key(t)] \in Int
        <5>1. fanout'[Key(t)] \in 0..cap'.fanout /\ fanout[Key(t)] \in 0..cap.fanout
          BY <1>5 DEF TypeOK, Typed
        <5> QED BY <5>1
      <4>4. Cardinality(Asked(t)) \in Nat
        BY <1>2, CountsFinite
      <4> QED BY <4>1, <4>2, <4>3, <4>4
    <3> QED BY <3>1, <3>2
  <2> QED BY <2>1, <2>2
<1>7. TreeTallied'
  <2> SUFFICES ASSUME NEW r \in Runs, Working(r)', ~Overlapping(r)
               PROVE  Cardinality(Grown(r)') <= tree'[Id[r]]
    BY DEF TreeTallied, Overlapping
  <2>1. Grown(r)' \in SUBSET Grown(r)
    BY DEF Grown
  <2>2. IsFiniteSet(Grown(r)) /\ Cardinality(Grown(r)) \in Nat
    BY <1>2, CountsFinite
  <2>3. Cardinality(Grown(r)') <= Cardinality(Grown(r)) /\ Cardinality(Grown(r)') \in Nat
    <3>1. IsFiniteSet(Grown(r)') /\ Cardinality(Grown(r)') <= Cardinality(Grown(r))
      BY <2>1, <2>2, FS_Subset
    <3> QED BY <3>1, FS_CardinalityType
  <2>4. tree'[Id[r]] \in Nat /\ tree[Id[r]] \in Nat
    <3>1. tree'[Id[r]] \in 0..cap'.total /\ tree[Id[r]] \in 0..cap.total
      BY KidsApart DEF TypeOK, Typed
    <3> QED BY <3>1
  <2>5. CASE ~Begun(r)
    <3>1. Grown(r) = {}
      BY <2>5 DEF Tallied, Parented, Grown, Used, Spawned
    <3>2. Cardinality(Grown(r)) = 0
      BY <3>1, FS_EmptySet
    <3> QED BY <2>3, <2>4, <3>2
  <2>6. CASE Begun(r)
    <3>1. Working(r) /\ tree'[Id[r]] >= tree[Id[r]]
      BY <2>6
    <3>2. Cardinality(Grown(r)) <= tree[Id[r]]
      BY <3>1 DEF Tallied, TreeTallied
    <3> QED BY <2>2, <2>3, <2>4, <3>1, <3>2
  <2> QED BY <2>5, <2>6
<1> QED BY <1>1, <1>2, <1>3, <1>6, <1>7 DEF Tallied

LEMMA NextTallied == Typed /\ Tallied /\ [Next]_vars => Tallied'
<1> SUFFICES ASSUME Typed, Tallied, [Next]_vars PROVE Tallied'
  OBVIOUS
<1>t. TypeOK /\ Rooted /\ TypeOK' /\ Typed'
  BY NextTyped DEF Typed
<1>i. IsFiniteSet(Used) /\ Parented /\ Exclusive /\ FanoutTallied /\ TreeTallied
  BY DEF Tallied
<1>r. /\ \A r \in Runs : r \in Tasks /\ r \notin Kids /\ Id[r] \in Ids /\ Id[r] \in Keys /\ Key(r) = Id[r]
      /\ \A k \in Kids : k \in Tasks /\ k \notin Runs /\ k \in Keys /\ Key(k) = k
      /\ \A r \in Runs, k \in Kids : Id[r] # k
      /\ \A t \in Tasks : (t \in Runs \/ t \in Kids) /\ Key(t) \in Keys
  BY KidsApart, KeyTyped DEF Tasks, Keys
<1>c. /\ \A x \in Keys : fanout[x] \in Nat
      /\ \A x \in Ids : tree[x] \in Nat
  BY <1>t, CapsTyped DEF TypeOK
<1>1. ASSUME NEW r \in Runs, Setup(r) PROVE Tallied'
  <2>1. /\ stage[r] = "new" /\ UNCHANGED <<cap, by, root, fanout, tree>>
        /\ shadowed \subseteq shadowed'
        /\ \A q \in Runs : Id[q] = Id[r] /\ Unwinding(q) => r \in shadowed'
    BY <1>1 DEF Setup, delegation
  <2>2. stage'[r] = "running" /\ \A t \in Tasks \ {r} : stage'[t] = stage[t]
    BY <1>1, <1>t, <1>r, GotoTyped DEF Setup
  <2>3. Exclusive'
    <3> SUFFICES ASSUME NEW p \in Runs, NEW q \in Runs, p # q, Id[p] = Id[q],
                        Unwinding(p)', Unwinding(q)'
                 PROVE  p \in shadowed' \/ q \in shadowed'
      BY DEF Exclusive
    <3>1. CASE p = r
      BY <2>1, <2>2, <3>1, <1>r DEF Unwinding
    <3>2. CASE q = r
      BY <2>1, <2>2, <3>2, <1>r DEF Unwinding
    <3>3. CASE p # r /\ q # r
      BY <2>1, <2>2, <3>3, <1>r, <1>i DEF Unwinding, Exclusive
    <3> QED BY <3>1, <3>2, <3>3
  <2>4. \A t \in Tasks : (Begun(t) => Begun(t)') /\ (Working(t)' => ~Begun(t) \/ Working(t))
    BY <2>1, <2>2 DEF Begun, Working
  <2>5. \A k \in Kids : stage'[k] = stage[k] /\ (Spawned(k)' => Spawned(k))
    BY <2>2, <1>r DEF Spawned
  <2>6. /\ \A t \in Tasks : fanout'[Key(t)] >= fanout[Key(t)]
        /\ \A q \in Runs : tree'[Id[q]] >= tree[Id[q]]
    <3>1. \A x \in Keys : fanout[x] \in 0..cap.fanout
      BY <1>t DEF TypeOK
    <3>2. \A x \in Ids : tree[x] \in 0..cap.total
      BY <1>t DEF TypeOK
    <3> QED BY <2>1, <3>1, <3>2, <1>r
  <2> QED BY <2>1, <2>3, <2>4, <2>5, <2>6, <1>t, <1>r, TalliesKept
<1>2. ASSUME NEW t \in Tasks, NEW place, Goto(t, place), stage[t] # "new", place # "new",
             place \in {"prepared", "refused", "returned", "running", "announcing", "done"},
             Begun(t) => place \in {"returned", "announcing", "done"},
             t \in Runs => stage[t] = "running" /\ place = "returned",
             t \in Kids => /\ place # "returned" /\ (place = "prepared" => FALSE)
                           /\ (place \in {"running", "announcing", "done"} => Spawned(t)),
             UNCHANGED <<cap, shadowed, by, root>>,
             \A x \in Keys : (x = t /\ t \in Kids) \/ fanout'[x] >= fanout[x],
             \A x \in Ids : tree'[x] >= tree[x]
      PROVE  Tallied'
  <2>1. stage'[t] = place /\ \A u \in Tasks \ {t} : stage'[u] = stage[u]
    BY <1>2, <1>t, GotoTyped
  <2>2. Exclusive'
    BY <1>2, <2>1, <1>r, <1>i DEF Exclusive, Unwinding
  <2>3. \A u \in Tasks : Begun(u) => Begun(u)'
    BY <1>2, <2>1 DEF Begun
  <2>4. \A u \in Tasks : Working(u)' => ~Begun(u) \/ (Working(u) /\ (u \in Kids => u # t))
    BY <1>2, <2>1, <1>r DEF Begun, Working
  <2>5. \A k \in Kids : (stage'[k] = "new" <=> stage[k] = "new") /\ (Spawned(k)' => Spawned(k))
    BY <1>2, <2>1, <1>r DEF Spawned
  <2>6. \A u \in Tasks : Working(u)' => ~Begun(u) \/ (Working(u) /\ fanout'[Key(u)] >= fanout[Key(u)])
    BY <1>2, <2>4, <1>r
  <2> QED BY <1>2, <2>2, <2>3, <2>5, <2>6, <2>4, <1>t, <1>r, TalliesKept
<1>3. ASSUME NEW r \in Runs, LoopReturns(r) PROVE Tallied'
  <2>1. /\ Goto(r, "returned") /\ stage[r] = "running"
        /\ UNCHANGED <<cap, shadowed, by, root, fanout, tree>>
    BY <1>3 DEF LoopReturns, delegation
  <2>2. (\A x \in Keys : fanout'[x] >= fanout[x]) /\ (\A x \in Ids : tree'[x] >= tree[x])
    BY <2>1, <1>c
  <2> QED BY <2>1, <2>2, <1>2, <1>r
<1>4. ASSUME NEW k \in Kids, RefuseTree(k) \/ TakeTree(k, FALSE) \/ SpawnHalted(k) \/ Spawn(k)
                             \/ KidReturns(k) \/ Announce(k)
      PROVE  Tallied'
  <2>1. UNCHANGED <<cap, shadowed, by, root>>
    BY <1>4 DEF RefuseTree, TakeTree, SpawnHalted, Spawn, KidReturns, Announce, delegation
  <2>2. \A x \in Keys : x = k \/ fanout'[x] >= fanout[x]
    BY <1>4, <1>c, <1>t DEF RefuseTree, TakeTree, SpawnHalted, Spawn, KidReturns, Announce,
                            delegation, TypeOK
  <2>3. \A x \in Ids : tree'[x] >= tree[x]
    <3>1. CASE TakeTree(k, FALSE)
      <4>1. ASSUME NEW x \in Ids PROVE tree'[x] >= tree[x]
        <5>1. tree[x] \in Nat BY <1>c
        <5>2. tree'[x] = IF x = TreeKey(k) THEN tree[x] + 1 ELSE tree[x]
          BY <3>1 DEF TakeTree
        <5> QED BY <5>1, <5>2
      <4> QED BY <4>1
    <3>2. CASE ~TakeTree(k, FALSE)
      <4>1. tree' = tree
        BY <1>4, <3>2 DEF RefuseTree, SpawnHalted, Spawn, KidReturns, Announce, delegation
      <4>2. ASSUME NEW x \in Ids PROVE tree'[x] >= tree[x]
        <5>1. tree[x] \in Nat BY <1>c
        <5> QED BY <4>1, <5>1
      <4> QED BY <4>2
    <3> QED BY <3>1, <3>2
  <2>4. CASE stage[k] \in {"fanned", "prepared"} /\ Goto(k, "refused")
    BY <2>1, <2>2, <2>3, <2>4, <1>2, <1>r DEF Begun
  <2>5. CASE stage[k] = "prepared" /\ Goto(k, "running")
    BY <2>1, <2>2, <2>3, <2>5, <1>2, <1>r DEF Begun, Spawned
  <2>6. CASE stage[k] = "running" /\ Goto(k, "announcing")
    BY <2>1, <2>2, <2>3, <2>6, <1>2, <1>r DEF Begun, Spawned
  <2>7. CASE stage[k] = "announcing" /\ Goto(k, "done")
    BY <2>1, <2>2, <2>3, <2>7, <1>2, <1>r DEF Begun, Spawned
  <2> QED
    BY <1>4, <2>4, <2>5, <2>6, <2>7
       DEF RefuseTree, TakeTree, SpawnHalted, Spawn, MaySpawn, KidReturns, Announce
<1>5. ASSUME NEW r \in Runs, Cleanup(r) PROVE Tallied'
  <2>1. /\ stage[r] = "returned" /\ UNCHANGED <<cap, shadowed, by, root>>
        /\ \A x \in Keys \ {Id[r]} : fanout'[x] = fanout[x]
        /\ \A x \in Ids \ {Id[r]} : tree'[x] = tree[x]
    BY <1>5, <1>t DEF Cleanup, TypeOK
  <2>2. stage'[r] = "done" /\ \A t \in Tasks \ {r} : stage'[t] = stage[t]
    BY <1>5, <1>t, <1>r, GotoTyped DEF Cleanup
  <2>3. Exclusive'
    BY <2>1, <2>2, <1>r, <1>i DEF Exclusive, Unwinding
  <2>4. \A t \in Tasks : (Begun(t) => Begun(t)') /\ (Working(t)' => t # r /\ Working(t))
    BY <2>1, <2>2 DEF Begun, Working
  <2>5. \A k \in Kids : stage'[k] = stage[k] /\ (Spawned(k)' => Spawned(k))
    BY <2>2, <1>r DEF Spawned
  <2>6. \A q \in Runs : Working(q)' /\ ~Overlapping(q) => Id[q] # Id[r]
    <3> SUFFICES ASSUME NEW q \in Runs, Working(q)', Id[q] = Id[r] PROVE Overlapping(q)
      OBVIOUS
    <3>1. q # r /\ Working(q) BY <2>4, <1>r
    <3>2. Unwinding(q) /\ Unwinding(r) BY <2>1, <3>1 DEF Working, Unwinding
    <3>3. q \in shadowed \/ r \in shadowed BY <3>1, <3>2, <1>i DEF Exclusive
    <3> QED BY <3>3 DEF Overlapping
  <2>7. \A t \in Tasks : Working(t)' /\ Alone(t) => Key(t) # Id[r]
    BY <2>6, <1>r DEF Alone
  <2>8. /\ \A t \in Tasks : Working(t)' /\ Alone(t) => Working(t) /\ fanout'[Key(t)] >= fanout[Key(t)]
        /\ \A q \in Runs : Working(q)' /\ ~Overlapping(q) => Working(q) /\ tree'[Id[q]] >= tree[Id[q]]
    <3>1. \A t \in Tasks : Working(t)' /\ Alone(t) =>
             Working(t) /\ fanout'[Key(t)] = fanout[Key(t)] /\ fanout[Key(t)] \in Int
      BY <2>1, <2>4, <2>7, <1>c, <1>r
    <3>2. \A q \in Runs : Working(q)' /\ ~Overlapping(q) =>
             Working(q) /\ tree'[Id[q]] = tree[Id[q]] /\ tree[Id[q]] \in Int
      BY <2>1, <2>4, <2>6, <1>c, <1>r
    <3> QED BY <3>1, <3>2
  <2> QED BY <2>1, <2>3, <2>4, <2>5, <2>8, <1>t, <1>r, TalliesKept
<1>6. ASSUME NEW t \in Tasks, NEW k \in Kids, TakeFanout(t, k) PROVE Tallied'
  <2>1. /\ stage[t] = "running" /\ stage[k] = "new" /\ t # k
        /\ fanout[Key(t)] < cap.fanout /\ fanout' = [fanout EXCEPT ![Key(t)] = @ + 1]
        /\ by' = [by EXCEPT ![k] = t]
        /\ root' = [root EXCEPT ![k] = IF t \in Runs THEN t ELSE root[t]]
        /\ UNCHANGED <<cap, tree, shadowed>>
    BY <1>6 DEF TakeFanout
  <2>2. stage'[k] = "fanned" /\ \A u \in Tasks \ {k} : stage'[u] = stage[u]
    BY <1>6, <1>t, <1>r, GotoTyped DEF TakeFanout
  <2>3. by'[k] = t /\ \A j \in Kids \ {k} : by'[j] = by[j] /\ root'[j] = root[j]
    BY <2>1, <1>t DEF TypeOK
  <2>4. k \notin Used /\ Used' = Used \cup {k}
    BY <2>1, <2>2, <1>r DEF Used
  <2>5. IsFiniteSet(Used')
    BY <2>4, <1>i, FS_AddElement
  <2>6. root'[k] \in Tasks /\ root'[k] # k /\ Begun(root'[k])
    <3>1. root'[k] = IF t \in Runs THEN t ELSE root[t] BY <2>1, <1>t DEF TypeOK
    <3>2. CASE t \in Runs BY <3>1, <3>2, <2>1, <1>r DEF Begun
    <3>3. CASE t \in Kids
      <4>1. t \in Used BY <3>3, <2>1 DEF Used
      <4>2. root[t] \in Runs /\ Begun(root[t]) BY <3>3, <4>1, <1>t, <1>i DEF Rooted, Used, Parented
      <4> QED BY <3>1, <3>3, <4>2, <1>r
    <3> QED BY <3>2, <3>3, <1>r
  <2>7. Parented'
    <3> SUFFICES ASSUME NEW j \in Used' PROVE Begun(by[j])' /\ Begun(root[j])'
      BY DEF Parented
    <3>1. CASE j = k
      <4>1. stage'[t] = "running" /\ stage'[root'[k]] = stage[root'[k]] BY <2>1, <2>2, <2>6
      <4> QED BY <3>1, <4>1, <2>3, <2>6 DEF Begun
    <3>2. CASE j # k
      <4>1. j \in Used /\ j \in Kids BY <3>2, <2>4 DEF Used
      <4>2. Begun(by[j]) /\ Begun(root[j]) /\ by[j] \in Tasks /\ root[j] \in Tasks
        BY <4>1, <1>i, <1>t, <1>r DEF Parented, Rooted, Used
      <4>3. by[j] # k /\ root[j] # k BY <4>2, <2>1 DEF Begun
      <4> QED BY <3>2, <4>1, <4>2, <4>3, <2>2, <2>3 DEF Begun
    <3> QED BY <3>1, <3>2
  <2>8. Exclusive'
    BY <2>1, <2>2, <1>r, <1>i DEF Exclusive, Unwinding
  <2>9. \A u \in Tasks : Asked(u)' = IF u = t THEN Asked(t) \cup {k} ELSE Asked(u)
    BY <2>3, <2>4 DEF Asked, Used
  <2>10. \A u \in Tasks : Working(u)' <=> Working(u)
    BY <2>1, <2>2 DEF Working
  <2>11. \A u \in Tasks : Alone(u)' <=> Alone(u)
    BY <2>1 DEF Alone, Overlapping
  <2>12. /\ fanout'[Key(t)] = fanout[Key(t)] + 1
         /\ \A x \in Keys : fanout[x] \in Nat /\ fanout'[x] \in Nat /\ fanout'[x] >= fanout[x]
    BY <2>1, <1>c, <1>r, <1>t DEF TypeOK
  <2>13. FanoutTallied'
    <3> SUFFICES ASSUME NEW u \in Tasks, Alone(u)
                 PROVE  /\ Cardinality(Asked(u)') <= cap.fanout
                        /\ Working(u) => Cardinality(Asked(u)') <= fanout'[Key(u)]
      BY <2>1, <2>10, <2>11 DEF FanoutTallied, Key
    <3>1. Cardinality(Asked(u)) \in Nat /\ IsFiniteSet(Asked(u)) /\ Key(u) \in Keys
      BY <1>i, <1>r, CountsFinite
    <3>2. /\ Cardinality(Asked(u)) <= cap.fanout
          /\ Working(u) => Cardinality(Asked(u)) <= fanout[Key(u)]
      BY <1>i DEF FanoutTallied
    <3>3. CASE u = t
      <4>1. Cardinality(Asked(u)') = Cardinality(Asked(u)) + 1
        <5>1. k \notin Asked(t) BY <2>4 DEF Asked
        <5>2. Asked(u)' = Asked(u) \cup {k} BY <2>9, <3>3
        <5> QED BY <3>1, <3>3, <5>1, <5>2, FS_AddElement
      <4>2. Working(u) BY <2>1, <3>3 DEF Working
      <4>3. fanout[Key(u)] < cap.fanout /\ fanout'[Key(u)] = fanout[Key(u)] + 1
            /\ fanout[Key(u)] \in Nat /\ cap.fanout \in Nat
        BY <2>1, <2>12, <3>1, <3>3, <1>t, CapsTyped
      <4> QED BY <3>1, <3>2, <4>1, <4>2, <4>3
    <3>4. CASE u # t
      <4>1. Asked(u)' = Asked(u) BY <2>9, <3>4
      <4> QED BY <3>1, <3>2, <4>1, <2>12
    <3> QED BY <3>3, <3>4
  <2>14. \A r : Grown(r)' = Grown(r)
    BY <2>1, <2>2, <2>3, <1>r DEF Grown, Spawned
  <2>15. TreeTallied'
    BY <2>1, <2>10, <2>14, <1>r, <1>i DEF TreeTallied, Overlapping
  <2> QED BY <2>5, <2>7, <2>8, <2>13, <2>15 DEF Tallied
<1>7. ASSUME NEW k \in Kids, TakeTree(k, TRUE) PROVE Tallied'
  <2>1. /\ stage[k] = "fanned" /\ UNCHANGED <<cap, shadowed, by, root, fanout>>
        /\ tree' = [x \in Ids |-> IF x = Id[root[k]] THEN tree[x] + 1 ELSE tree[x]]
    BY <1>7 DEF TakeTree, TreeKey
  <2>2. stage'[k] = "prepared" /\ \A u \in Tasks \ {k} : stage'[u] = stage[u]
    BY <1>7, <1>t, <1>r, GotoTyped DEF TakeTree
  <2>3. Used' = Used /\ k \in Used
    BY <2>1, <2>2, <1>r DEF Used
  <2>4. /\ \A u \in Tasks : (Working(u)' <=> Working(u)) /\ (Begun(u) => Begun(u)')
        /\ \A q \in Runs : Unwinding(q)' <=> Unwinding(q)
    BY <2>1, <2>2, <1>r DEF Working, Begun, Unwinding
  <2>5. \A u : Asked(u)' = Asked(u)
    BY <2>1, <2>3 DEF Asked
  <2>6. Parented'
    <3>1. \A j \in Used : by[j] \in Tasks /\ root[j] \in Tasks
      BY <1>t, <1>r DEF Used, Rooted
    <3> QED BY <2>1, <2>3, <2>4, <3>1, <1>i DEF Parented, Begun
  <2>7. Exclusive'
    BY <2>1, <2>4, <1>i DEF Exclusive
  <2>8. \A u \in Tasks : Alone(u)' <=> Alone(u)
    BY <2>1 DEF Alone, Overlapping
  <2>9. FanoutTallied'
    BY <2>1, <2>4, <2>5, <2>8, <1>i DEF FanoutTallied, Key
  <2>10. \A r \in Runs : Grown(r)' = IF r = root[k] THEN Grown(r) \cup {k} ELSE Grown(r)
    BY <2>1, <2>2, <1>r DEF Grown, Spawned
  <2>11. TreeTallied'
    <3> SUFFICES ASSUME NEW r \in Runs, Working(r), ~Overlapping(r)
                 PROVE  Cardinality(Grown(r)') <= tree'[Id[r]]
      BY <2>1, <2>4, <1>r DEF TreeTallied, Overlapping
    <3>1. IsFiniteSet(Grown(r)) /\ Cardinality(Grown(r)) \in Nat
      BY <1>i, CountsFinite
    <3>2. Cardinality(Grown(r)) <= tree[Id[r]] /\ tree[Id[r]] \in Nat /\ Id[r] \in Ids
      BY <1>i, <1>c, <1>r DEF TreeTallied
    <3>3. CASE r = root[k]
      <4>1. Cardinality(Grown(r)') <= Cardinality(Grown(r)) + 1 /\ Cardinality(Grown(r)') \in Nat
        <5>1. Grown(r)' = Grown(r) \cup {k} BY <2>10, <3>3
        <5>2. IsFiniteSet(Grown(r)')
              /\ (Cardinality(Grown(r)') = Cardinality(Grown(r))
                  \/ Cardinality(Grown(r)') = Cardinality(Grown(r)) + 1)
          BY <3>1, <5>1, FS_AddElement
        <5> QED BY <3>1, <5>2
      <4>2. tree'[Id[r]] = tree[Id[r]] + 1 BY <2>1, <3>2, <3>3
      <4> QED BY <3>1, <3>2, <4>1, <4>2
    <3>4. CASE r # root[k]
      <4>1. Grown(r)' = Grown(r) BY <2>10, <3>4
      <4>2. tree'[Id[r]] >= tree[Id[r]] /\ tree'[Id[r]] \in Nat BY <2>1, <3>2
      <4> QED BY <3>1, <3>2, <4>1, <4>2
    <3> QED BY <3>3, <3>4
  <2> QED BY <2>3, <2>6, <2>7, <2>9, <2>11, <1>i DEF Tallied
<1>8. ASSUME \/ \E k \in Kids : Collect(k)
             \/ Halt \/ Resume \/ Settle \/ (\E x \in Keys : CancelRun(x)) \/ UNCHANGED vars
      PROVE  Tallied'
  <2>1. UNCHANGED <<cap, stage, by, root, fanout, tree, shadowed>>
    BY <1>8 DEF Collect, Halt, Resume, Settle, CancelRun, vars, delegation
  <2> QED
    BY <2>1, <1>i DEF Tallied, Used, Parented, Begun, Exclusive, Unwinding, FanoutTallied, Asked,
                     Working, Alone, Overlapping, Key, TreeTallied, Grown, Spawned
<1> QED
  BY <1>1, <1>3, <1>4, <1>5, <1>6, <1>7, <1>8 DEF Next
-----------------------------------------------------------------------------
\* Every variable keeps its type: no cap is ever exceeded by its own tally.
THEOREM TypeCorrect == Spec => []TypeOK
<1>1. Spec => []Typed
  BY InitTyped, NextTyped, PTL DEF Spec
<1>2. Typed => TypeOK
  BY DEF Typed
<1> QED BY <1>1, <1>2, PTL

\* No task is beyond the reach of Halt and CancelRun, whatever ids callers
\* choose and whenever they cancel, halt and resume (state.go:140-145).
THEOREM AlwaysReachable == Spec => []Reachable
<1>1. Spec => [](Typed /\ InReach)
  BY InitTyped, NextTyped, InitInReach, NextInReach, PTL DEF Spec
<1>2. InReach => Reachable
  BY DEF InReach, Registration, Steered, Working, Reachable
<1> QED BY <1>1, <1>2, PTL

\* When the drain has settled nothing works any more and nothing starts, for
\* any number of runs and sub-agents (state.go:180-183).
THEOREM SettledAlwaysQuiet == Spec => []SettledQuiet
<1>1. Spec => [](Typed /\ Drained)
  BY InitTyped, NextTyped, InitDrained, NextDrained, PTL DEF Spec
<1>2. Drained => SettledQuiet
  BY DEF Drained, SettledQuiet
<1> QED BY <1>1, <1>2, PTL

\* A spawn does not outlive its tree, whatever the shape of the tree.
THEOREM KidsAlwaysSwept == Spec => []KidsSwept
<1>1. Spec => [](Typed /\ InTree)
  BY InitTyped, NextTyped, InitInTree, NextInTree, PTL DEF Spec
<1>2. InTree => KidsSwept
  BY DEF InTree
<1> QED BY <1>1, <1>2, PTL

\* No spawner ever has more sub-agents than its fan-out, no tree more than its
\* total, whatever is refused, returned or collected in between
\* (prep.go:122-149).
THEOREM CapsAlwaysHold == Spec => []CapsHold
<1>1. Spec => [](Typed /\ Tallied)
  BY InitTyped, NextTyped, InitTallied, NextTallied, PTL DEF Spec
<1>2. Typed /\ Tallied => CapsHold
  <2> SUFFICES ASSUME Typed, Tallied PROVE CapsHold
    OBVIOUS
  <2>1. IsFiniteSet(Used) /\ cap.fanout \in Nat /\ cap.total \in Nat
    BY CapsTyped DEF Tallied, Typed
  <2>2. ASSUME NEW t \in Tasks, Alone(t)
        PROVE  Cardinality({k \in Kids : by[k] = t /\ Spawned(k)}) <= cap.fanout
    <3> DEFINE S == {k \in Kids : by[k] = t /\ Spawned(k)}
    <3>1. S \in SUBSET Asked(t)
      BY DEF Asked, Used, Spawned
    <3>2. IsFiniteSet(Asked(t)) /\ Cardinality(Asked(t)) \in Nat
      BY <2>1, CountsFinite
    <3>3. Cardinality(S) <= Cardinality(Asked(t)) /\ Cardinality(S) \in Nat
      <4>1. IsFiniteSet(S) /\ Cardinality(S) <= Cardinality(Asked(t))
        BY <3>1, <3>2, FS_Subset
      <4> QED BY <4>1, FS_CardinalityType
    <3>4. Cardinality(Asked(t)) <= cap.fanout
      BY <2>2 DEF Tallied, FanoutTallied
    <3> QED BY <2>1, <3>2, <3>3, <3>4
  <2>3. ASSUME NEW r \in Runs, stage[r] \in {"running", "returned"}, ~Overlapping(r)
        PROVE  Cardinality(Grown(r)) <= cap.total
    <3>1. Cardinality(Grown(r)) <= tree[Id[r]]
      BY <2>3 DEF Tallied, TreeTallied, Working
    <3>2. tree[Id[r]] \in 0..cap.total
      BY KidsApart DEF Typed, TypeOK
    <3>3. Cardinality(Grown(r)) \in Nat
      BY <2>1, CountsFinite
    <3> QED BY <2>1, <3>1, <3>2, <3>3
  <2> QED BY <2>2, <2>3 DEF CapsHold, Alone, Grown
<1> QED BY <1>1, <1>2, PTL

----------------------------------------------------------------------------
(***************************************************************************)
(* The steering of one run.                                                *)
(***************************************************************************)

\* A loop that is parked and not woken has seen the control as it is: every
\* operation that changes it broadcasts (Control.Wait, Pause, Resume, Step).
THEOREM ParkedAlwaysKnows == SteeringSpec => []ParkedKnows
<1>1. SteeringInit => ParkedKnows
  BY DEF SteeringInit, ParkedKnows
<1>2. ParkedKnows /\ [SteeringNext]_steering => ParkedKnows'
  <2> SUFFICES ASSUME ParkedKnows, [SteeringNext]_steering, loop' = "parked", ~woken'
               PROVE  paused' /\ ~stepOnce' /\ armed' = until'
    BY DEF ParkedKnows
  <2>1. CASE Evaluate
    BY <2>1 DEF Evaluate, control
  <2>2. CASE LeavePark \/ Drain \/ RoundEnds
    BY <2>2 DEF LeavePark, Drain, RoundEnds
  <2>3. ASSUME NEW t, PauseFor(t), loop' = loop
        PROVE  paused' /\ ~stepOnce' /\ armed' = until'
    BY <2>3 DEF PauseFor, Broadcast, ParkedKnows, control
  <2>4. CASE Pause
    BY <2>3, <2>4 DEF Pause
  <2>5. CASE ResumeLoop \/ Step
    BY <2>5 DEF ResumeLoop, Step, Broadcast
  <2>6. CASE UNCHANGED <<control, parking, loop>>
    BY <2>6 DEF ParkedKnows, control, parking
  <2>7. ASSUME NEW c \in Calls, Apply(c)
        PROVE  paused' /\ ~stepOnce' /\ armed' = until'
    <3>1. CASE Primitive[c] = "halt"
      BY <2>3, <2>7, <3>1 DEF Apply
    <3>2. CASE Primitive[c] # "halt"
      BY <2>6, <2>7, <3>2 DEF Apply
    <3> QED BY <3>1, <3>2
  <2>8. ASSUME NEW c \in Calls, Lookup(c) \/ Remember(c)
        PROVE  UNCHANGED <<control, parking, loop>>
    BY <2>8 DEF Lookup, Remember
  <2> QED
    BY <2>1, <2>2, <2>4, <2>5, <2>6, <2>7, <2>8 DEF SteeringNext, End, Tick, steering
<1> QED BY <1>1, <1>2, PTL DEF SteeringSpec

CallsTyped ==
    /\ phase \in [Calls -> {"idle", "looked", "acted", "answered"}]
    /\ applied \in [KeysUsed -> Nat]

\* A key of which no two calls ever overlapped has at most one call under way.
\* One that is about to apply finds the key unapplied; one that has applied is
\* still there to remember the result, until the result is remembered.
OnceEach == \A k \in KeysUsed \ overlapping :
    /\ \A c, d \in Calls :
          (/\ KeyOf[c] = k /\ phase[c] \in {"looked", "acted"}
           /\ KeyOf[d] = k /\ phase[d] \in {"looked", "acted"}) => c = d
    /\ \A c \in Calls : (KeyOf[c] = k /\ phase[c] = "looked") => applied[k] = 0
    /\ applied[k] = 0
         \/ (applied[k] = 1
               /\ (k \in results \/ \E c \in Calls : KeyOf[c] = k /\ phase[c] = "acted"))

\* An intervention is applied once, however often it is retried, unless a call
\* of its key began before another was answered (Service.Intervene).
THEOREM AlwaysAppliedOnce == SteeringSpec => []AppliedOnce
<1>1. SteeringInit => CallsTyped /\ OnceEach
  BY DEF SteeringInit, CallsTyped, OnceEach, KeysUsed
<1>2. CallsTyped /\ OnceEach /\ [SteeringNext]_steering => CallsTyped' /\ OnceEach'
  <2> SUFFICES ASSUME CallsTyped, OnceEach, [SteeringNext]_steering
               PROVE  CallsTyped' /\ OnceEach'
    OBVIOUS
  <2>1. ASSUME UNCHANGED calls PROVE CallsTyped' /\ OnceEach'
    BY <2>1 DEF calls, CallsTyped, OnceEach
  <2>2. ASSUME NEW c \in Calls, Lookup(c)
        PROVE  CallsTyped' /\ OnceEach'
    <3> DEFINE k == KeyOf[c]
    <3>1. /\ k \in KeysUsed /\ phase[c] = "idle"
          /\ phase'[c] = "answered" \/ (phase'[c] = "looked" /\ k \notin results)
          /\ \A d \in Calls \ {c} : phase'[d] = phase[d]
          /\ UNCHANGED <<results, applied>>
      BY <2>2 DEF Lookup, KeysUsed, CallsTyped
    <3>2. overlapping' = IF UnderWay(k) THEN overlapping \cup {k} ELSE overlapping
      BY <2>2 DEF Lookup
    <3>3. CallsTyped'
      BY <2>2 DEF Lookup, CallsTyped
    <3>4. ASSUME NEW l \in KeysUsed \ overlapping'
          PROVE  /\ l = k => \A d \in Calls : KeyOf[d] = k => phase[d] \notin {"looked", "acted"}
                 /\ l \notin overlapping
      BY <3>2 DEF UnderWay
    <3>5. OnceEach'
      BY <3>1, <3>4 DEF OnceEach
    <3> QED BY <3>3, <3>5
  <2>3. ASSUME NEW c \in Calls, Apply(c)
        PROVE  CallsTyped' /\ OnceEach'
    <3> DEFINE k == KeyOf[c]
    <3>1. /\ k \in KeysUsed /\ phase[c] = "looked" /\ phase'[c] = "acted"
          /\ \A d \in Calls \ {c} : phase'[d] = phase[d]
          /\ applied'[k] = applied[k] + 1
          /\ \A l \in KeysUsed \ {k} : applied'[l] = applied[l]
          /\ UNCHANGED <<results, overlapping>>
      BY <2>3 DEF Apply, KeysUsed, CallsTyped
    <3>2. CallsTyped'
      BY <2>3, <3>1 DEF Apply, CallsTyped
    <3>3. OnceEach'
      BY <3>1 DEF OnceEach
    <3> QED BY <3>2, <3>3
  <2>4. ASSUME NEW c \in Calls, Remember(c)
        PROVE  CallsTyped' /\ OnceEach'
    <3> DEFINE k == KeyOf[c]
    <3>1. /\ phase[c] = "acted" /\ phase'[c] = "answered"
          /\ \A d \in Calls \ {c} : phase'[d] = phase[d]
          /\ results' = results \cup {k}
          /\ UNCHANGED <<applied, overlapping>>
      BY <2>4 DEF Remember, CallsTyped
    <3>2. CallsTyped'
      BY <2>4 DEF Remember, CallsTyped
    <3>3. OnceEach'
      BY <3>1 DEF OnceEach
    <3> QED BY <3>2, <3>3
  <2> QED
    BY <2>1, <2>2, <2>3, <2>4 DEF SteeringNext, steering, Evaluate, LeavePark, Drain, RoundEnds,
       Pause, ResumeLoop, Step, End, Tick
<1>3. CallsTyped /\ OnceEach => AppliedOnce
  BY DEF CallsTyped, OnceEach, AppliedOnce
<1> QED BY <1>1, <1>2, <1>3, PTL DEF SteeringSpec
============================================================================
