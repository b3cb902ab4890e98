------------------------ MODULE ProviderChain_proofs ------------------------
(***************************************************************************)
(* Theorems about the governor's provider calls, for any callers, any      *)
(* ladder of models, any budget scopes and any configuration.              *)
(***************************************************************************)
EXTENDS ProviderChain, FiniteSetTheorems, TLAPS

Places == {"idle", "rate", "budget", "call", "backoff", "bill", "close"}

\* The part of the type invariant about the callers, and the rest of it.
WalkTyped ==
  /\ pc \in [Callers -> Places]
  /\ model \in [Callers -> DOMAIN Route]
  /\ unchecked \in [Callers -> SUBSET Scopes]
  /\ \A c \in Callers : left[c] \subseteq DOMAIN Route[model[c]]
  /\ attempt \in [Callers -> 0..Retries]
  /\ emitted \in [Callers -> BOOLEAN] /\ heard \in [Callers -> BOOLEAN]

BreakerTyped ==
  /\ failures \in [Providers -> 0..config.threshold]
  /\ openCircuit \in [Providers -> BOOLEAN]
  /\ cooling \in [Providers -> 0..Cooldown]

LedgerTyped ==
  /\ spent \in [Scopes -> Nat]
  /\ ceiling \in [Scopes -> config.ceilings] /\ peak \in [Scopes -> Nat]
  /\ newDay \in BOOLEAN

\* left is a function too: without that EXCEPT says nothing of it.
Typed ==
  /\ config \in Configs /\ used \in 0..RateLimit
  /\ WalkTyped /\ left = [c \in Callers |-> left[c]] /\ BreakerTyped /\ LedgerTyped

LEMMA TypedParts == Typed => TypeOK
BY DEF Typed, WalkTyped, BreakerTyped, LedgerTyped, Places, TypeOK

LEMMA ConfigTyped ==
  Typed => /\ config.threshold \in Nat /\ config.ceilings \subseteq Nat
           /\ config.costs \subseteq 0..MaxCost /\ MaxCost \in Nat
BY ChainAssumption DEF Typed

LEMMA FirstModel == 1 \in DOMAIN Route
BY ChainAssumption
-----------------------------------------------------------------------------
LEMMA EndTyped ==
    ASSUME Typed, NEW c \in Callers, End(c)
    PROVE  WalkTyped' /\ (left = [d \in Callers |-> left[d]])'
<1>1. 0 \in 0..Retries
  BY ChainAssumption
<1> QED BY <1>1, FirstModel DEF Typed, WalkTyped, End, Goto, Places

LEMMA NextModelTyped ==
    ASSUME Typed, NEW c \in Callers, NextModel(c)
    PROVE  WalkTyped' /\ (left = [d \in Callers |-> left[d]])'
<1>1. CASE End(c)
  BY <1>1, EndTyped
<1>2. CASE ~End(c)
  <2>1. 0 \in 0..Retries
    BY ChainAssumption
  <2>2. model[c] \in DOMAIN Route /\ DOMAIN Route = 1..Len(Route) /\ Len(Route) \in Nat
    BY ChainAssumption DEF Typed, WalkTyped
  <2>3. model[c] + 1 \in DOMAIN Route
    BY <1>2, <2>2 DEF NextModel
  <2>4. /\ model' = [model EXCEPT ![c] = @ + 1] /\ pc' = [pc EXCEPT ![c] = "rate"]
        /\ left' = [left EXCEPT ![c] = {}] /\ attempt' = [attempt EXCEPT ![c] = 0]
        /\ unchecked' = unchecked /\ emitted' = emitted /\ heard' = heard
    BY <1>2 DEF NextModel, Goto
  <2>5. /\ pc' \in [Callers -> Places] /\ model' \in [Callers -> DOMAIN Route]
        /\ attempt' \in [Callers -> 0..Retries]
    BY <2>1, <2>3, <2>4 DEF Typed, WalkTyped, Places
  <2>6. \A d \in Callers : left'[d] \subseteq DOMAIN Route[model'[d]]
    BY <2>4 DEF Typed, WalkTyped
  <2>7. left' = [d \in Callers |-> left'[d]]
    BY <2>4 DEF Typed
  <2> QED BY <2>4, <2>5, <2>6, <2>7 DEF Typed, WalkTyped
<1> QED BY <1>1, <1>2

LEMMA CountFailureTyped ==
    ASSUME Typed, config' = config, NEW p, CountFailure(p)
    PROVE  BreakerTyped'
<1>t. config.threshold \in Nat /\ Cooldown \in Nat
  BY ConfigTyped, ChainAssumption
<1>1. CASE config.threshold = 0
  BY <1>1 DEF CountFailure, breaker, Typed, BreakerTyped
<1>2. CASE config.threshold # 0 /\ p \in Providers
  <2>1. failures[p] \in 0..config.threshold /\ openCircuit[p] \in BOOLEAN
    BY <1>2 DEF Typed, BreakerTyped
  <2> DEFINE reached == failures[p] + 1 >= config.threshold
  <2>2. /\ failures' = [failures EXCEPT ![p] = IF reached THEN config.threshold ELSE failures[p] + 1]
        /\ openCircuit' = [openCircuit EXCEPT ![p] = openCircuit[p] \/ reached]
        /\ cooling' = [cooling EXCEPT ![p] = IF reached THEN Cooldown ELSE cooling[p]]
    BY <1>2 DEF CountFailure
  <2>3. (IF reached THEN config.threshold ELSE failures[p] + 1) \in 0..config.threshold
    BY <1>t, <2>1
  <2>4. (openCircuit[p] \/ reached) \in BOOLEAN
    BY <2>1
  <2>5. Cooldown \in 0..Cooldown
    BY <1>t
  <2>6. failures' \in [Providers -> 0..config.threshold]
    BY <2>2, <2>3 DEF Typed, BreakerTyped
  <2>7. openCircuit' \in [Providers -> BOOLEAN]
    BY <2>2, <2>4 DEF Typed, BreakerTyped
  <2>8. cooling' \in [Providers -> 0..Cooldown]
    BY <2>2, <2>5 DEF Typed, BreakerTyped
  <2> QED BY <2>6, <2>7, <2>8 DEF BreakerTyped
<1>3. CASE config.threshold # 0 /\ p \notin Providers
  BY <1>3 DEF CountFailure, Typed, BreakerTyped
<1> QED BY <1>1, <1>2, <1>3

LEMMA RolloverTyped ==
    ASSUME Typed, config' = config, Rollover, NEW f \in [Scopes -> Nat], spent' = f
    PROVE  LedgerTyped'
BY ConfigTyped DEF Typed, LedgerTyped, Rollover

LEMMA TodayTyped == Typed => \A s \in Scopes : Today(s) \in Nat
BY DEF Typed, LedgerTyped, Today

LEMMA InitTyped == Init => Typed
<1> SUFFICES ASSUME Init PROVE Typed
  OBVIOUS
<1>1. 0 \in 0..Retries /\ 0 \in 0..RateLimit /\ 0 \in 0..Cooldown
  BY ChainAssumption
<1>2. config \in Configs /\ config.threshold \in Nat /\ config.ceilings \subseteq Nat
  BY ChainAssumption DEF Init
<1>3. 0 \in 0..config.threshold
  BY <1>2
<1>4. WalkTyped
  BY <1>1, FirstModel DEF Init, WalkTyped, Places
<1>5. BreakerTyped
  BY <1>1, <1>3 DEF Init, BreakerTyped
<1>6. LedgerTyped
  BY <1>2 DEF Init, LedgerTyped
<1> QED BY <1>1, <1>2, <1>4, <1>5, <1>6 DEF Init, Typed

\* What a step leaves alone keeps its part of the invariant.
LEMMA Frames ==
    ASSUME Typed, config' = config
    PROVE  /\ UNCHANGED breaker => BreakerTyped'
           /\ UNCHANGED ledger => LedgerTyped'
           /\ UNCHANGED used => (used \in 0..RateLimit)'
           /\ UNCHANGED <<pc, walk>> => WalkTyped' /\ (left = [c \in Callers |-> left[c]])'
BY DEF Typed, breaker, BreakerTyped, ledger, LedgerTyped, walk, WalkTyped

\* The caller goes elsewhere and keeps its place in the ladder.
LEMMA GotoTyped ==
    ASSUME Typed, NEW c \in Callers, NEW place \in Places, Goto(c, place),
           UNCHANGED <<model, emitted, heard>>,
           unchecked' \in [Callers -> SUBSET Scopes],
           left' = [d \in Callers |-> left'[d]],
           \A d \in Callers : left'[d] \subseteq DOMAIN Route[model[d]],
           attempt' \in [Callers -> 0..Retries]
    PROVE  WalkTyped' /\ (left = [d \in Callers |-> left[d]])'
BY DEF Typed, WalkTyped, Goto

LEMMA NextTyped == Typed /\ [Next]_vars => Typed'
<1> SUFFICES ASSUME Typed, [Next]_vars PROVE Typed'
  OBVIOUS
<1>c. config' = config
  BY DEF Next, vars
<1>k. config' \in Configs
  BY <1>c DEF Typed
<1>p. /\ \A x \in {"idle", "rate", "budget", "call", "backoff", "bill", "close"} : x \in Places
      /\ unchecked \in [Callers -> SUBSET Scopes] /\ attempt \in [Callers -> 0..Retries]
      /\ left = [d \in Callers |-> left[d]]
      /\ \A d \in Callers : left[d] \subseteq DOMAIN Route[model[d]]
  BY DEF Typed, WalkTyped, Places
<1>1. ASSUME NEW c \in Callers, Start(c) PROVE Typed'
  <2>1. WalkTyped' /\ (left = [d \in Callers |-> left[d]])'
    BY <1>1, <1>p DEF Start, Goto, walk, Typed, WalkTyped
  <2> QED BY <1>1, <1>c, <1>k, <2>1, Frames DEF Start, Typed
<1>2. ASSUME NEW c \in Callers, AdmitRate(c) PROVE Typed'
  <2>1. unchecked' \in [Callers -> SUBSET Scopes]
    BY <1>2, <1>p, ChainAssumption DEF AdmitRate
  <2>2. WalkTyped' /\ (left = [d \in Callers |-> left[d]])'
    BY <1>2, <1>p, <2>1, GotoTyped DEF AdmitRate
  <2>3. used' \in 0..RateLimit
    BY <1>2, ChainAssumption DEF AdmitRate, Typed
  <2> QED BY <1>2, <1>c, <1>k, <2>2, <2>3, Frames DEF AdmitRate, Typed
<1>3. ASSUME NEW c \in Callers, RefuseRate(c) PROVE Typed'
  BY <1>3, <1>c, <1>k, NextModelTyped, Frames DEF RefuseRate, Typed
<1>4. ASSUME NEW c \in Callers, NEW s \in Scopes, PassBudget(c, s) PROVE Typed'
  <2>1. unchecked' \in [Callers -> SUBSET Scopes]
    BY <1>4, <1>p DEF PassBudget
  <2>2. WalkTyped' /\ (left = [d \in Callers |-> left[d]])'
    BY <1>4, <2>1 DEF PassBudget, Typed, WalkTyped
  <2>3. LedgerTyped'
    BY <1>4, <1>c, TodayTyped, RolloverTyped, [t \in Scopes |-> Today(t)] \in [Scopes -> Nat] DEF PassBudget
  <2> QED BY <1>4, <1>c, <1>k, <2>2, <2>3, Frames DEF PassBudget, Typed
<1>5. ASSUME NEW c \in Callers, NEW s \in Scopes, RefuseBudget(c, s) PROVE Typed'
  <2>1. LedgerTyped'
    BY <1>5, <1>c, TodayTyped, RolloverTyped, [t \in Scopes |-> Today(t)] \in [Scopes -> Nat] DEF RefuseBudget
  <2> QED BY <1>5, <1>c, <1>k, <2>1, EndTyped, Frames DEF RefuseBudget, Typed
<1>6. ASSUME NEW c \in Callers, OpenChain(c) PROVE Typed'
  <2>1. left' = [d \in Callers |-> left'[d]] /\ \A d \in Callers : left'[d] \subseteq DOMAIN Route[model[d]]
    BY <1>6, <1>p DEF OpenChain, Allowed
  <2>2. WalkTyped' /\ (left = [d \in Callers |-> left[d]])'
    BY <1>6, <1>p, <2>1, GotoTyped DEF OpenChain
  <2> QED BY <1>6, <1>c, <1>k, <2>2, Frames DEF OpenChain, Typed
<1>7. ASSUME NEW c \in Callers, Answers(c) PROVE Typed'
  <2>1. WalkTyped' /\ (left = [d \in Callers |-> left[d]])'
    BY <1>7, <1>p, GotoTyped DEF Answers, walk
  <2> QED BY <1>7, <1>c, <1>k, <2>1, Frames DEF Answers, Typed
<1>8. ASSUME NEW c \in Callers, NEW speaks \in BOOLEAN, FailsTerminally(c, speaks) PROVE Typed'
  BY <1>8, <1>c, <1>k, EndTyped, Frames DEF FailsTerminally, Typed
<1>9. ASSUME NEW c \in Callers, NEW speaks \in BOOLEAN, FailsTransiently(c, speaks) PROVE Typed'
  <2>1. attempt' \in [Callers -> 0..Retries]
    BY <1>9, <1>p, ChainAssumption DEF FailsTransiently
  <2>2. emitted' \in [Callers -> BOOLEAN] /\ heard' \in [Callers -> BOOLEAN]
    BY <1>9 DEF FailsTransiently, Leaves, Typed, WalkTyped
  <2>3. WalkTyped' /\ (left = [d \in Callers |-> left[d]])'
    BY <1>9, <1>p, <2>1, <2>2 DEF FailsTransiently, Goto, Typed, WalkTyped
  <2> QED BY <1>9, <1>c, <1>k, <2>3, Frames DEF FailsTransiently, Typed
<1>10. ASSUME NEW c \in Callers, Retry(c) PROVE Typed'
  <2>1. WalkTyped' /\ (left = [d \in Callers |-> left[d]])'
    BY <1>10, <1>p, GotoTyped DEF Retry, walk
  <2> QED BY <1>10, <1>c, <1>k, <2>1, Frames DEF Retry, Typed
<1>11. ASSUME NEW c \in Callers, NEW speaks \in BOOLEAN, FailsOver(c, speaks) PROVE Typed'
  <2>1. BreakerTyped'
    BY <1>11, <1>c, CountFailureTyped DEF FailsOver
  <2>2. WalkTyped' /\ (left = [d \in Callers |-> left[d]])'
    <3>1. CASE NextModel(c)
      BY <3>1, NextModelTyped
    <3>2. CASE ~NextModel(c)
      <4>1. /\ left' = [left EXCEPT ![c] = left[c] \ {At(c)}]
            /\ attempt' = [attempt EXCEPT ![c] = 0] /\ Leaves(c, speaks)
            /\ UNCHANGED <<pc, model, unchecked>>
        BY <1>11, <3>2 DEF FailsOver
      <4>2. attempt' \in [Callers -> 0..Retries]
        BY <1>p, <4>1, ChainAssumption
      <4>3. emitted' \in [Callers -> BOOLEAN] /\ heard' \in [Callers -> BOOLEAN]
        BY <4>1 DEF Leaves, Typed, WalkTyped
      <4>4. left' = [d \in Callers |-> left'[d]] /\ \A d \in Callers : left'[d] \subseteq DOMAIN Route[model[d]]
        BY <1>p, <4>1
      <4> QED BY <4>1, <4>2, <4>3, <4>4 DEF Typed, WalkTyped
    <3> QED BY <3>1, <3>2
  <2> QED BY <1>11, <1>c, <1>k, <2>1, <2>2, Frames DEF FailsOver, Typed
<1>12. ASSUME NEW c \in Callers, Cancelled(c) PROVE Typed'
  BY <1>12, <1>c, <1>k, EndTyped, Frames DEF Cancelled, Typed
<1>13. ASSUME NEW c \in Callers, NEW cost \in config.costs, Bill(c, cost) PROVE Typed'
  <2>1. cost \in Nat
    BY ConfigTyped
  <2>2. [s \in Scopes |-> Today(s) + (IF s \in ScopesOf[c] THEN cost ELSE 0)] \in [Scopes -> Nat]
    BY <2>1, TodayTyped
  <2>3. LedgerTyped'
    BY <1>13, <1>c, <2>2, RolloverTyped DEF Bill
  <2>4. WalkTyped' /\ (left = [d \in Callers |-> left[d]])'
    BY <1>13, <1>p, GotoTyped DEF Bill, walk
  <2> QED BY <1>13, <1>c, <1>k, <2>3, <2>4, Frames DEF Bill, Typed
<1>14. ASSUME NEW c \in Callers, Succeed(c) PROVE Typed'
  <2>1. 0 \in 0..config.threshold /\ 0 \in 0..Cooldown
    BY ConfigTyped, ChainAssumption
  <2>2. BreakerTyped'
    BY <1>14, <1>c, <2>1 DEF Succeed, Typed, BreakerTyped
  <2> QED BY <1>14, <1>c, <1>k, <2>2, EndTyped, Frames DEF Succeed, Typed
<1>15. ASSUME NEW s \in Scopes, NEW limit \in config.ceilings, SetCeiling(s, limit) PROVE Typed'
  <2>1. limit \in Nat
    BY ConfigTyped
  <2>2. ceiling' \in [Scopes -> config.ceilings] /\ peak' \in [Scopes -> Nat]
    BY <1>15, <2>1 DEF SetCeiling, Typed, LedgerTyped
  <2>3. LedgerTyped'
    BY <1>15, <1>c, <2>2 DEF SetCeiling, Typed, LedgerTyped
  <2> QED BY <1>15, <1>c, <1>k, <2>3, Frames DEF SetCeiling, Typed
<1>16. CASE NewDay /\ UNCHANGED config
  <2>1. LedgerTyped'
    BY <1>16 DEF NewDay, Typed, LedgerTyped
  <2> QED BY <1>16, <1>k, <2>1, Frames DEF NewDay, Typed
<1>17. CASE NewMinute /\ UNCHANGED config
  <2>1. used' \in 0..RateLimit
    BY <1>17, ChainAssumption DEF NewMinute
  <2> QED BY <1>17, <1>k, <2>1, Frames DEF NewMinute, Typed
<1>18. CASE CoolDown /\ UNCHANGED config
  <2>1. cooling' \in [Providers -> 0..Cooldown]
    BY <1>18, ChainAssumption DEF CoolDown, Typed, BreakerTyped
  <2>2. BreakerTyped'
    BY <1>18, <2>1 DEF CoolDown, Typed, BreakerTyped
  <2> QED BY <1>18, <1>k, <2>2, Frames DEF CoolDown, Typed
<1>19. CASE UNCHANGED vars
  BY <1>19, <1>k, Frames DEF vars, Typed
<1>20. CASE Next
  <2>1. ASSUME NEW c \in Callers, Proceed(c) PROVE Typed'
    BY <2>1, <1>2, <1>3, <1>4, <1>5, <1>6, <1>10, <1>13, <1>14 DEF Proceed
  <2>2. ASSUME NEW c \in Callers, ProviderReturns(c) PROVE Typed'
    BY <2>2, <1>7, <1>8, <1>9, <1>11 DEF ProviderReturns, ProviderFails
  <2> QED BY <1>20, <2>1, <2>2, <1>1, <1>12, <1>15, <1>16, <1>17, <1>18 DEF Next
<1> QED BY <1>19, <1>20
-----------------------------------------------------------------------------
(***************************************************************************)
(* The soft budgets.  A caller is exposed to a scope from the check of that*)
(* scope to the bill.  While d callers are exposed, the spend leaves room  *)
(* for the cost of d calls below the bound that OvershootBounded states: a *)
(* caller becomes exposed only when the spend is below the ceiling, and a  *)
(* bill ends an exposure.                                                  *)
(***************************************************************************)
Users(s) == {c \in Callers : s \in ScopesOf[c]}

Exposed(s) ==
  {c \in Users(s) : \/ pc[c] = "budget" /\ s \notin unchecked[c]
                    \/ pc[c] \in {"call", "backoff", "bill"}}

Cost(S) == MaxCost * Cardinality(S)

CeilingBelow == \A s \in Scopes : peak[s] > 0 => 0 < ceiling[s] /\ ceiling[s] <= peak[s]
Headroom == \A s \in Scopes : peak[s] > 0 => spent[s] + Cost(Exposed(s)) < peak[s] + Cost(Users(s))
Soft == CeilingBelow /\ Headroom

LEMMA CostOfUsers ==
    ASSUME NEW s \in Scopes, NEW S \in SUBSET Users(s)
    PROVE  IsFiniteSet(S) /\ Cost(S) \in Nat /\ Cost(S) <= Cost(Users(s)) /\ Cost(Users(s)) \in Nat
<1>1. IsFiniteSet(Users(s)) /\ IsFiniteSet(S) /\ Cardinality(S) <= Cardinality(Users(s))
  BY ChainAssumption, FS_Subset DEF Users
<1>2. Cardinality(Users(s)) \in Nat /\ Cardinality(S) \in Nat
  BY <1>1, FS_CardinalityType
<1>3. \A m, i, j \in Nat : i <= j => m * i \in Nat /\ m * j \in Nat /\ m * i <= m * j
  OBVIOUS
<1> QED BY <1>1, <1>2, <1>3, ChainAssumption DEF Cost

LEMMA CostGrows ==
    ASSUME NEW s \in Scopes, NEW S \in SUBSET Users(s), NEW T \in SUBSET S
    PROVE  Cost(T) <= Cost(S)
<1>1. IsFiniteSet(S) /\ IsFiniteSet(T) /\ Cardinality(T) <= Cardinality(S)
  BY CostOfUsers, FS_Subset
<1>2. Cardinality(S) \in Nat /\ Cardinality(T) \in Nat
  BY <1>1, FS_CardinalityType
<1>3. \A m, i, j \in Nat : i <= j => m * i <= m * j
  OBVIOUS
<1> QED BY <1>1, <1>2, <1>3, ChainAssumption DEF Cost

LEMMA CostWithout ==
    ASSUME NEW s \in Scopes, NEW S \in SUBSET Users(s), NEW c \in S
    PROVE  Cost(S) = Cost(S \ {c}) + MaxCost
<1>1. IsFiniteSet(S) /\ IsFiniteSet(S \ {c}) /\ Cardinality(S \ {c}) = Cardinality(S) - 1
  BY CostOfUsers, FS_RemoveElement
<1>2. Cardinality(S) \in Nat /\ Cardinality(S \ {c}) \in Nat
  BY <1>1, FS_CardinalityType
<1>3. Cardinality(S) = Cardinality(S \ {c}) + 1
  BY <1>1, <1>2
<1>4. \A m, i \in Nat : m * (i + 1) = m * i + m
  OBVIOUS
<1> QED BY <1>2, <1>3, <1>4, ChainAssumption DEF Cost

\* A caller outside the calls is exposed to nothing.
LEMMA LessExposed ==
    ASSUME Typed, NEW c \in Callers, \A d \in Callers \ {c} : pc'[d] = pc[d] /\ unchecked'[d] = unchecked[d],
           NEW s \in Scopes, c \notin Exposed(s)'
    PROVE  Exposed(s)' = Exposed(s) \ {c} /\ Exposed(s)' \in SUBSET Exposed(s)
BY DEF Exposed, Users

\* Steps that leave the ledger alone and expose nobody.
LEMMA SoftFrame ==
    ASSUME Typed, Typed', Soft, UNCHANGED ledger, \A s \in Scopes : Exposed(s)' \in SUBSET Exposed(s)
    PROVE  Soft'
<1>1. \A s \in Scopes : Cost(Exposed(s))' <= Cost(Exposed(s))
  BY CostGrows, \A s \in Scopes : Exposed(s) \in SUBSET Users(s) DEF Exposed, Cost
<1>2. \A s \in Scopes : Cost(Exposed(s)) \in Nat /\ Cost(Exposed(s))' \in Nat
  BY CostOfUsers, \A s \in Scopes : Exposed(s) \in SUBSET Users(s), \A s \in Scopes : Exposed(s)' \in SUBSET Users(s)
     DEF Exposed, Cost
<1>3. \A s \in Scopes : Cost(Users(s)) \in Nat
  BY CostOfUsers
<1>4. \A s \in Scopes : Cost(Users(s))' = Cost(Users(s))
  BY DEF Cost, Users
<1> QED BY <1>1, <1>2, <1>3, <1>4 DEF Soft, CeilingBelow, Headroom, ledger, Typed, LedgerTyped

\* The bound at the rollover of a day, and without one.
PeakNow(s) == IF newDay THEN ceiling[s] ELSE peak[s]

LEMMA AfterRollover ==
    ASSUME Typed, Soft, NEW s \in Scopes, PeakNow(s) > 0
    PROVE  /\ 0 < ceiling[s] /\ ceiling[s] <= PeakNow(s)
           /\ Today(s) + Cost(Exposed(s)) < PeakNow(s) + Cost(Users(s))
<1>1. Exposed(s) \in SUBSET Users(s)
  BY DEF Exposed
<1>2. Cost(Exposed(s)) \in Nat /\ Cost(Users(s)) \in Nat /\ Cost(Exposed(s)) <= Cost(Users(s))
  BY <1>1, CostOfUsers
<1>3. ceiling[s] \in Nat /\ peak[s] \in Nat /\ spent[s] \in Nat
  BY ConfigTyped DEF Typed, LedgerTyped
<1>4. CASE newDay
  BY <1>2, <1>3, <1>4 DEF PeakNow, Today
<1>5. CASE ~newDay
  BY <1>3, <1>5 DEF PeakNow, Today, Soft, CeilingBelow, Headroom
<1> QED BY <1>4, <1>5

LEMMA InitSoft == Init => Soft
<1> SUFFICES ASSUME Init PROVE Soft
  OBVIOUS
<1>1. ASSUME NEW s \in Scopes PROVE Cost(Exposed(s)) \in Nat /\ Cost(Users(s)) \in Nat
                                    /\ Cost(Exposed(s)) <= Cost(Users(s))
  BY CostOfUsers, Exposed(s) \in SUBSET Users(s) DEF Exposed
<1>2. \A s \in Scopes : ceiling[s] \in Nat /\ peak[s] = ceiling[s] /\ spent[s] = 0
  BY ChainAssumption DEF Init
<1> QED BY <1>1, <1>2 DEF Soft, CeilingBelow, Headroom

LEMMA NextSoft == Typed /\ Typed' /\ Soft /\ [Next]_vars => Soft'
<1> SUFFICES ASSUME Typed, Typed', Soft, [Next]_vars PROVE Soft'
  OBVIOUS
<1>e. ASSUME NEW c \in Callers, End(c)
      PROVE \A s \in Scopes : Exposed(s)' \in SUBSET Exposed(s)
  BY <1>e DEF End, Goto, Exposed, Users, Typed, WalkTyped
<1>m. ASSUME NEW c \in Callers, NextModel(c)
      PROVE \A s \in Scopes : Exposed(s)' \in SUBSET Exposed(s)
  <2>1. CASE End(c)
    BY <2>1, <1>e
  <2>2. CASE ~End(c)
    BY <1>m, <2>2 DEF NextModel, Goto, Exposed, Users, Typed, WalkTyped
  <2> QED BY <2>1, <2>2
<1>s. \A s \in Scopes : /\ Exposed(s) \in SUBSET Users(s) /\ Exposed(s)' \in SUBSET Users(s)
                        /\ Users(s)' = Users(s) /\ Cost(Users(s)) \in Nat /\ Cost(Users(s))' = Cost(Users(s))
  BY CostOfUsers DEF Exposed, Users, Cost
<1>c. \A s \in Scopes : /\ Cost(Exposed(s)) \in Nat /\ Cost(Exposed(s))' \in Nat
                        /\ Cost(Exposed(s))' <= Cost(Users(s))
  BY <1>s, CostOfUsers DEF Cost
<1>t. \A s \in Scopes : /\ Today(s) \in Nat /\ ceiling[s] \in Nat /\ peak[s] \in Nat /\ spent[s] \in Nat
                        /\ PeakNow(s) \in Nat
  BY TodayTyped, ConfigTyped DEF Typed, LedgerTyped, PeakNow
<1>1. ASSUME NEW c \in Callers, Start(c) PROVE Soft'
  <2>1. \A s \in Scopes : Exposed(s)' \in SUBSET Exposed(s)
    BY <1>1 DEF Start, Goto, walk, Exposed, Users, Typed, WalkTyped
  <2> QED BY <1>1, <2>1, SoftFrame DEF Start
<1>2. ASSUME NEW c \in Callers, AdmitRate(c) PROVE Soft'
  <2>1. \A s \in Scopes : Exposed(s)' \in SUBSET Exposed(s)
    BY <1>2 DEF AdmitRate, Goto, Exposed, Users, Typed, WalkTyped
  <2> QED BY <1>2, <2>1, SoftFrame DEF AdmitRate
<1>3. ASSUME NEW c \in Callers, RefuseRate(c) PROVE Soft'
  BY <1>3, <1>m, SoftFrame DEF RefuseRate
<1>4. ASSUME NEW c \in Callers, NEW s \in Scopes, PassBudget(c, s) PROVE Soft'
  <2>1. \A t \in Scopes : spent'[t] = Today(t) /\ peak'[t] = PeakNow(t) /\ ceiling'[t] = ceiling[t]
    BY <1>4 DEF PassBudget, Rollover, PeakNow
  <2>2. \A t \in Scopes \ {s} : Exposed(t)' = Exposed(t)
    BY <1>4 DEF PassBudget, Exposed, Users, Typed, WalkTyped
  <2>3. \A t \in Scopes \ {s} : Cost(Exposed(t))' = Cost(Exposed(t))
    BY <2>2 DEF Cost
  <2>4. CeilingBelow'
    BY <1>t, <2>1, AfterRollover DEF CeilingBelow
  <2>5. ASSUME NEW t \in Scopes, t # s, peak'[t] > 0
        PROVE  spent'[t] + Cost(Exposed(t))' < peak'[t] + Cost(Users(t))'
    BY <1>s, <1>t, <2>1, <2>3, <2>5, AfterRollover
  <2>6. ASSUME peak'[s] > 0
        PROVE  spent'[s] + Cost(Exposed(s))' < peak'[s] + Cost(Users(s))'
    <3>1. 0 < ceiling[s] /\ ceiling[s] <= PeakNow(s)
      BY <2>1, <2>6, AfterRollover
    <3>2. Today(s) < ceiling[s]
      BY <1>4, <1>t, <3>1 DEF PassBudget, Exceeded
    <3> QED BY <1>s, <1>c, <1>t, <2>1, <3>1, <3>2
  <2> QED BY <2>4, <2>5, <2>6 DEF Soft, Headroom
<1>5. ASSUME NEW c \in Callers, NEW s \in Scopes, RefuseBudget(c, s) PROVE Soft'
  <2>1. \A t \in Scopes : spent'[t] = Today(t) /\ peak'[t] = PeakNow(t) /\ ceiling'[t] = ceiling[t]
    BY <1>5 DEF RefuseBudget, Rollover, PeakNow
  <2>2. \A t \in Scopes : Exposed(t)' \in SUBSET Exposed(t)
    BY <1>5, <1>e DEF RefuseBudget
  <2>3. \A t \in Scopes : Cost(Exposed(t))' <= Cost(Exposed(t))
    BY <1>s, <2>2, CostGrows DEF Cost
  <2>4. CeilingBelow'
    BY <1>t, <2>1, AfterRollover DEF CeilingBelow
  <2>5. ASSUME NEW t \in Scopes, peak'[t] > 0
        PROVE  spent'[t] + Cost(Exposed(t))' < peak'[t] + Cost(Users(t))'
    BY <1>s, <1>c, <1>t, <2>1, <2>3, <2>5, AfterRollover
  <2> QED BY <2>4, <2>5 DEF Soft, Headroom
<1>6. ASSUME NEW c \in Callers, OpenChain(c) PROVE Soft'
  <2>1. \A s \in Scopes : Exposed(s)' \in SUBSET Exposed(s)
    BY <1>6 DEF OpenChain, Goto, Exposed, Users, Typed, WalkTyped
  <2> QED BY <1>6, <2>1, SoftFrame DEF OpenChain
<1>7. ASSUME NEW c \in Callers, Answers(c) PROVE Soft'
  <2>1. \A s \in Scopes : Exposed(s)' \in SUBSET Exposed(s)
    BY <1>7 DEF Answers, Goto, walk, Exposed, Users, Typed, WalkTyped
  <2> QED BY <1>7, <2>1, SoftFrame DEF Answers
<1>8. ASSUME NEW c \in Callers, NEW speaks \in BOOLEAN, FailsTerminally(c, speaks) PROVE Soft'
  BY <1>8, <1>e, SoftFrame DEF FailsTerminally
<1>9. ASSUME NEW c \in Callers, NEW speaks \in BOOLEAN, FailsTransiently(c, speaks) PROVE Soft'
  <2>1. \A s \in Scopes : Exposed(s)' \in SUBSET Exposed(s)
    BY <1>9 DEF FailsTransiently, Goto, Exposed, Users, Typed, WalkTyped
  <2> QED BY <1>9, <2>1, SoftFrame DEF FailsTransiently
<1>10. ASSUME NEW c \in Callers, Retry(c) PROVE Soft'
  <2>1. \A s \in Scopes : Exposed(s)' \in SUBSET Exposed(s)
    BY <1>10 DEF Retry, Goto, walk, Exposed, Users, Typed, WalkTyped
  <2> QED BY <1>10, <2>1, SoftFrame DEF Retry
<1>11. ASSUME NEW c \in Callers, NEW speaks \in BOOLEAN, FailsOver(c, speaks) PROVE Soft'
  <2>1. CASE NextModel(c)
    BY <1>11, <2>1, <1>m, SoftFrame DEF FailsOver
  <2>2. CASE ~NextModel(c)
    <3>1. \A s \in Scopes : Exposed(s)' \in SUBSET Exposed(s)
      BY <1>11, <2>2 DEF FailsOver, Exposed, Users
    <3> QED BY <1>11, <3>1, SoftFrame DEF FailsOver
  <2> QED BY <2>1, <2>2
<1>12. ASSUME NEW c \in Callers, Cancelled(c) PROVE Soft'
  BY <1>12, <1>e, SoftFrame DEF Cancelled
<1>13. ASSUME NEW c \in Callers, NEW cost \in config.costs, Bill(c, cost) PROVE Soft'
  <2>1. cost \in Nat /\ MaxCost \in Nat /\ cost <= MaxCost
    BY ConfigTyped
  <2>2. \A t \in Scopes : /\ spent'[t] = Today(t) + (IF t \in ScopesOf[c] THEN cost ELSE 0)
                          /\ peak'[t] = PeakNow(t) /\ ceiling'[t] = ceiling[t]
    BY <1>13 DEF Bill, Rollover, PeakNow
  <2>3. CeilingBelow'
    BY <1>t, <2>2, AfterRollover DEF CeilingBelow
  <2>4. \A t \in Scopes : Exposed(t)' = Exposed(t) \ {c}
    BY <1>13 DEF Bill, Goto, walk, Exposed, Users, Typed, WalkTyped
  <2>5. \A t \in Scopes : t \in ScopesOf[c] => c \in Exposed(t)
    BY <1>13 DEF Bill, Exposed, Users
  <2>6. \A t \in Scopes : t \notin ScopesOf[c] => c \notin Exposed(t)
    BY DEF Exposed, Users
  <2>7. ASSUME NEW t \in Scopes, peak'[t] > 0
        PROVE  spent'[t] + Cost(Exposed(t))' < peak'[t] + Cost(Users(t))'
    <3>1. Today(t) + Cost(Exposed(t)) < PeakNow(t) + Cost(Users(t))
      BY <2>2, <2>7, AfterRollover
    <3>2. CASE t \in ScopesOf[c]
      <4>1. Cost(Exposed(t)) = Cost(Exposed(t))' + MaxCost
        BY <1>s, <2>4, <2>5, <3>2, CostWithout DEF Cost
      <4> QED BY <1>s, <1>c, <1>t, <2>1, <2>2, <3>1, <3>2, <4>1
    <3>3. CASE t \notin ScopesOf[c]
      <4>1. Cost(Exposed(t))' = Cost(Exposed(t))
        BY <2>4, <2>6, <3>3, Exposed(t)' = Exposed(t) DEF Cost
      <4> QED BY <1>s, <1>c, <1>t, <2>2, <3>1, <3>3, <4>1
    <3> QED BY <3>2, <3>3
  <2> QED BY <2>3, <2>7 DEF Soft, Headroom
<1>14. ASSUME NEW c \in Callers, Succeed(c) PROVE Soft'
  BY <1>14, <1>e, SoftFrame DEF Succeed
<1>15. ASSUME NEW s \in Scopes, NEW limit \in config.ceilings, SetCeiling(s, limit) PROVE Soft'
  <2>1. \A t \in Scopes : Cost(Exposed(t))' = Cost(Exposed(t)) /\ spent'[t] = spent[t]
    BY <1>15 DEF SetCeiling, Cost, Exposed, Users, walk
  <2>2. limit \in Nat
    BY ConfigTyped
  <2>3. \A t \in Scopes \ {s} : ceiling'[t] = ceiling[t] /\ peak'[t] = peak[t]
    BY <1>15 DEF SetCeiling, Typed, LedgerTyped
  <2>4. ceiling'[s] = limit /\ peak'[s] = CASE peak[s] = 0 \/ limit = 0 -> 0
                                            [] OTHER -> IF limit > peak[s] THEN limit ELSE peak[s]
    BY <1>15 DEF SetCeiling, Typed, LedgerTyped
  <2>5. peak'[s] > 0 => /\ peak[s] > 0 /\ 0 < limit
                        /\ peak'[s] \in Nat /\ peak[s] <= peak'[s] /\ limit <= peak'[s]
    BY <1>t, <2>2, <2>4
  <2>6. CeilingBelow'
    BY <2>3, <2>4, <2>5 DEF CeilingBelow, Soft
  <2>7. ASSUME NEW t \in Scopes, peak'[t] > 0
        PROVE  spent'[t] + Cost(Exposed(t))' < peak'[t] + Cost(Users(t))'
    <3>1. peak[t] > 0 /\ peak[t] <= peak'[t] /\ peak'[t] \in Nat
      BY <1>t, <2>3, <2>5, <2>7
    <3>2. spent[t] + Cost(Exposed(t)) < peak[t] + Cost(Users(t))
      BY <3>1 DEF Soft, Headroom
    <3> QED BY <1>s, <1>c, <1>t, <2>1, <3>1, <3>2
  <2> QED BY <2>6, <2>7 DEF Soft, Headroom
<1>16. CASE NewDay
  BY <1>16, <1>s DEF NewDay, Soft, CeilingBelow, Headroom, Cost, Exposed, Users, walk
<1>17. CASE NewMinute
  <2>1. \A s \in Scopes : Exposed(s)' \in SUBSET Exposed(s)
    BY <1>17 DEF NewMinute, walk, Exposed, Users
  <2> QED BY <1>17, <2>1, SoftFrame DEF NewMinute
<1>18. CASE CoolDown
  <2>1. \A s \in Scopes : Exposed(s)' \in SUBSET Exposed(s)
    BY <1>18 DEF CoolDown, walk, Exposed, Users
  <2> QED BY <1>18, <2>1, SoftFrame DEF CoolDown
<1>19. CASE UNCHANGED vars
  <2>1. \A s \in Scopes : Exposed(s)' \in SUBSET Exposed(s)
    BY <1>19 DEF vars, walk, Exposed, Users
  <2> QED BY <1>19, <2>1, SoftFrame DEF vars
<1>20. CASE Next
  <2>1. ASSUME NEW c \in Callers, Proceed(c) PROVE Soft'
    BY <2>1, <1>2, <1>3, <1>4, <1>5, <1>6, <1>10, <1>13, <1>14 DEF Proceed
  <2>2. ASSUME NEW c \in Callers, ProviderReturns(c) PROVE Soft'
    BY <2>2, <1>7, <1>8, <1>9, <1>11 DEF ProviderReturns, ProviderFails
  <2> QED BY <1>20, <2>1, <2>2, <1>1, <1>12, <1>15, <1>16, <1>17, <1>18 DEF Next
<1> QED BY <1>19, <1>20
-----------------------------------------------------------------------------
LEMMA InitStreamOnce == Init => StreamOnce
BY DEF Init, StreamOnce

LEMMA NextStreamOnce == Typed /\ StreamOnce /\ [Next]_vars => StreamOnce'
<1> SUFFICES ASSUME Typed, StreamOnce, [Next]_vars PROVE StreamOnce'
  OBVIOUS
<1>1. ASSUME NEW c \in Callers, End(c) \/ NextModel(c) PROVE StreamOnce'
  BY <1>1 DEF End, NextModel, StreamOnce, Typed, WalkTyped
<1>2. ASSUME NEW c \in Callers, NEW speaks \in BOOLEAN, ~Interrupted(c, speaks), Leaves(c, speaks)
      PROVE  StreamOnce'
  BY <1>2 DEF Interrupted, Leaves, StreamOnce, Typed, WalkTyped
<1>3. UNCHANGED heard => StreamOnce'
  BY DEF StreamOnce
<1>4. ASSUME NEW c \in Callers, Proceed(c) PROVE StreamOnce'
  BY <1>4, <1>1, <1>3 DEF Proceed, AdmitRate, RefuseRate, OpenChain, Retry, Succeed, PassBudget,
                          RefuseBudget, Bill, walk
<1>5. ASSUME NEW c \in Callers, ProviderReturns(c) PROVE StreamOnce'
  BY <1>5, <1>1, <1>2, <1>3 DEF ProviderReturns, Answers, ProviderFails, FailsTerminally,
                                FailsTransiently, FailsOver, walk
<1> QED BY <1>1, <1>3, <1>4, <1>5 DEF Next, Start, Cancelled, SetCeiling, NewDay, NewMinute, CoolDown, vars, walk
-----------------------------------------------------------------------------
\* The variables keep their types (kernel/governor).
THEOREM TypeCorrect == Spec => []TypeOK
<1>1. Spec => []Typed
  BY InitTyped, NextTyped, PTL DEF Spec
<1> QED BY <1>1, TypedParts, PTL

\* A consumer of a stream never hears an attempt that is then repeated
\* (governor_complete.go:82-88).
THEOREM StreamedOnce == Spec => []StreamOnce
<1>1. Spec => []Typed
  BY InitTyped, NextTyped, PTL DEF Spec
<1> QED BY <1>1, InitStreamOnce, NextStreamOnce, PTL DEF Spec

\* However the calls interleave, the spend of a scope stays below its highest
\* ceiling of the day and the cost of one call for each caller charged to it
\* (budgetgate.go:46-53).
THEOREM OvershootAlwaysBounded == Spec => []OvershootBounded
<1>1. Spec => [](Typed /\ Soft)
  BY InitTyped, NextTyped, InitSoft, NextSoft, PTL DEF Spec
<1>2. Typed /\ Soft => OvershootBounded
  <2> SUFFICES ASSUME Typed, Soft, NEW s \in Scopes, peak[s] > 0
               PROVE  spent[s] < peak[s] + Cost(Users(s))
    BY DEF OvershootBounded, Cost, Users
  <2>1. Exposed(s) \in SUBSET Users(s)
    BY DEF Exposed
  <2>2. Cost(Exposed(s)) \in Nat /\ Cost(Users(s)) \in Nat
    BY <2>1, CostOfUsers
  <2> QED BY <2>2 DEF Soft, Headroom, Typed, LedgerTyped
<1> QED BY <1>1, <1>2, PTL
=============================================================================
