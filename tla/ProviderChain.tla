--------------------------- MODULE ProviderChain ---------------------------
(***************************************************************************)
(* kernel/governor: concurrent completions.  A call walks its ladder of    *)
(* models; for each it passes the rate gate and the budget gates and then  *)
(* walks the chain of providers the model is routed to, leaving out those  *)
(* whose circuit is open, retrying one in place while its errors are       *)
(* transient.  Budgets are soft: the check and the bill are two critical   *)
(* sections with the provider call between them.  A call without streaming *)
(* is one whose attempts never speak.  The response cache is off.          *)
(***************************************************************************)
EXTENDS Integers, Sequences, FiniteSets

CONSTANTS
  Callers, Providers, Scopes,
  Route,        \* model of the ladder (1, 2, ...) -> its providers, in order
  ScopesOf,     \* caller -> budget scopes its calls are charged to
  Retries,      \* retries in place of one provider
  RateLimit,    \* calls admitted in one minute
  Cooldown,     \* how long a circuit stays open
  Configs,      \* set of [threshold : failures in a row that open a circuit, 0 never;
                \*         ceilings : those an operator sets, 0 is none;
                \*         costs : those of a call]
  MaxCost,      \* bound: cost of one call
  MaxSpent      \* bound: spend recorded in one scope

ASSUME ChainAssumption ==
  /\ Route \in Seq(Seq(Providers)) /\ Len(Route) > 0
  /\ \A m \in DOMAIN Route : Len(Route[m]) > 0
  /\ ScopesOf \in [Callers -> SUBSET Scopes]
  /\ Retries \in Nat /\ RateLimit \in Nat /\ Cooldown \in Nat /\ MaxCost \in Nat /\ MaxSpent \in Nat
  /\ \A f \in Configs :
       f.threshold \in Nat /\ f.ceilings \subseteq Nat /\ f.costs \subseteq 0..MaxCost
  /\ IsFiniteSet(Callers)

VARIABLES
  config,     \* the configuration
  pc,         \* caller -> "idle", "rate", "budget", "call", "backoff", "bill", "close"
  model,      \* caller -> place in the ladder
  unchecked,  \* caller -> budget scopes still to be checked
  left,       \* caller -> places of the chain not yet done with
  attempt,    \* caller -> retries made of the provider at hand
  emitted,    \* caller -> a chunk has reached the consumer
  heard,      \* caller -> a chunk came from an attempt that failed (history)
  failures, openCircuit, cooling,  \* provider -> its circuit: openUntil is set, time left
  used,       \* calls admitted this minute
  spent, ceiling,   \* scope -> today's spend, its ceiling
  newDay,     \* the date has changed since the last rollover
  peak        \* scope -> highest ceiling since the rollover, 0 if there was none (history)

walk == <<model, unchecked, left, attempt, emitted, heard>>
breaker == <<failures, openCircuit, cooling>>
ledger == <<spent, ceiling, newDay, peak>>
vars == <<config, pc, walk, breaker, used, ledger>>

Init ==
  /\ config \in Configs
  /\ pc = [c \in Callers |-> "idle"]
  /\ model = [c \in Callers |-> 1]
  /\ unchecked = [c \in Callers |-> {}] /\ left = [c \in Callers |-> {}]
  /\ attempt = [c \in Callers |-> 0]
  /\ emitted = [c \in Callers |-> FALSE] /\ heard = [c \in Callers |-> FALSE]
  /\ failures = [p \in Providers |-> 0]
  /\ openCircuit = [p \in Providers |-> FALSE]
  /\ cooling = [p \in Providers |-> 0]
  /\ used = 0
  /\ spent = [s \in Scopes |-> 0]
  /\ ceiling \in [Scopes -> config.ceilings]
  /\ newDay = FALSE
  /\ peak = ceiling
--------------------------------------------------------------------------
\* The walk over the ladder of models (completeChained).

Goto(c, place) == pc' = [pc EXCEPT ![c] = place]

\* The call is over, with an answer or an error: its locals are gone.
End(c) ==
  /\ Goto(c, "idle")
  /\ model' = [model EXCEPT ![c] = 1]
  /\ unchecked' = [unchecked EXCEPT ![c] = {}]
  /\ left' = [left EXCEPT ![c] = {}]
  /\ attempt' = [attempt EXCEPT ![c] = 0]
  /\ emitted' = [emitted EXCEPT ![c] = FALSE]
  /\ heard' = [heard EXCEPT ![c] = FALSE]

Start(c) ==
  /\ pc[c] = "idle"
  /\ Goto(c, "rate")
  /\ UNCHANGED <<walk, breaker, used, ledger>>

\* A model that failed with an error worth a fall-back: the next one, with
\* its own pre-flight, or the error.
NextModel(c) ==
  \/ /\ model[c] = Len(Route)
     /\ End(c)
  \/ /\ model[c] < Len(Route)
     /\ Goto(c, "rate")
     /\ model' = [model EXCEPT ![c] = @ + 1]
     /\ left' = [left EXCEPT ![c] = {}]
     /\ attempt' = [attempt EXCEPT ![c] = 0]
     /\ UNCHANGED <<unchecked, emitted, heard>>
--------------------------------------------------------------------------
\* The pre-flight: rate, then budgets from the widest scope to the narrowest.

AdmitRate(c) ==
  /\ pc[c] = "rate" /\ used < RateLimit
  /\ used' = used + 1
  /\ Goto(c, "budget")
  /\ unchecked' = [unchecked EXCEPT ![c] = ScopesOf[c]]
  /\ UNCHANGED <<model, left, attempt, emitted, heard, breaker, ledger>>

\* ErrRateLimited is worth a fall-back: the next model asks again.
RefuseRate(c) ==
  /\ pc[c] = "rate" /\ used >= RateLimit
  /\ NextModel(c)
  /\ UNCHANGED <<breaker, used, ledger>>

\* rolloverIfNeededLocked, in front of every use of the ledger.
Today(s) == IF newDay THEN 0 ELSE spent[s]
Rollover ==
  /\ newDay' = FALSE
  /\ peak' = IF newDay THEN ceiling ELSE peak
  /\ UNCHANGED ceiling

\* Mutant: a scope is exhausted only when it is overspent.
ExceededOver(s) == ceiling[s] > 0 /\ Today(s) > ceiling[s]

Exceeded(s) == ceiling[s] > 0 /\ Today(s) >= ceiling[s]

\* One scope has headroom.
PassBudget(c, s) ==
  /\ pc[c] = "budget" /\ s \in unchecked[c]
  /\ ~Exceeded(s)
  /\ spent' = [t \in Scopes |-> Today(t)] /\ Rollover
  /\ unchecked' = [unchecked EXCEPT ![c] = @ \ {s}]
  /\ UNCHANGED <<pc, model, left, attempt, emitted, heard, breaker, used>>

\* ErrBudgetExceeded ends the call: no other model is tried.
RefuseBudget(c, s) ==
  /\ pc[c] = "budget" /\ s \in unchecked[c]
  /\ Exceeded(s)
  /\ spent' = [t \in Scopes |-> Today(t)] /\ Rollover
  /\ End(c)
  /\ UNCHANGED <<breaker, used>>

--------------------------------------------------------------------------
\* The walk over the chain of one model (runChain).

Allow(p) == ~openCircuit[p] \/ cooling[p] = 0

\* Mutant: a circuit that opened stays closed to calls until a success.
AllowedClosed(m) == {i \in DOMAIN Route[m] : ~openCircuit[Route[m][i]]}

Allowed(m) == {i \in DOMAIN Route[m] : Allow(Route[m][i])}

\* Providers with an open circuit are left out, unless all are.
OpenChain(c) ==
  /\ pc[c] = "budget" /\ unchecked[c] = {}
  /\ left' = [left EXCEPT ![c] =
                IF Allowed(model[c]) = {} THEN DOMAIN Route[model[c]] ELSE Allowed(model[c])]
  /\ Goto(c, "call")
  /\ UNCHANGED <<model, unchecked, attempt, emitted, heard, breaker, used, ledger>>

At(c) == CHOOSE i \in left[c] : \A j \in left[c] : i <= j
Provider(c) == Route[model[c]][At(c)]

\* The provider answers.
Answers(c) ==
  /\ pc[c] = "call"
  /\ Goto(c, "bill")
  /\ UNCHANGED <<walk, breaker, used, ledger>>

\* An error after output has reached the consumer is terminal.
Interrupted(c, speaks) == emitted[c] \/ speaks

FailsTerminally(c, speaks) ==
  /\ pc[c] = "call" /\ Interrupted(c, speaks)
  /\ End(c)
  /\ UNCHANGED <<breaker, used, ledger>>

\* What is left behind by an attempt that failed and is not the last word.
Leaves(c, speaks) ==
  /\ emitted' = [emitted EXCEPT ![c] = @ \/ speaks]
  /\ heard' = [heard EXCEPT ![c] = @ \/ speaks]

\* Mutant: retries are not bounded.
MayRetryAlways(c) == TRUE

MayRetry(c) == attempt[c] < Retries

\* A transient error: the same provider again, after a pause.
FailsTransiently(c, speaks) ==
  /\ pc[c] = "call" /\ ~Interrupted(c, speaks) /\ MayRetry(c)
  /\ Goto(c, "backoff")
  /\ attempt' = [attempt EXCEPT ![c] = IF @ < Retries THEN @ + 1 ELSE @]
  /\ Leaves(c, speaks)
  /\ UNCHANGED <<model, unchecked, left, breaker, used, ledger>>

Retry(c) ==
  /\ pc[c] = "backoff"
  /\ Goto(c, "call")
  /\ UNCHANGED <<walk, breaker, used, ledger>>

\* breaker.failure: the threshold is reached, or was, and the circuit (re)opens.
CountFailure(p) ==
  LET reached == failures[p] + 1 >= config.threshold
  IN IF config.threshold = 0 THEN UNCHANGED breaker ELSE
     /\ failures' = [failures EXCEPT ![p] = IF reached THEN config.threshold ELSE @ + 1]
     /\ openCircuit' = [openCircuit EXCEPT ![p] = @ \/ reached]
     /\ cooling' = [cooling EXCEPT ![p] = IF reached THEN Cooldown ELSE @]

\* Any other error, or one too many: it counts, and the next provider is asked.
FailsOver(c, speaks) ==
  /\ pc[c] = "call" /\ ~Interrupted(c, speaks)
  /\ CountFailure(Provider(c))
  /\ \/ /\ left[c] # {At(c)}
        /\ left' = [left EXCEPT ![c] = @ \ {At(c)}]
        /\ attempt' = [attempt EXCEPT ![c] = 0]
        /\ Leaves(c, speaks)
        /\ UNCHANGED <<pc, model, unchecked>>
     \/ left[c] = {At(c)} /\ NextModel(c)
  /\ UNCHANGED <<used, ledger>>

\* The context of the call ends: terminal, and not the provider's fault.
Cancelled(c) ==
  /\ pc[c] \in {"call", "backoff"}
  /\ End(c)
  /\ UNCHANGED <<breaker, used, ledger>>

\* recordUsage: the cost is charged to every scope of the call.
Bill(c, cost) ==
  /\ pc[c] = "bill"
  /\ \A s \in ScopesOf[c] : Today(s) + cost <= MaxSpent \/ cost = 0
  /\ spent' = [s \in Scopes |-> Today(s) + (IF s \in ScopesOf[c] THEN cost ELSE 0)]
  /\ Rollover
  /\ Goto(c, "close")
  /\ UNCHANGED <<walk, breaker, used>>

\* breaker.success, and the answer is returned.
Succeed(c) ==
  /\ pc[c] = "close"
  /\ failures' = [failures EXCEPT ![Provider(c)] = 0]
  /\ openCircuit' = [openCircuit EXCEPT ![Provider(c)] = FALSE]
  /\ cooling' = [cooling EXCEPT ![Provider(c)] = 0]
  /\ End(c)
  /\ UNCHANGED <<used, ledger>>
--------------------------------------------------------------------------
\* The operator and the clock.

SetCeiling(s, limit) ==
  /\ ceiling' = [ceiling EXCEPT ![s] = limit]
  /\ peak' = [peak EXCEPT ![s] = CASE @ = 0 \/ limit = 0 -> 0
                                   [] OTHER -> IF limit > @ THEN limit ELSE @]
  /\ UNCHANGED <<pc, walk, breaker, used, spent, newDay>>

NewDay ==
  /\ newDay' = TRUE
  /\ UNCHANGED <<pc, walk, breaker, used, spent, ceiling, peak>>

NewMinute ==
  /\ used' = 0
  /\ UNCHANGED <<pc, walk, breaker, ledger>>

CoolDown ==
  /\ \E p \in Providers : cooling[p] > 0
  /\ cooling' = [p \in Providers |-> IF cooling[p] > 0 THEN cooling[p] - 1 ELSE 0]
  /\ UNCHANGED <<pc, walk, failures, openCircuit, used, ledger>>
--------------------------------------------------------------------------
ProviderFails(c) ==
  \E speaks \in BOOLEAN :
    FailsTerminally(c, speaks) \/ FailsTransiently(c, speaks) \/ FailsOver(c, speaks)

ProviderReturns(c) == Answers(c) \/ ProviderFails(c)

\* The steps of the governor itself.
Proceed(c) ==
  \/ AdmitRate(c) \/ RefuseRate(c) \/ OpenChain(c) \/ Retry(c) \/ Succeed(c)
  \/ \E s \in Scopes : PassBudget(c, s) \/ RefuseBudget(c, s)
  \/ \E cost \in config.costs : Bill(c, cost)

Next ==
  /\ \/ \E c \in Callers : Start(c) \/ Proceed(c) \/ ProviderReturns(c) \/ Cancelled(c)
     \/ \E s \in Scopes, limit \in config.ceilings : SetCeiling(s, limit)
     \/ NewDay \/ NewMinute \/ CoolDown
  /\ UNCHANGED config

Spec == Init /\ [][Next]_vars

\* The governor's code runs, a provider's call returns or its context ends,
\* and time passes.  Nothing is assumed of the callers or the operator.
FairSpec ==
  /\ Spec
  /\ \A c \in Callers :
       /\ WF_vars(Proceed(c) /\ UNCHANGED config)
       /\ WF_vars((ProviderReturns(c) \/ Cancelled(c)) /\ UNCHANGED config)
  /\ WF_vars(CoolDown /\ UNCHANGED config)
--------------------------------------------------------------------------
TypeOK ==
  /\ config \in Configs
  /\ pc \in [Callers -> {"idle", "rate", "budget", "call", "backoff", "bill", "close"}]
  /\ model \in [Callers -> DOMAIN Route]
  /\ unchecked \in [Callers -> SUBSET Scopes]
  /\ \A c \in Callers : left[c] \subseteq DOMAIN Route[model[c]]
  /\ attempt \in [Callers -> 0..Retries]
  /\ emitted \in [Callers -> BOOLEAN] /\ heard \in [Callers -> BOOLEAN]
  /\ failures \in [Providers -> 0..config.threshold]
  /\ openCircuit \in [Providers -> BOOLEAN]
  /\ cooling \in [Providers -> 0..Cooldown]
  /\ used \in 0..RateLimit
  /\ spent \in [Scopes -> Nat]
  /\ ceiling \in [Scopes -> config.ceilings] /\ peak \in [Scopes -> Nat]
  /\ newDay \in BOOLEAN

\* A consumer of a stream never hears an attempt that is then repeated: once
\* a chunk came through, a failure ends the call, on the same provider, on the
\* next one and on the next model alike (governor_complete.go:82-88).
StreamOnce == \A c \in Callers : ~heard[c]

\* What the soft budgets allow: however the calls interleave, the operator
\* changes a ceiling or the day turns, a scope is overspent by less than one
\* call's cost for each caller (budgetgate.go:46-53).  A scope that had no
\* ceiling at some time of the day is not bounded that day.
OvershootBounded ==
  \A s \in Scopes : peak[s] > 0 =>
    spent[s] < peak[s] + MaxCost * Cardinality({c \in Callers : s \in ScopesOf[c]})

\* Retries, fall-backs and models are finite: every call comes to an end.
CallEnds == \A c \in Callers : pc[c] # "idle" ~> pc[c] = "idle"

\* A preferred provider that has recovered is used again: if it fails no
\* more and calls for the first model keep reaching some provider, its circuit
\* is closed for good (breaker.go:18-23); no operator has to reset it.
Preferred == Route[1][1]
PreferredFails == \E c \in Callers : pc[c] = "call" /\ Provider(c) = Preferred /\ ProviderFails(c)
FirstModelReturns == \E c \in Callers : model[c] = 1 /\ ProviderReturns(c)
Heals == <>[][~PreferredFails]_vars /\ []<><<FirstModelReturns>>_vars
           => <>[](~openCircuit[Preferred])
==========================================================================
