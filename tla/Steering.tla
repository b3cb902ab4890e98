------------------------------ MODULE Steering ------------------------------
(***************************************************************************)
(* kernel/modules/runs/steer: the control of one live run.  The agent loop *)
(* waits at the top of each iteration; operators pause, step and resume it *)
(* and queue directives, directly or as interventions with a lease and an  *)
(* idempotency key.  Each operation is one critical section; what the loop *)
(* and an intervention carry from one to the next are variables.           *)
(***************************************************************************)
EXTENDS Integers, Sequences

CONSTANTS
  Calls,     \* interventions, each call or retry of one
  KeyOf,     \* call -> its idempotency key
  Primitive, \* call -> "halt" (redirect and adjust queue a directive)
  Lease,     \* of a halt, 1 or more
  MaxTime    \* bound: the clock

KeysUsed == {KeyOf[c] : c \in Calls}

VARIABLES
  paused, until, stepOnce,  \* the control; until 0 is no lease
  directives,               \* queued, as the calls that brought them
  loop,                     \* "boundary", "parked", "drain", "round", "over"
  armed, woken,             \* of a parked loop: the lease of its timer, its wake channel is closed
  clock, ended,             \* ended: the context of the run
  phase,                    \* call -> "idle", "looked", "acted", "answered"
  results,                  \* keys with a remembered result
  applied, overlapping      \* key -> how often it was applied; keys of which
                            \* one call began before another was answered (history)

control == <<paused, until, stepOnce>>
parking == <<armed, woken>>
calls == <<phase, results, applied, overlapping>>
steering == <<control, directives, loop, parking, clock, ended, calls>>

SteeringInit ==
  /\ paused = FALSE /\ until = 0 /\ stepOnce = FALSE
  /\ directives = <<>>
  /\ loop = "boundary" /\ armed = 0 /\ woken = FALSE
  /\ clock = 1 /\ ended = FALSE
  /\ phase = [c \in Calls |-> "idle"]
  /\ results = {}
  /\ applied = [k \in KeysUsed |-> 0] /\ overlapping = {}
--------------------------------------------------------------------------
\* The loop.

LeaseOver(t) == t > 0 /\ clock >= t

\* Wait, from its top: go on, or park with the wake channel and the timer of
\* this moment.
Evaluate ==
  /\ loop = "boundary" \/ (loop = "parked" /\ (woken \/ LeaseOver(armed)))
  /\ woken' = FALSE
  /\ \/ /\ ~paused
        /\ loop' = "drain" /\ armed' = 0
        /\ UNCHANGED control
     \/ /\ paused /\ LeaseOver(until)
        /\ loop' = "drain" /\ armed' = 0
        /\ paused' = FALSE /\ until' = 0 /\ stepOnce' = FALSE
     \/ /\ paused /\ ~LeaseOver(until) /\ stepOnce
        /\ loop' = "drain" /\ armed' = 0
        /\ stepOnce' = FALSE
        /\ UNCHANGED <<paused, until>>
     \/ /\ paused /\ ~LeaseOver(until) /\ ~stepOnce
        /\ loop' = "parked" /\ armed' = until
        /\ UNCHANGED control
  /\ UNCHANGED <<directives, clock, ended, calls>>

\* A parked run still honours the end of its context.
LeavePark ==
  /\ loop = "parked" /\ ended
  /\ loop' = "over" /\ armed' = 0 /\ woken' = FALSE
  /\ UNCHANGED <<control, directives, clock, ended, calls>>

Drain ==
  /\ loop = "drain"
  /\ directives' = <<>>
  /\ loop' = "round"
  /\ UNCHANGED <<control, parking, clock, ended, calls>>

RoundEnds ==
  /\ loop = "round"
  /\ loop' \in IF ended THEN {"over"} ELSE {"boundary", "over"}
  /\ UNCHANGED <<control, directives, parking, clock, ended, calls>>
--------------------------------------------------------------------------
\* The operators.

Broadcast == woken' = (loop = "parked")

\* Mutant: a run that is paused already is not woken for its new lease.
PauseQuietly(t) ==
  /\ IF paused /\ until = t
       THEN UNCHANGED <<control, woken>>
       ELSE /\ paused' = TRUE /\ until' = t
            /\ IF paused THEN UNCHANGED woken ELSE Broadcast
            /\ UNCHANGED stepOnce
  /\ UNCHANGED armed

\* Control.Pause(t): a step that is pending stays pending.
PauseFor(t) ==
  /\ IF paused /\ until = t
       THEN UNCHANGED <<control, woken>>
       ELSE /\ paused' = TRUE /\ until' = t
            /\ Broadcast
            /\ UNCHANGED stepOnce
  /\ UNCHANGED armed

Pause ==
  /\ PauseFor(0)
  /\ UNCHANGED <<directives, loop, clock, ended, calls>>

ResumeLoop ==
  /\ paused
  /\ paused' = FALSE /\ stepOnce' = FALSE /\ until' = 0
  /\ Broadcast
  /\ UNCHANGED <<directives, loop, armed, clock, ended, calls>>

Step ==
  /\ paused' = TRUE /\ stepOnce' = TRUE /\ until' = 0
  /\ Broadcast
  /\ UNCHANGED <<directives, loop, armed, clock, ended, calls>>

\* The run is cancelled, halted or timed out.
End ==
  /\ ~ended
  /\ ended' = TRUE
  /\ UNCHANGED <<control, directives, loop, parking, clock, calls>>

Tick ==
  /\ clock < MaxTime
  /\ clock' = clock + 1
  /\ UNCHANGED <<control, directives, loop, parking, ended, calls>>
--------------------------------------------------------------------------
\* Service.Intervene: three critical sections.

UnderWay(k) == \E c \in Calls : KeyOf[c] = k /\ phase[c] \in {"looked", "acted"}

\* Lookup and ResultForKey: no control is found once the run has been cleaned
\* up after its loop; a remembered result is the answer.
Lookup(c) ==
  /\ phase[c] = "idle"
  /\ \E active \in {TRUE, loop # "over"} :
       phase' = [phase EXCEPT ![c] = IF active /\ KeyOf[c] \notin results
                                       THEN "looked" ELSE "answered"]
  /\ overlapping' = IF UnderWay(KeyOf[c]) THEN overlapping \cup {KeyOf[c]} ELSE overlapping
  /\ UNCHANGED <<control, directives, loop, parking, clock, ended, results, applied>>

Apply(c) ==
  /\ phase[c] = "looked"
  /\ IF Primitive[c] = "halt"
       THEN PauseFor(clock + Lease) /\ UNCHANGED directives
       ELSE directives' = Append(directives, c) /\ UNCHANGED <<control, parking>>
  /\ phase' = [phase EXCEPT ![c] = "acted"]
  /\ applied' = [applied EXCEPT ![KeyOf[c]] = @ + 1]
  /\ UNCHANGED <<loop, clock, ended, results, overlapping>>

\* Mutant: the result of a directive is not remembered.
RememberHalts(c) ==
  /\ phase[c] = "acted"
  /\ results' = IF Primitive[c] = "halt" THEN results \cup {KeyOf[c]} ELSE results
  /\ phase' = [phase EXCEPT ![c] = "answered"]
  /\ UNCHANGED <<control, directives, loop, parking, clock, ended, applied, overlapping>>

Remember(c) ==
  /\ phase[c] = "acted"
  /\ results' = results \cup {KeyOf[c]}
  /\ phase' = [phase EXCEPT ![c] = "answered"]
  /\ UNCHANGED <<control, directives, loop, parking, clock, ended, applied, overlapping>>
--------------------------------------------------------------------------
SteeringNext ==
  \/ Evaluate \/ LeavePark \/ Drain \/ RoundEnds
  \/ Pause \/ ResumeLoop \/ Step \/ End \/ Tick
  \/ \E c \in Calls : Lookup(c) \/ Apply(c) \/ Remember(c)

SteeringSpec == SteeringInit /\ [][SteeringNext]_steering
--------------------------------------------------------------------------
\* A parked loop has seen the control as it is, or is about to be woken: the
\* run is paused, no step is pending and its timer is that of the lease, so
\* no pause outlives its end (control.go:58-63, 81-92).
ParkedKnows ==
  loop = "parked" /\ ~woken => paused /\ ~stepOnce /\ armed = until

\* A retried intervention is not applied again, unless the retry was sent
\* before the first call was answered (service.go:180-182).
AppliedOnce == \A k \in KeysUsed \ overlapping : applied[k] <= 1
==========================================================================
