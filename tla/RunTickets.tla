----------------------------- MODULE RunTickets -----------------------------
(***************************************************************************)
(* Durable run resume: kernel/modules/runs/resume (the ticket store and    *)
(* its rules), kernel/runtime/resume.go (claim, finalize, suspend), the    *)
(* owners of a ticket (runner) and the resumer that runs at boot           *)
(* (cmd/agezt/main_standing_resume.go).  A run has two frames: the one its *)
(* caller started and the one the resumer dispatches.  Only the files      *)
(* outlive the process.  Every store operation is one step, under its      *)
(* lock; the lists that are read before the lock is taken again are        *)
(* variables.  The conversation in a ticket is left out.                   *)
(***************************************************************************)
EXTENDS Integers

CONSTANTS
  Runs,
  MaxTries,     \* attempts of a retry policy, 1 or more
  MaxAttempts,  \* of the resumer, for one ticket, 1 or more
  MaxBoots      \* bound on the boots

ASSUME TicketAssumption ==
  MaxTries \in Nat \ {0} /\ MaxAttempts \in Nat \ {0} /\ MaxBoots \in Nat \ {0}

Frames == Runs \X {"caller", "resumer"}
First(r) == <<r, "caller">>
Again(r) == <<r, "resumer">>

None == [status |-> "none", attempts |-> 0]
Tickets == [status : {"active", "suspended"}, attempts : 0..MaxAttempts]

NoTickets == [r \in Runs |-> None]

VARIABLES
  retrying,    \* runs under a retry policy: their wrapper owns the ticket
  ticket,      \* run -> what its file holds, None when there is none
  up, booted,  \* the process runs; boots so far
  read, scan,  \* the resumer has its list; run -> its ticket in what is left of it
  halted, suspending,
  marking, listed, \* MarkSuspendedAll runs; run -> its ticket in its list
  stage,       \* frame -> see TypeOK
  tries,       \* frame -> attempts of its retry policy
  cancelled,   \* frames whose context is cancelled
  fate,        \* run -> how its work ended (history)
  dispatches,  \* run -> how often the resumer dispatched it (history)
  settled,     \* runs whose ticket was deleted at their end (history)
  overtaken    \* those that some list or dispatched frame still held (history)

process == <<up, booted, halted>>
boot == <<read, scan>>
suspension == <<suspending, marking, listed>>
history == <<dispatches, settled, overtaken>>
vars == <<retrying, ticket, process, boot, suspension, stage, tries, cancelled, fate, history>>

Init ==
  /\ retrying \in SUBSET Runs
  /\ ticket = NoTickets
  /\ up = TRUE /\ booted = 1
  /\ read = FALSE /\ scan = NoTickets
  /\ halted = FALSE /\ suspending = FALSE /\ marking = FALSE /\ listed = NoTickets
  /\ stage = [f \in Frames |-> "idle"] /\ tries = [f \in Frames |-> 0]
  /\ cancelled = {}
  /\ fate = [r \in Runs |-> "open"]
  /\ dispatches = [r \in Runs |-> 0] /\ settled = {} /\ overtaken = {}

\* RunWith is under way; a plain run's own finalize is part of it.
Registered(f) ==
  \/ stage[f] \in {"admitted", "running"}
  \/ f[2] = "caller" /\ f[1] \notin retrying /\ stage[f] \in {"ended", "cancelled"}
Busy(r) == \E w \in {"caller", "resumer"} : Registered(<<r, w>>)
Goto(f, place) == stage' = [stage EXCEPT ![f] = place]
Fate(R, end) == fate' = [r \in Runs |-> IF r \in R /\ fate[r] = "open" THEN end ELSE fate[r]]
--------------------------------------------------------------------------
\* Owners.  The ticket of a plain run is written once it is registered, that
\* of a retried run before its first attempt.

Admit(r) ==
  /\ up /\ ~halted /\ r \notin retrying /\ stage[First(r)] = "idle" /\ ~Busy(r)
  /\ Goto(First(r), "admitted")
  /\ UNCHANGED <<retrying, ticket, process, boot, suspension, tries, cancelled, fate, history>>

\* claimResumeTicket: Put, a new ticket.
Claim(r) ==
  /\ stage[First(r)] = IF r \in retrying THEN "idle" ELSE "admitted"
  /\ up
  /\ ticket' = [ticket EXCEPT ![r] = [status |-> "active", attempts |-> 0]]
  /\ Goto(First(r), IF r \in retrying THEN "ready" ELSE "running")
  /\ UNCHANGED <<retrying, process, boot, suspension, tries, cancelled, fate, history>>

\* RunWith by a frame that owns its ticket already: refused when halted and
\* when the run is registered, then the owner's error is final.
Attempt(f) ==
  /\ stage[f] = "ready"
  /\ IF halted \/ Busy(f[1])
       THEN Goto(f, "refused") /\ Fate({f[1]}, "forfeited")
       ELSE Goto(f, "running") /\ UNCHANGED fate
  /\ tries' = [tries EXCEPT ![f] = @ + 1]
  /\ UNCHANGED <<retrying, ticket, process, boot, suspension, cancelled, history>>

\* The agent loop ends: done or failed for good, failed and to be retried,
\* or cut off: its context was cancelled or its deadline passed, which is no
\* end of the work when the daemon suspends.
LoopEnds(f, result) ==
  /\ stage[f] = "running"
  /\ \/ result = "ended" /\ Fate({f[1]}, "finished")
     \/ result = "backoff" /\ f[1] \in retrying /\ tries[f] < MaxTries /\ UNCHANGED fate
     \/ /\ result = "cancelled"
        /\ IF f \in cancelled \/ suspending THEN UNCHANGED fate ELSE Fate({f[1]}, "finished")
  /\ Goto(f, result)
  /\ cancelled' = cancelled \ {f}
  /\ UNCHANGED <<retrying, ticket, process, boot, suspension, tries, history>>

\* The backoff is over, or the caller's context is cancelled: the wrapper
\* returns ctx.Err(), and its deferred finalize sees the last run's error.
BackoffEnds(f) ==
  /\ stage[f] = "backoff"
  /\ Goto(f, "ready")
  /\ UNCHANGED <<retrying, ticket, process, boot, suspension, tries, cancelled, fate, history>>

BackoffCancelled(f) ==
  /\ stage[f] = "backoff"
  /\ Goto(f, "refused") /\ Fate({f[1]}, "forfeited")
  /\ UNCHANGED <<retrying, ticket, process, boot, suspension, tries, cancelled, history>>

\* Mutant: the durable status is asked, not the latch.
KeepsMarked(f) == ticket[f[1]].status = "suspended" /\ stage[f] = "cancelled"

\* TerminalOutcome: a run cut off while the daemon suspends keeps its ticket.
Keeps(f) == suspending /\ stage[f] = "cancelled"

Listed(r) == listed[r] # None

\* finalizeResumeTicket, ResumeFinalize: the owner keeps or deletes the ticket.
Finalize(f) ==
  /\ stage[f] \in {"ended", "cancelled", "refused"}
  /\ ticket' = IF Keeps(f) THEN ticket ELSE [ticket EXCEPT ![f[1]] = None]
  /\ IF Keeps(f) \/ stage[f] = "refused"
       THEN UNCHANGED history
       ELSE /\ UNCHANGED dispatches
            /\ settled' = settled \cup {f[1]}
            /\ overtaken' = IF Listed(f[1]) \/ (f[2] = "caller" /\ stage[Again(f[1])] # "idle")
                              THEN overtaken \cup {f[1]} ELSE overtaken
  /\ Goto(f, IF f[2] = "caller" THEN "over" ELSE "idle")
  /\ tries' = [tries EXCEPT ![f] = 0] /\ cancelled' = cancelled \ {f}
  /\ UNCHANGED <<retrying, process, boot, suspension, fate>>
--------------------------------------------------------------------------
\* Operators and the ways down.

Cancel(F) ==
  /\ cancelled' = cancelled \cup F
  /\ IF suspending THEN UNCHANGED fate ELSE Fate({f[1] : f \in F}, "withdrawn")
  /\ UNCHANGED <<retrying, ticket, up, booted, boot, suspension, stage, tries, history>>

CancelRun(r) ==
  /\ up /\ Busy(r)
  /\ Cancel({f \in Frames : f[1] = r /\ Registered(f)})
  /\ UNCHANGED halted

\* By an operator, or after Suspend by a shutdown or an update that drains.
Halt ==
  /\ up /\ ~halted
  /\ halted' = TRUE
  /\ Cancel({f \in Frames : Registered(f)})

\* By an operator, or by an update that was given up.  The latch stays.
Resume ==
  /\ up /\ halted
  /\ halted' = FALSE
  /\ UNCHANGED <<retrying, ticket, up, booted, boot, suspension, stage, tries, cancelled, fate, history>>

\* Suspend, once the boot is done: the latch, and MarkSuspendedAll's list.
Suspend ==
  /\ up /\ ~suspending /\ read /\ scan = NoTickets
  /\ suspending' = TRUE
  /\ marking' = TRUE /\ listed' = ticket
  /\ UNCHANGED <<retrying, ticket, process, boot, stage, tries, cancelled, fate, history>>

\* The tickets of the list are written back, marked, those deleted meanwhile too.
MarkSuspended ==
  /\ marking
  /\ ticket' = [r \in Runs |-> IF listed[r].status = "active"
                                 THEN [listed[r] EXCEPT !.status = "suspended"] ELSE ticket[r]]
  /\ marking' = FALSE /\ listed' = NoTickets
  /\ UNCHANGED <<retrying, process, boot, suspending, stage, tries, cancelled, fate, history>>

\* The process ends, after a shutdown or by a crash.
Exit ==
  /\ up
  /\ up' = FALSE
  /\ read' = FALSE /\ scan' = NoTickets /\ halted' = FALSE
  /\ suspending' = FALSE /\ marking' = FALSE /\ listed' = NoTickets
  /\ stage' = [f \in Frames |-> IF f[2] = "resumer" \/ stage[f] = "idle" THEN "idle" ELSE "over"]
  /\ tries' = [f \in Frames |-> 0] /\ cancelled' = {}
  /\ Fate({r \in Runs : stage[First(r)] = "admitted"}, "unsaved")
  /\ UNCHANGED <<retrying, ticket, booted, history>>
--------------------------------------------------------------------------
\* The next boot.  The daemon's other parts start runs before the resumer reads.

Boot ==
  /\ ~up /\ booted < MaxBoots
  /\ up' = TRUE /\ booted' = booted + 1
  /\ UNCHANGED <<retrying, ticket, halted, boot, suspension, stage, tries, cancelled, fate, history>>

ReadTickets ==
  /\ up /\ ~read
  /\ read' = TRUE /\ scan' = ticket
  /\ UNCHANGED <<retrying, ticket, process, suspension, stage, tries, cancelled, fate, history>>

Scanned(r) == scan[r] # None
Forget(r) == scan' = [scan EXCEPT ![r] = None]

\* Mutant: one attempt too many.
SpentLate(t) == t.attempts > MaxAttempts

Spent(t) == t.attempts >= MaxAttempts

\* Mutant: a ticket that is not resumed stays where it is.
MovedNowhere(r) == ticket

MovedAside(r) == [ticket EXCEPT ![r] = None]

\* Attempts are spent, the settings cannot be rebuilt or the agent is gone.
Quarantine(r, faithful) ==
  /\ Scanned(r) /\ (Spent(scan[r]) \/ ~faithful)
  /\ Forget(r)
  /\ ticket' = MovedAside(r)
  /\ IF ticket[r] # None THEN Fate({r}, "quarantined") ELSE UNCHANGED fate
  /\ UNCHANGED <<retrying, process, read, suspension, stage, tries, cancelled, history>>

\* Mutant: the attempt is counted in the listed ticket, not in the file's.
CountedListed(r) == [scan[r] EXCEPT !.attempts = @ + 1]

\* IncrementAttempt; None when the file is gone.
Counted(r) == IF ticket[r] = None THEN None ELSE [ticket[r] EXCEPT !.attempts = @ + 1]

\* The attempt is counted in the file, then the frame is started.
Dispatch(r) ==
  /\ Scanned(r) /\ ~Spent(scan[r])
  /\ Forget(r)
  /\ ticket' = [ticket EXCEPT ![r] = Counted(r)]
  /\ IF Counted(r) = None
       THEN UNCHANGED <<stage, dispatches>>
       ELSE Goto(Again(r), "ready") /\ dispatches' = [dispatches EXCEPT ![r] = @ + 1]
  /\ UNCHANGED <<retrying, process, read, suspension, tries, cancelled, fate, settled, overtaken>>
--------------------------------------------------------------------------
Works(f) ==
  \/ f[2] = "caller" /\ stage[f] = "admitted" /\ Claim(f[1])
  \/ Attempt(f) \/ LoopEnds(f, "ended") \/ BackoffEnds(f) \/ Finalize(f)

Resumes(r) == \E faithful \in BOOLEAN : Quarantine(r, faithful) \/ (faithful /\ Dispatch(r))

Next ==
  \/ \E r \in Runs : \/ Admit(r) \/ Claim(r) \/ CancelRun(r) \/ Dispatch(r)
                     \/ \E faithful \in BOOLEAN : Quarantine(r, faithful)
  \/ \E f \in Frames : \/ Attempt(f) \/ BackoffEnds(f) \/ BackoffCancelled(f) \/ Finalize(f)
                       \/ \E result \in {"ended", "backoff", "cancelled"} : LoopEnds(f, result)
  \/ Halt \/ Resume \/ Suspend \/ MarkSuspended \/ Exit \/ Boot \/ ReadTickets

Spec == Init /\ [][Next]_vars

\* The boot goes on, goroutines run, and a loop ends: its rounds are bounded
\* (MaxIter), as are the attempts of a retry policy.
FairSpec ==
  /\ Spec
  /\ WF_vars(ReadTickets)
  /\ \A r \in Runs : WF_vars(Resumes(r))
  /\ \A f \in Frames : WF_vars(Works(f))
--------------------------------------------------------------------------
TypeOK ==
  /\ retrying \subseteq Runs
  /\ ticket \in [Runs -> Tickets \cup {None}]
  /\ up \in BOOLEAN /\ booted \in 1..MaxBoots /\ halted \in BOOLEAN /\ suspending \in BOOLEAN
  /\ read \in BOOLEAN /\ scan \in [Runs -> Tickets \cup {None}]
  /\ marking \in BOOLEAN /\ listed \in [Runs -> Tickets \cup {None}]
  /\ stage \in [Frames -> {"idle", "admitted", "ready", "running", "backoff",
                           "ended", "cancelled", "refused", "over"}]
  /\ tries \in [Frames -> 0..MaxTries] /\ cancelled \subseteq Frames
  /\ fate \in [Runs -> {"open", "finished", "withdrawn", "forfeited", "unsaved", "quarantined"}]
  /\ dispatches \in [Runs -> Nat] /\ settled \subseteq Runs /\ overtaken \subseteq settled

\* Work that was begun and interrupted is on disk, whenever the process ends:
\* a ticket is deleted only when the run ended, an operator cancelled it, or
\* its owner's attempt was refused or its backoff cancelled (resume.go:155-164).
InterruptedKept ==
  \A r \in Runs : stage[First(r)] \notin {"idle", "admitted"} /\ fate[r] = "open" => ticket[r] # None

\* What ended stays ended: once its ticket is deleted a run has no ticket and
\* no frame takes it up, whatever else is under way, unless a list that
\* MarkSuspendedAll writes back, or a frame already dispatched, still held it
\* (resume_ops.go:58-61, 166-176).
EndedStaysEnded ==
  \A r \in settled \ overtaken :
    ticket[r] = None /\ stage[Again(r)] \notin {"ready", "running"}

\* A run that brings the process down is dispatched at most MaxAttempts times:
\* each dispatch was counted in the file before (resume_ops.go:161-165).
AttemptsBounded == \A r \in Runs : dispatches[r] <= MaxAttempts

\* A ticket the boot found is dealt with, unless the daemon goes down or
\* suspends first: it is re-run to its end or moved aside, never left for ever.
ListedRunEnds ==
  \A r \in Runs : Scanned(r) ~> (ticket[r] = None \/ ~up \/ suspending)
==========================================================================
