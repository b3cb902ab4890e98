------------------------- MODULE Durability_proofs --------------------------
(***************************************************************************)
(* Theorems about what outlives the process: the resume tickets of         *)
(* interrupted runs, for any runs and any number of attempts, boots,       *)
(* shutdowns and crashes; and the journal, for any segment size, readers,  *)
(* faults and appends.                                                     *)
(***************************************************************************)
EXTENDS RunTickets, Journal, FiniteSetTheorems, WellFoundedInduction, TLAPS

Stages == {"idle", "admitted", "ready", "running", "backoff", "ended", "cancelled", "refused", "over"}
Fates == {"open", "finished", "withdrawn", "forfeited", "unsaved", "quarantined"}

LEMMA FrameParts ==
    /\ \A r \in Runs : /\ First(r) \in Frames /\ First(r)[1] = r /\ First(r)[2] = "caller"
                       /\ Again(r) \in Frames /\ Again(r)[1] = r /\ Again(r)[2] = "resumer"
                       /\ First(r) # Again(r)
    /\ \A f \in Frames : /\ f[1] \in Runs /\ f[2] \in {"caller", "resumer"}
                         /\ f[2] = "caller" => f = First(f[1])
                         /\ f[2] = "resumer" => f = Again(f[1])
BY DEF Frames, First, Again

\* Two frames are the same when their runs and their kinds are.
LEMMA FramesApart ==
    \A q, r \in Runs : /\ First(q) # Again(r)
                       /\ q # r => First(q) # First(r) /\ Again(q) # Again(r)
BY DEF First, Again

LEMMA TicketsApart ==
    /\ None \notin Tickets /\ None.status = "none"
    /\ \A t \in Tickets : t # None /\ t.status \in {"active", "suspended"} /\ t.attempts \in 0..MaxAttempts
BY DEF None, Tickets
-----------------------------------------------------------------------------
(***************************************************************************)
(* The shape of the variables, without the bounds on the counters.         *)
(***************************************************************************)
Files == [status : {"active", "suspended"}, attempts : Nat]

Shape ==
  /\ retrying \subseteq Runs
  /\ ticket \in [Runs -> Files \cup {None}]
  /\ scan \in [Runs -> Files \cup {None}]
  /\ listed \in [Runs -> Files \cup {None}]
  /\ up \in BOOLEAN /\ read \in BOOLEAN /\ suspending \in BOOLEAN /\ marking \in BOOLEAN
  /\ halted \in BOOLEAN /\ booted \in 1..MaxBoots
  /\ stage \in [Frames -> Stages] /\ tries \in [Frames -> Nat] /\ cancelled \subseteq Frames
  /\ fate \in [Runs -> Fates] /\ dispatches \in [Runs -> Nat]
  /\ settled \subseteq Runs /\ overtaken \subseteq settled

LEMMA FilesApart ==
    /\ None \notin Files /\ None.status = "none" /\ None.attempts = 0
    /\ \A t \in Files : /\ t # None /\ t.status \in {"active", "suspended"} /\ t.attempts \in Nat
                        /\ [t EXCEPT !.attempts = @ + 1] \in Files
                        /\ [t EXCEPT !.attempts = @ + 1].attempts = t.attempts + 1
                        /\ [t EXCEPT !.status = "suspended"] \in Files
                        /\ [t EXCEPT !.status = "suspended"].attempts = t.attempts
    /\ [status |-> "active", attempts |-> 0] \in Files
BY DEF None, Files

LEMMA FateTyped ==
    ASSUME Shape, NEW R, NEW end \in Fates \ {"open"}, Fate(R, end)
    PROVE  /\ fate' \in [Runs -> Fates]
           /\ \A r \in Runs : fate[r] # "open" \/ r \in R => fate'[r] # "open"
BY DEF Shape, Fate, Fates

LEMMA GotoStage ==
    ASSUME Shape, NEW f \in Frames, NEW place \in Stages, Goto(f, place)
    PROVE  /\ stage' \in [Frames -> Stages] /\ stage'[f] = place
           /\ \A g \in Frames \ {f} : stage'[g] = stage[g]
BY DEF Shape, Goto

LEMMA InitShape == Init => Shape
<1> SUFFICES ASSUME Init PROVE Shape
  OBVIOUS
<1>1. booted \in 1..MaxBoots
  BY TicketAssumption DEF Init
<1>2. NoTickets \in [Runs -> Files \cup {None}]
  BY DEF NoTickets
<1> QED BY <1>1, <1>2 DEF Init, Shape, Stages, Fates

LEMMA NextShape == Shape /\ [Next]_vars => Shape'
<1> SUFFICES ASSUME Shape, [Next]_vars PROVE Shape'
  OBVIOUS
<1>p. \A x \in {"idle", "admitted", "ready", "running", "backoff", "ended", "cancelled",
                "refused", "over"} : x \in Stages
  BY DEF Stages
<1>e. \A x \in {"finished", "withdrawn", "forfeited", "unsaved", "quarantined"} : x \in Fates \ {"open"}
  BY DEF Fates
<1>1. ASSUME NEW r \in Runs, Admit(r) PROVE Shape'
  BY <1>1, <1>p, FrameParts, GotoStage DEF Admit, Shape, process, boot, suspension, history
<1>2. ASSUME NEW r \in Runs, Claim(r) PROVE Shape'
  <2>1. stage' \in [Frames -> Stages]
    BY <1>2, <1>p, FrameParts, GotoStage DEF Claim
  <2> QED BY <1>2, <2>1, FilesApart DEF Claim, Shape, process, boot, suspension, history
<1>3. ASSUME NEW f \in Frames, Attempt(f) PROVE Shape'
  <2>1. stage' \in [Frames -> Stages] /\ fate' \in [Runs -> Fates]
    BY <1>3, <1>p, <1>e, FrameParts, GotoStage, FateTyped DEF Attempt, Shape
  <2>2. tries' \in [Frames -> Nat]
    BY <1>3 DEF Attempt, Shape
  <2> QED BY <1>3, <2>1, <2>2 DEF Attempt, Shape, process, boot, suspension, history
<1>4. ASSUME NEW f \in Frames, NEW result \in {"ended", "backoff", "cancelled"}, LoopEnds(f, result)
      PROVE  Shape'
  <2>1. stage' \in [Frames -> Stages] /\ fate' \in [Runs -> Fates]
    BY <1>4, <1>p, <1>e, FrameParts, GotoStage, FateTyped DEF LoopEnds, Shape
  <2> QED BY <1>4, <2>1 DEF LoopEnds, Shape, process, boot, suspension, history
<1>5. ASSUME NEW f \in Frames, BackoffEnds(f) PROVE Shape'
  BY <1>5, <1>p, GotoStage DEF BackoffEnds, Shape, process, boot, suspension, history
<1>6. ASSUME NEW f \in Frames, BackoffCancelled(f) PROVE Shape'
  <2>1. stage' \in [Frames -> Stages] /\ fate' \in [Runs -> Fates]
    BY <1>6, <1>p, <1>e, FrameParts, GotoStage, FateTyped DEF BackoffCancelled
  <2> QED BY <1>6, <2>1 DEF BackoffCancelled, Shape, process, boot, suspension, history
<1>7. ASSUME NEW f \in Frames, Finalize(f) PROVE Shape'
  <2>1. stage' \in [Frames -> Stages]
    BY <1>7, <1>p, GotoStage DEF Finalize
  <2>2. ticket' \in [Runs -> Files \cup {None}]
    BY <1>7 DEF Finalize, Shape
  <2>3. dispatches' = dispatches /\ settled' \subseteq Runs /\ overtaken' \subseteq settled'
    BY <1>7, FrameParts DEF Finalize, Shape, history
  <2>4. tries' \in [Frames -> Nat] /\ cancelled' \subseteq Frames
    BY <1>7 DEF Finalize, Shape
  <2> QED BY <1>7, <2>1, <2>2, <2>3, <2>4 DEF Finalize, Shape, process, boot, suspension
<1>c. ASSUME NEW F \in SUBSET Frames, Cancel(F), halted' \in BOOLEAN PROVE Shape'
  <2>1. fate' \in [Runs -> Fates]
    BY <1>c, <1>e, FateTyped DEF Cancel, Shape
  <2> QED BY <1>c, <2>1 DEF Cancel, Shape, boot, suspension, history
<1>8. ASSUME NEW r \in Runs, CancelRun(r) PROVE Shape'
  BY <1>8, <1>c, halted \in BOOLEAN DEF CancelRun, Shape
<1>9. CASE Halt
  BY <1>9, <1>c DEF Halt
<1>10. CASE Resume
  BY <1>10 DEF Resume, Shape, boot, suspension, history
<1>11. CASE Suspend
  BY <1>11 DEF Suspend, Shape, process, boot, history
<1>12. CASE MarkSuspended
  <2>1. ticket' \in [Runs -> Files \cup {None}]
    BY <1>12, FilesApart DEF MarkSuspended, Shape
  <2>2. listed' \in [Runs -> Files \cup {None}]
    BY <1>12 DEF MarkSuspended, NoTickets
  <2> QED BY <1>12, <2>1, <2>2 DEF MarkSuspended, Shape, process, boot, history
<1>13. CASE Exit
  <2>1. fate' \in [Runs -> Fates]
    BY <1>13, <1>e, FateTyped DEF Exit
  <2>2. stage' \in [Frames -> Stages]
    BY <1>13, <1>p DEF Exit
  <2> QED BY <1>13, <2>1, <2>2 DEF Exit, Shape, NoTickets, history
<1>14. CASE Boot
  BY TicketAssumption, <1>14 DEF Boot, Shape, boot, suspension, history
<1>15. CASE ReadTickets
  BY <1>15 DEF ReadTickets, Shape, process, suspension, history
<1>16. ASSUME NEW r \in Runs, NEW faithful \in BOOLEAN, Quarantine(r, faithful) PROVE Shape'
  <2>1. fate' \in [Runs -> Fates]
    BY <1>16, <1>e, FateTyped DEF Quarantine, Shape
  <2>2. ticket' \in [Runs -> Files \cup {None}] /\ scan' \in [Runs -> Files \cup {None}]
    BY <1>16 DEF Quarantine, MovedAside, Forget, Shape
  <2> QED BY <1>16, <2>1, <2>2 DEF Quarantine, Shape, process, suspension, history
<1>17. ASSUME NEW r \in Runs, Dispatch(r) PROVE Shape'
  <2>1. Counted(r) \in Files \cup {None}
    <3>1. ticket[r] \in Files \cup {None}
      BY DEF Shape
    <3> QED BY <3>1, FilesApart DEF Counted
  <2>2. ticket' \in [Runs -> Files \cup {None}] /\ scan' \in [Runs -> Files \cup {None}]
    BY <1>17, <2>1 DEF Dispatch, Forget, Shape
  <2>3. stage' \in [Frames -> Stages]
    <3>1. Again(r) \in Frames /\ "ready" \in Stages
      BY <1>p, FrameParts
    <3> QED BY <1>17, <3>1, GotoStage DEF Dispatch, Shape
  <2>4. dispatches' \in [Runs -> Nat]
    BY <1>17 DEF Dispatch, Shape
  <2> QED BY <1>17, <2>2, <2>3, <2>4 DEF Dispatch, Shape, process, suspension
<1>18. CASE UNCHANGED vars
  BY <1>18 DEF vars, Shape, process, boot, suspension, history
<1> QED BY <1>1, <1>2, <1>3, <1>4, <1>5, <1>6, <1>7, <1>8, <1>9, <1>10, <1>11, <1>12, <1>13, <1>14,
           <1>15, <1>16, <1>17, <1>18 DEF Next
-----------------------------------------------------------------------------
(***************************************************************************)
(* What is on disk, in the resumer's list and in MarkSuspendedAll's list.  *)
(***************************************************************************)
Early(r) == stage[First(r)] \in {"idle", "admitted"}

\* A run that has not claimed a ticket is nowhere; the resumer dispatches a
\* run at most once in a boot, from its own list; the suspension comes after.
Order ==
  /\ \A r \in Runs : Early(r) => /\ ticket[r] = None /\ scan[r] = None /\ listed[r] = None
                                 /\ dispatches[r] = 0 /\ r \notin settled /\ stage[Again(r)] = "idle"
  /\ ~read => \A r \in Runs : scan[r] = None /\ stage[Again(r)] = "idle"
  /\ \A r \in Runs : scan[r] # None => stage[Again(r)] = "idle" /\ ticket[r] \in {scan[r], None}
  /\ suspending => read /\ \A r \in Runs : scan[r] = None
  /\ marking => suspending
  /\ ~marking => \A r \in Runs : listed[r] = None

LEMMA InitOrder == Init => Order
BY FrameParts DEF Init, Order, Early, NoTickets

\* A step of one frame that touches no list: it was under way, and goes on.
LEMMA OrderFrame ==
    ASSUME Shape, Order, NEW f \in Frames, NEW place \in Stages \ {"idle", "admitted"},
           stage[f] \notin {"idle", "admitted"}, Goto(f, place),
           UNCHANGED <<ticket, boot, suspension, history>>
    PROVE  Order'
<1>1. stage'[f] = place /\ \A g \in Frames \ {f} : stage'[g] = stage[g]
  BY GotoStage
<1> QED BY <1>1, FrameParts DEF Order, Early, boot, suspension, history

LEMMA NextOrder == Shape /\ Order /\ [Next]_vars => Order'
<1> SUFFICES ASSUME Shape, Order, [Next]_vars PROVE Order'
  OBVIOUS
<1>p. /\ \A x \in {"ready", "running", "backoff", "ended", "cancelled", "refused", "over"} :
           x \in Stages \ {"idle", "admitted"}
      /\ "idle" \in Stages /\ "admitted" \in Stages
  BY DEF Stages
<1>1. ASSUME NEW r \in Runs, Admit(r) PROVE Order'
  <2>1. Early(r) /\ stage'[First(r)] = "admitted" /\ \A g \in Frames \ {First(r)} : stage'[g] = stage[g]
    BY <1>1, <1>p, FrameParts, GotoStage DEF Admit, Early
  <2> QED BY <1>1, <2>1, FrameParts, FramesApart DEF Admit, Order, Early, boot, suspension, history
<1>2. ASSUME NEW r \in Runs, Claim(r) PROVE Order'
  <2>1. Early(r)
    BY <1>2 DEF Claim, Early
  <2>2. ~Early(r)' /\ \A g \in Frames \ {First(r)} : stage'[g] = stage[g]
    BY <1>2, <1>p, FrameParts, GotoStage DEF Claim, Early
  <2>3. \A q \in Runs \ {r} : ticket'[q] = ticket[q]
    BY <1>2 DEF Claim, Shape
  <2> QED BY <1>2, <2>1, <2>2, <2>3, FrameParts, FramesApart DEF Claim, Order, Early, boot, suspension, history
<1>3. ASSUME NEW f \in Frames, Attempt(f) PROVE Order'
  BY <1>3, <1>p, OrderFrame DEF Attempt
<1>4. ASSUME NEW f \in Frames, NEW result \in {"ended", "backoff", "cancelled"}, LoopEnds(f, result)
      PROVE  Order'
  BY <1>4, <1>p, OrderFrame DEF LoopEnds
<1>5. ASSUME NEW f \in Frames, BackoffEnds(f) PROVE Order'
  BY <1>5, <1>p, OrderFrame DEF BackoffEnds
<1>6. ASSUME NEW f \in Frames, BackoffCancelled(f) PROVE Order'
  BY <1>6, <1>p, OrderFrame DEF BackoffCancelled
<1>7. ASSUME NEW f \in Frames, Finalize(f) PROVE Order'
  <2>1. \A q \in Runs : ticket'[q] \in {ticket[q], None}
    BY <1>7 DEF Finalize, Shape
  <2>2. /\ stage'[f] = IF f[2] = "caller" THEN "over" ELSE "idle"
        /\ \A g \in Frames \ {f} : stage'[g] = stage[g]
    BY <1>7, <1>p, GotoStage DEF Finalize
  <2>3. stage[f] \notin {"idle", "admitted"} /\ ~Early(f[1])
    BY <1>7, FrameParts DEF Finalize, Order, Early
  <2>4. \A q \in Runs : /\ Early(q)' => Early(q)
                        /\ stage'[Again(q)] \in {stage[Again(q)], "idle"}
    BY <2>2, <2>3, FrameParts DEF Early
  <2>5. dispatches' = dispatches /\ settled' \in {settled, settled \cup {f[1]}}
    BY <1>7 DEF Finalize, history
  <2>6. \A q \in Runs : q \in settled' => q \in settled \/ q = f[1]
    BY <2>5
  <2> QED BY <1>7, <2>1, <2>3, <2>4, <2>5, <2>6 DEF Finalize, Order, boot, suspension
<1>8. ASSUME NEW r \in Runs, CancelRun(r) PROVE Order'
  BY <1>8 DEF CancelRun, Cancel, Order, Early, boot, suspension, history
<1>9. CASE Halt
  BY <1>9 DEF Halt, Cancel, Order, Early, boot, suspension, history
<1>10. CASE Resume
  BY <1>10 DEF Resume, Order, Early, boot, suspension, history
<1>11. CASE Suspend
  BY <1>11 DEF Suspend, Order, Early, boot, process, history, NoTickets
<1>12. CASE MarkSuspended
  <2>1. \A r \in Runs : scan[r] = None /\ scan' = scan
    BY <1>12 DEF MarkSuspended, Order, boot
  <2>2. \A r \in Runs : Early(r) => ticket'[r] = None
    BY <1>12, FilesApart DEF MarkSuspended, Order
  <2> QED BY <1>12, <2>1, <2>2 DEF MarkSuspended, Order, Early, boot, history, NoTickets
<1>13. CASE Exit
  <2>1. \A r \in Runs : Early(r)' => Early(r)
    BY <1>13, FrameParts DEF Exit, Early
  <2>2. \A r \in Runs : stage'[Again(r)] = "idle"
    BY <1>13, FrameParts DEF Exit
  <2> QED BY <1>13, <2>1, <2>2 DEF Exit, Order, NoTickets, history
<1>14. CASE Boot
  BY <1>14 DEF Boot, Order, Early, boot, suspension, history
<1>15. CASE ReadTickets
  BY <1>15 DEF ReadTickets, Order, Early, suspension, history
<1>16. ASSUME NEW r \in Runs, NEW faithful \in BOOLEAN, Quarantine(r, faithful) PROVE Order'
  <2>1. /\ scan'[r] = None /\ \A q \in Runs \ {r} : scan'[q] = scan[q]
        /\ ticket'[r] = None /\ \A q \in Runs \ {r} : ticket'[q] = ticket[q]
    BY <1>16 DEF Quarantine, Forget, MovedAside, Shape
  <2>2. scan[r] # None
    BY <1>16 DEF Quarantine, Scanned
  <2> QED BY <1>16, <2>1, <2>2 DEF Quarantine, Order, Early, suspension, history
<1>17. ASSUME NEW r \in Runs, Dispatch(r) PROVE Order'
  <2>1. /\ scan'[r] = None /\ \A q \in Runs \ {r} : scan'[q] = scan[q] /\ ticket'[q] = ticket[q]
    BY <1>17 DEF Dispatch, Forget, Shape
  <2>2. scan[r] # None /\ ~Early(r) /\ read
    BY <1>17 DEF Dispatch, Scanned, Order
  <2>3. \A g \in Frames \ {Again(r)} : stage'[g] = stage[g]
    BY <1>17, <1>p, FrameParts, GotoStage DEF Dispatch
  <2>4. \A q \in Runs \ {r} : dispatches'[q] = dispatches[q]
    BY <1>17 DEF Dispatch, Shape
  <2>5. \A q \in Runs : Early(q)' => q # r /\ Early(q)
    BY <2>2, <2>3, FrameParts, FramesApart DEF Early
  <2>6. read' = read /\ UNCHANGED suspension /\ settled' = settled
    BY <1>17 DEF Dispatch
  <2> QED BY <2>1, <2>2, <2>3, <2>4, <2>5, <2>6, FrameParts, FramesApart DEF Order, Early, suspension
<1>18. CASE UNCHANGED vars
  BY <1>18 DEF vars, Order, Early, boot, suspension, history
<1> QED BY <1>1, <1>2, <1>3, <1>4, <1>5, <1>6, <1>7, <1>8, <1>9, <1>10, <1>11, <1>12, <1>13, <1>14,
           <1>15, <1>16, <1>17, <1>18 DEF Next
-----------------------------------------------------------------------------
(***************************************************************************)
(* InterruptedKept: a ticket is deleted only by a frame whose end decided  *)
(* the run, and a frame that is cancelled while nothing suspends was       *)
(* cancelled by an operator.                                               *)
(***************************************************************************)
Decided ==
  /\ \A f \in Frames : stage[f] \in {"ended", "refused"} => fate[f[1]] # "open"
  /\ ~suspending => \A f \in Frames : stage[f] = "cancelled" \/ f \in cancelled => fate[f[1]] # "open"
  /\ InterruptedKept

LEMMA InitDecided == Init => Decided
BY FrameParts DEF Init, Decided, InterruptedKept

\* What was decided stays decided.
LEMMA DecidedFrame ==
    ASSUME Shape, Decided, NEW f \in Frames, NEW place \in Stages, Goto(f, place),
           stage[f] \notin {"idle", "admitted"},
           \A r \in Runs : fate[r] # "open" => fate'[r] # "open",
           place \in {"ended", "refused", "cancelled"} =>
             fate'[f[1]] # "open" \/ (place = "cancelled" /\ suspending),
           cancelled' \subseteq cancelled,
           UNCHANGED <<ticket, suspending>>
    PROVE  Decided'
<1>1. stage'[f] = place /\ \A g \in Frames \ {f} : stage'[g] = stage[g]
  BY GotoStage
<1>2. \A g \in Frames : stage'[g] \in {"ended", "refused"} => fate'[g[1]] # "open"
  BY <1>1, FrameParts DEF Decided
<1>3. ~suspending => \A g \in Frames : stage'[g] = "cancelled" \/ g \in cancelled' => fate'[g[1]] # "open"
  BY <1>1, FrameParts DEF Decided
<1>4. InterruptedKept'
  BY <1>1, FrameParts DEF Decided, InterruptedKept
<1> QED BY <1>2, <1>3, <1>4 DEF Decided

LEMMA NextDecided == Shape /\ Order /\ Decided /\ [Next]_vars => Decided'
<1> SUFFICES ASSUME Shape, Order, Decided, [Next]_vars PROVE Decided'
  OBVIOUS
<1>p. \A x \in {"idle", "admitted", "ready", "running", "backoff", "ended", "cancelled",
                "refused", "over"} : x \in Stages
  BY DEF Stages
<1>e. \A x \in {"finished", "withdrawn", "forfeited", "unsaved", "quarantined"} : x \in Fates \ {"open"}
  BY DEF Fates
<1>1. ASSUME NEW r \in Runs, Admit(r) PROVE Decided'
  <2>1. stage'[First(r)] = "admitted" /\ \A g \in Frames \ {First(r)} : stage'[g] = stage[g]
    BY <1>1, <1>p, FrameParts, GotoStage DEF Admit
  <2> QED BY <1>1, <2>1, FrameParts DEF Admit, Decided, InterruptedKept, suspension
<1>2. ASSUME NEW r \in Runs, Claim(r) PROVE Decided'
  <2>1. /\ stage'[First(r)] \in {"ready", "running"}
        /\ \A g \in Frames \ {First(r)} : stage'[g] = stage[g]
    BY <1>2, <1>p, FrameParts, GotoStage DEF Claim
  <2>2. ticket'[r] # None /\ \A q \in Runs \ {r} : ticket'[q] = ticket[q]
    BY <1>2, FilesApart DEF Claim, Shape
  <2>3. InterruptedKept'
    BY <1>2, <2>1, <2>2, FrameParts, FramesApart DEF Claim, Decided, InterruptedKept
  <2> QED BY <1>2, <2>1, <2>3, FrameParts DEF Claim, Decided, suspension
<1>3. ASSUME NEW f \in Frames, Attempt(f) PROVE Decided'
  <2>1. PICK place \in {"refused", "running"} :
          Goto(f, place) /\ (place = "refused" => Fate({f[1]}, "forfeited")) /\ (place = "running" => fate' = fate)
    BY <1>3 DEF Attempt
  <2>2. /\ \A r \in Runs : fate[r] # "open" => fate'[r] # "open"
        /\ place = "refused" => fate'[f[1]] # "open"
    BY <1>e, <2>1, FrameParts, FateTyped
  <2> QED BY <1>3, <1>p, <2>1, <2>2, DecidedFrame DEF Attempt, suspension
<1>4. ASSUME NEW f \in Frames, NEW result \in {"ended", "backoff", "cancelled"}, LoopEnds(f, result)
      PROVE  Decided'
  <2>1. \A r \in Runs : fate[r] # "open" => fate'[r] # "open"
    BY <1>4, <1>e, FateTyped DEF LoopEnds
  <2>2. result = "ended" => fate'[f[1]] # "open"
    BY <1>4, <1>e, FrameParts, FateTyped DEF LoopEnds
  <2>3. result = "cancelled" => fate'[f[1]] # "open" \/ suspending
    BY <1>4, <1>e, FrameParts, FateTyped DEF LoopEnds, Decided
  <2> QED BY <1>4, <1>p, <2>1, <2>2, <2>3, DecidedFrame DEF LoopEnds, suspension
<1>5. ASSUME NEW f \in Frames, BackoffEnds(f) PROVE Decided'
  BY <1>5, <1>p, DecidedFrame DEF BackoffEnds, suspension
<1>6. ASSUME NEW f \in Frames, BackoffCancelled(f) PROVE Decided'
  <2>1. (\A r \in Runs : fate[r] # "open" => fate'[r] # "open") /\ fate'[f[1]] # "open"
    BY <1>6, <1>e, FrameParts, FateTyped DEF BackoffCancelled
  <2> QED BY <1>6, <1>p, <2>1, DecidedFrame DEF BackoffCancelled, suspension
<1>7. ASSUME NEW f \in Frames, Finalize(f) PROVE Decided'
  <2>1. /\ stage'[f] \in {"over", "idle"} /\ \A g \in Frames \ {f} : stage'[g] = stage[g]
    BY <1>7, <1>p, GotoStage DEF Finalize
  <2>2. fate' = fate /\ suspending' = suspending /\ cancelled' \subseteq cancelled
    BY <1>7 DEF Finalize, suspension
  <2>3. CASE Keeps(f)
    <3>1. ticket' = ticket
      BY <1>7, <2>3 DEF Finalize
    <3>2. stage[f] \notin {"idle", "admitted"}
      BY <1>7 DEF Finalize
    <3> QED BY <2>1, <2>2, <3>1, <3>2, FrameParts DEF Decided, InterruptedKept
  <2>4. CASE ~Keeps(f)
    <3>1. fate[f[1]] # "open"
      BY <1>7, <2>4 DEF Finalize, Keeps, Decided
    <3>2. \A q \in Runs \ {f[1]} : ticket'[q] = ticket[q]
      BY <1>7, <2>4 DEF Finalize, Shape
    <3>3. InterruptedKept'
      BY <2>1, <2>2, <3>1, <3>2, FrameParts DEF Decided, InterruptedKept
    <3> QED BY <2>1, <2>2, <3>3 DEF Decided
  <2> QED BY <2>3, <2>4
<1>c. ASSUME NEW F \in SUBSET Frames, Cancel(F) PROVE Decided'
  <2>1. CASE suspending
    BY <1>c, <2>1 DEF Cancel, Decided, InterruptedKept, suspension
  <2>2. CASE ~suspending
    <3>1. \A r \in Runs : fate[r] # "open" \/ r \in {f[1] : f \in F} => fate'[r] # "open"
      BY <1>c, <2>2, <1>e, FateTyped DEF Cancel
    <3>2. \A f \in F : f[1] \in Runs /\ fate'[f[1]] # "open"
      BY <3>1, FrameParts
    <3> QED BY <1>c, <2>2, <3>1, <3>2, FrameParts DEF Cancel, Decided, InterruptedKept, suspension
  <2> QED BY <2>1, <2>2
<1>8. ASSUME NEW r \in Runs, CancelRun(r) PROVE Decided'
  BY <1>8, <1>c DEF CancelRun
<1>9. CASE Halt
  BY <1>9, <1>c DEF Halt
<1>10. CASE Resume
  BY <1>10 DEF Resume, Decided, InterruptedKept, suspension
<1>11. CASE Suspend
  BY <1>11 DEF Suspend, Decided, InterruptedKept
<1>12. CASE MarkSuspended
  <2>1. ASSUME NEW r \in Runs, ticket[r] # None PROVE ticket'[r] # None
    <3>1. CASE listed[r].status = "active"
      <4>1. listed[r] \in Files \cup {None} /\ ticket'[r] = [listed[r] EXCEPT !.status = "suspended"]
        BY <1>12, <3>1 DEF MarkSuspended, Shape
      <4> QED BY <3>1, <4>1, FilesApart
    <3>2. CASE listed[r].status # "active"
      BY <1>12, <2>1, <3>2 DEF MarkSuspended
    <3> QED BY <3>1, <3>2
  <2> QED BY <1>12, <2>1 DEF MarkSuspended, Decided, InterruptedKept
<1>13. CASE Exit
  <2>1. \A f \in Frames : stage'[f] \in {"idle", "over"}
    BY <1>13 DEF Exit
  <2>2. \A r \in Runs : fate[r] # "open" \/ stage[First(r)] = "admitted" => fate'[r] # "open"
    BY <1>13, <1>e, FateTyped DEF Exit
  <2>3. \A r \in Runs : stage'[First(r)] # "idle" => stage[First(r)] # "idle"
    BY <1>13, FrameParts DEF Exit
  <2>4. InterruptedKept'
    BY <1>13, <2>2, <2>3, FrameParts DEF Exit, Decided, InterruptedKept
  <2> QED BY <1>13, <2>1, <2>4 DEF Exit, Decided
<1>14. CASE Boot
  BY <1>14 DEF Boot, Decided, InterruptedKept, suspension
<1>15. CASE ReadTickets
  BY <1>15 DEF ReadTickets, Decided, InterruptedKept, suspension
<1>16. ASSUME NEW r \in Runs, NEW faithful \in BOOLEAN, Quarantine(r, faithful) PROVE Decided'
  <2>1. \A q \in Runs \ {r} : ticket'[q] = ticket[q]
    BY <1>16 DEF Quarantine, MovedAside, Shape
  <2>2. \A q \in Runs : fate[q] # "open" => fate'[q] # "open"
    BY <1>16, <1>e, FateTyped DEF Quarantine
  <2>3. ticket[r] # None => fate'[r] # "open"
    BY <1>16, <1>e, FateTyped DEF Quarantine
  <2>4. InterruptedKept'
    BY <1>16, <2>1, <2>2, <2>3 DEF Quarantine, Decided, InterruptedKept
  <2> QED BY <1>16, <2>2, <2>4, FrameParts DEF Quarantine, Decided, suspension
<1>17. ASSUME NEW r \in Runs, Dispatch(r) PROVE Decided'
  <2>1. ticket[r] # None => Counted(r) # None
    <3>1. ticket[r] \in Files \cup {None}
      BY DEF Shape
    <3> QED BY <3>1, FilesApart DEF Counted
  <2>2. \A q \in Runs : ticket[q] # None => ticket'[q] # None
    BY <1>17, <2>1 DEF Dispatch, Shape
  <2>3. /\ \A g \in Frames \ {Again(r)} : stage'[g] = stage[g]
        /\ stage'[Again(r)] \in {"ready", stage[Again(r)]}
    BY <1>17, <1>p, FrameParts, GotoStage DEF Dispatch
  <2>4. InterruptedKept'
    BY <1>17, <2>2, <2>3, FrameParts, FramesApart DEF Dispatch, Decided, InterruptedKept
  <2> QED BY <1>17, <2>3, <2>4 DEF Dispatch, Decided, suspension
<1>18. CASE UNCHANGED vars
  BY <1>18 DEF vars, Decided, InterruptedKept, suspension
<1> QED BY <1>1, <1>2, <1>3, <1>4, <1>5, <1>6, <1>7, <1>8, <1>9, <1>10, <1>11, <1>12, <1>13, <1>14,
           <1>15, <1>16, <1>17, <1>18 DEF Next
-----------------------------------------------------------------------------
(***************************************************************************)
(* EndedStaysEnded: of what is settled and not overtaken nothing is left to*)
(* write the ticket back or to take the run up.                            *)
(***************************************************************************)
Ended == \A r \in settled \ overtaken :
           ticket[r] = None /\ listed[r] = None /\ stage[Again(r)] = "idle"

LEMMA InitEnded == Init => Ended
BY DEF Init, Ended

LEMMA NextEnded == Shape /\ Order /\ Ended /\ [Next]_vars => Ended'
<1> SUFFICES ASSUME Shape, Order, Ended, [Next]_vars PROVE Ended'
  OBVIOUS
<1>p. \A x \in {"idle", "admitted", "ready", "running", "backoff", "ended", "cancelled",
                "refused", "over"} : x \in Stages
  BY DEF Stages
<1>s. settled \subseteq Runs
  BY DEF Shape
\* A frame under way that goes on: no settled run's Again is under way.
<1>f. ASSUME NEW f \in Frames, NEW place \in Stages, Goto(f, place),
             stage[f] # "idle" \/ f[2] = "caller", UNCHANGED <<ticket, suspension, history>>
      PROVE  Ended'
  <2>1. \A g \in Frames \ {f} : stage'[g] = stage[g]
    BY <1>f, GotoStage
  <2> QED BY <1>f, <1>s, <2>1, FrameParts DEF Ended, suspension, history
<1>1. ASSUME NEW r \in Runs, Admit(r) PROVE Ended'
  BY <1>1, <1>p, <1>f, FrameParts DEF Admit
<1>2. ASSUME NEW r \in Runs, Claim(r) PROVE Ended'
  <2>1. r \notin settled
    BY <1>2 DEF Claim, Order, Early
  <2>2. \A q \in Runs \ {r} : ticket'[q] = ticket[q]
    BY <1>2 DEF Claim, Shape
  <2>3. \A g \in Frames \ {First(r)} : stage'[g] = stage[g]
    BY <1>2, <1>p, FrameParts, GotoStage DEF Claim
  <2> QED BY <1>2, <1>s, <2>1, <2>2, <2>3, FrameParts, FramesApart DEF Claim, Ended, suspension, history
<1>3. ASSUME NEW f \in Frames, Attempt(f) PROVE Ended'
  BY <1>3, <1>p, <1>f DEF Attempt
<1>4. ASSUME NEW f \in Frames, NEW result \in {"ended", "backoff", "cancelled"}, LoopEnds(f, result)
      PROVE  Ended'
  BY <1>4, <1>p, <1>f DEF LoopEnds
<1>5. ASSUME NEW f \in Frames, BackoffEnds(f) PROVE Ended'
  BY <1>5, <1>p, <1>f DEF BackoffEnds
<1>6. ASSUME NEW f \in Frames, BackoffCancelled(f) PROVE Ended'
  BY <1>6, <1>p, <1>f DEF BackoffCancelled
<1>7. ASSUME NEW f \in Frames, Finalize(f) PROVE Ended'
  <2>1. \A q \in Runs : ticket'[q] \in {ticket[q], None}
    BY <1>7 DEF Finalize, Shape
  <2>2. /\ stage'[f] = IF f[2] = "caller" THEN "over" ELSE "idle"
        /\ \A g \in Frames \ {f} : stage'[g] = stage[g]
    BY <1>7, <1>p, GotoStage DEF Finalize
  <2>3. \A q \in Runs : stage'[Again(q)] \in {stage[Again(q)], "idle"}
    BY <2>2, FrameParts
  <2>4. listed' = listed
    BY <1>7 DEF Finalize, suspension
  <2>5. CASE UNCHANGED history
    BY <1>s, <2>1, <2>3, <2>4, <2>5 DEF Ended, history
  <2>6. CASE ~UNCHANGED history
    <3>1. /\ ~Keeps(f) /\ settled' = settled \cup {f[1]}
          /\ overtaken' = IF Listed(f[1]) \/ (f[2] = "caller" /\ stage[Again(f[1])] # "idle")
                            THEN overtaken \cup {f[1]} ELSE overtaken
      BY <1>7, <2>6 DEF Finalize
    <3>2. ticket'[f[1]] = None
      BY <1>7, <3>1, FrameParts DEF Finalize, Shape
    <3>3. f[1] \notin overtaken' => listed'[f[1]] = None /\ stage'[Again(f[1])] = "idle"
      BY <2>2, <2>4, <3>1, FrameParts DEF Listed
    <3>4. \A q \in settled' \ overtaken' : q = f[1] \/ q \in settled \ overtaken
      BY <3>1
    <3> QED BY <1>s, <2>1, <2>3, <2>4, <3>2, <3>3, <3>4 DEF Ended
  <2> QED BY <2>5, <2>6
<1>8. ASSUME NEW r \in Runs, CancelRun(r) PROVE Ended'
  BY <1>8 DEF CancelRun, Cancel, Ended, suspension, history
<1>9. CASE Halt
  BY <1>9 DEF Halt, Cancel, Ended, suspension, history
<1>10. CASE Resume
  BY <1>10 DEF Resume, Ended, suspension, history
<1>11. CASE Suspend
  BY <1>11 DEF Suspend, Ended, history
<1>12. CASE MarkSuspended
  BY <1>12, <1>s, FilesApart DEF MarkSuspended, Ended, NoTickets, history
<1>13. CASE Exit
  BY <1>13, <1>s, FrameParts DEF Exit, Ended, NoTickets, history
<1>14. CASE Boot
  BY <1>14 DEF Boot, Ended, suspension, history
<1>15. CASE ReadTickets
  BY <1>15 DEF ReadTickets, Ended, suspension, history
<1>16. ASSUME NEW r \in Runs, NEW faithful \in BOOLEAN, Quarantine(r, faithful) PROVE Ended'
  <2>1. \A q \in Runs : ticket'[q] \in {ticket[q], None}
    BY <1>16 DEF Quarantine, MovedAside, Shape
  <2> QED BY <1>16, <1>s, <2>1 DEF Quarantine, Ended, suspension, history
<1>17. ASSUME NEW r \in Runs, Dispatch(r) PROVE Ended'
  <2>1. \A q \in Runs \ {r} : ticket'[q] = ticket[q]
    BY <1>17 DEF Dispatch, Shape
  <2>2. \A g \in Frames \ {Again(r)} : stage'[g] = stage[g]
    BY <1>17, <1>p, FrameParts, GotoStage DEF Dispatch
  <2>3. ticket[r] = None => ticket'[r] = None /\ stage' = stage
    BY <1>17 DEF Dispatch, Counted, Shape
  <2> QED BY <1>17, <1>s, <2>1, <2>2, <2>3, FrameParts, FramesApart DEF Dispatch, Ended, suspension
<1>18. CASE UNCHANGED vars
  BY <1>18 DEF vars, Ended, suspension, history
<1> QED BY <1>1, <1>2, <1>3, <1>4, <1>5, <1>6, <1>7, <1>8, <1>9, <1>10, <1>11, <1>12, <1>13, <1>14,
           <1>15, <1>16, <1>17, <1>18 DEF Next
-----------------------------------------------------------------------------
(***************************************************************************)
(* AttemptsBounded: no copy of a ticket counts fewer attempts than the     *)
(* resumer has made, and it makes one more only while they are not spent.  *)
(***************************************************************************)
Within(t) == t.attempts \in 0..MaxAttempts

Attempts ==
  \A r \in Runs :
    /\ dispatches[r] <= MaxAttempts
    /\ Within(ticket[r]) /\ Within(scan[r]) /\ Within(listed[r])
    /\ ticket[r] # None => dispatches[r] <= ticket[r].attempts
    /\ listed[r] # None => dispatches[r] <= listed[r].attempts

LEMMA InitAttempts == Init => Attempts
<1> SUFFICES ASSUME Init, NEW r \in Runs
             PROVE  /\ dispatches[r] = 0 /\ 0 <= MaxAttempts /\ 0 \in 0..MaxAttempts
                    /\ ticket[r] = None /\ scan[r] = None /\ listed[r] = None
  BY FilesApart DEF Attempts, Within
<1> QED BY TicketAssumption DEF Init, NoTickets

LEMMA NextAttempts == Shape /\ Order /\ Attempts /\ [Next]_vars => Attempts'
<1> SUFFICES ASSUME Shape, Order, Attempts, [Next]_vars PROVE Attempts'
  OBVIOUS
<1>l. MaxAttempts \in Nat \ {0} /\ Within(None)
  BY TicketAssumption, FilesApart DEF Within
\* Steps that write no ticket and no list.
<1>f. ASSUME UNCHANGED <<ticket, scan, listed, dispatches>> PROVE Attempts'
  BY <1>f DEF Attempts, Within
\* Steps that delete tickets.
<1>d. ASSUME \A r \in Runs : ticket'[r] \in {ticket[r], None} /\ scan'[r] \in {scan[r], None}
                              /\ listed'[r] \in {listed[r], None}, dispatches' = dispatches
      PROVE  Attempts'
  BY <1>d, <1>l DEF Attempts, Within
<1>1. ASSUME NEW r \in Runs, Admit(r) PROVE Attempts'
  BY <1>1, <1>f DEF Admit, boot, suspension, history
<1>2. ASSUME NEW r \in Runs, Claim(r) PROVE Attempts'
  <2>1. dispatches[r] = 0 /\ listed[r] = None
    BY <1>2 DEF Claim, Order, Early
  <2>2. ticket'[r].attempts = 0 /\ \A q \in Runs \ {r} : ticket'[q] = ticket[q]
    BY <1>2 DEF Claim, Shape
  <2>3. UNCHANGED <<scan, listed, dispatches>>
    BY <1>2 DEF Claim, boot, suspension, history
  <2> QED BY <1>l, <2>1, <2>2, <2>3 DEF Attempts, Within
<1>3. ASSUME NEW f \in Frames, Attempt(f) PROVE Attempts'
  BY <1>3, <1>f DEF Attempt, boot, suspension, history
<1>4. ASSUME NEW f \in Frames, NEW result \in {"ended", "backoff", "cancelled"}, LoopEnds(f, result)
      PROVE  Attempts'
  BY <1>4, <1>f DEF LoopEnds, boot, suspension, history
<1>5. ASSUME NEW f \in Frames, BackoffEnds(f) \/ BackoffCancelled(f) PROVE Attempts'
  BY <1>5, <1>f DEF BackoffEnds, BackoffCancelled, boot, suspension, history
<1>7. ASSUME NEW f \in Frames, Finalize(f) PROVE Attempts'
  <2>1. \A q \in Runs : ticket'[q] \in {ticket[q], None}
    BY <1>7 DEF Finalize, Shape
  <2>2. UNCHANGED <<scan, listed, dispatches>>
    BY <1>7 DEF Finalize, boot, suspension, history
  <2> QED BY <1>d, <2>1, <2>2
<1>8. ASSUME NEW r \in Runs, CancelRun(r) PROVE Attempts'
  BY <1>8, <1>f DEF CancelRun, Cancel, boot, suspension, history
<1>9. CASE Halt \/ Resume \/ Boot
  BY <1>9, <1>f DEF Halt, Resume, Boot, Cancel, boot, suspension, history
<1>11. CASE Suspend
  <2>1. listed' = ticket /\ UNCHANGED <<ticket, scan, dispatches>>
    BY <1>11 DEF Suspend, boot, history
  <2> QED BY <2>1 DEF Attempts, Within
<1>12. CASE MarkSuspended
  <2>1. /\ scan' = scan /\ dispatches' = dispatches /\ \A r \in Runs : listed'[r] = None
        /\ \A r \in Runs : ticket'[r] = IF listed[r].status = "active"
                                          THEN [listed[r] EXCEPT !.status = "suspended"] ELSE ticket[r]
    BY <1>12 DEF MarkSuspended, NoTickets, boot, history
  <2>2. \A r \in Runs : listed[r].status = "active" =>
          listed[r] # None /\ ticket'[r].attempts = listed[r].attempts
    <3> SUFFICES ASSUME NEW r \in Runs, listed[r].status = "active"
                 PROVE  listed[r] # None /\ ticket'[r].attempts = listed[r].attempts
      OBVIOUS
    <3>1. listed[r] \in Files
      BY FilesApart DEF Shape
    <3> QED BY <2>1, <3>1, FilesApart
  <2> QED BY <1>l, <2>1, <2>2 DEF Attempts, Within
<1>13. CASE Exit
  <2>1. /\ UNCHANGED <<ticket, dispatches>> /\ \A r \in Runs : scan'[r] = None /\ listed'[r] = None
    BY <1>13 DEF Exit, NoTickets, history
  <2> QED BY <1>d, <2>1
<1>15. CASE ReadTickets
  <2>1. scan' = ticket /\ UNCHANGED <<ticket, listed, dispatches>>
    BY <1>15 DEF ReadTickets, suspension, history
  <2> QED BY <2>1 DEF Attempts, Within
<1>16. ASSUME NEW r \in Runs, NEW faithful \in BOOLEAN, Quarantine(r, faithful) PROVE Attempts'
  <2>1. \A q \in Runs : ticket'[q] \in {ticket[q], None} /\ scan'[q] \in {scan[q], None}
    BY <1>16 DEF Quarantine, MovedAside, Forget, Shape
  <2>2. UNCHANGED <<listed, dispatches>>
    BY <1>16 DEF Quarantine, suspension, history
  <2> QED BY <1>d, <2>1, <2>2
<1>17. ASSUME NEW r \in Runs, Dispatch(r) PROVE Attempts'
  <2>1. \A q \in Runs : scan'[q] \in {scan[q], None}
    BY <1>17 DEF Dispatch, Forget, Shape
  <2>2. listed' = listed /\ listed[r] = None
    BY <1>17 DEF Dispatch, Scanned, Order, suspension
  <2>3. ticket[r] \in Files \cup {None} /\ dispatches[r] \in Nat
    BY DEF Shape
  <2>4. CASE ticket[r] = None
    <3>1. dispatches' = dispatches /\ \A q \in Runs : ticket'[q] \in {ticket[q], None}
      BY <1>17, <2>4 DEF Dispatch, Counted, Shape
    <3> QED BY <1>d, <2>1, <2>2, <3>1
  <2>5. CASE ticket[r] # None
    <3>1. ticket[r] = scan[r] /\ ~(scan[r].attempts >= MaxAttempts)
      BY <1>17, <2>5 DEF Dispatch, Scanned, Spent, Order
    <3>2. ticket[r].attempts \in Nat /\ Counted(r).attempts = ticket[r].attempts + 1 /\ Counted(r) # None
      BY <2>3, <2>5, FilesApart DEF Counted
    <3>3. ticket'[r] = Counted(r) /\ \A q \in Runs \ {r} : ticket'[q] = ticket[q]
      BY <1>17 DEF Dispatch, Shape
    <3>4. dispatches'[r] = dispatches[r] + 1 /\ \A q \in Runs \ {r} : dispatches'[q] = dispatches[q]
      BY <1>17, <3>2 DEF Dispatch, Shape
    <3>5. dispatches[r] <= ticket[r].attempts
      BY <2>5 DEF Attempts
    <3>6. dispatches'[r] <= ticket'[r].attempts /\ ticket'[r].attempts \in 0..MaxAttempts
          /\ dispatches'[r] <= MaxAttempts
      BY <1>l, <2>3, <3>1, <3>2, <3>3, <3>4, <3>5
    <3> QED BY <1>l, <2>1, <2>2, <3>3, <3>4, <3>6 DEF Attempts, Within
  <2> QED BY <2>4, <2>5
<1>18. CASE UNCHANGED vars
  BY <1>18, <1>f DEF vars, boot, suspension, history
<1> QED BY <1>1, <1>2, <1>3, <1>4, <1>5, <1>7, <1>8, <1>9, <1>11, <1>12, <1>13,
           <1>15, <1>16, <1>17, <1>18 DEF Next
-----------------------------------------------------------------------------
(***************************************************************************)
(* The attempts of a retry policy.                                         *)
(***************************************************************************)
Tried ==
  \A f \in Frames :
    /\ tries[f] <= MaxTries
    /\ stage[f] \in {"ready", "backoff"} => tries[f] < MaxTries
    /\ stage[f] \in {"idle", "admitted"} => tries[f] = 0

LEMMA InitTried == Init => Tried
BY TicketAssumption DEF Init, Tried

LEMMA NextTried == Shape /\ Order /\ Tried /\ [Next]_vars => Tried'
<1> SUFFICES ASSUME Shape, Order, Tried, [Next]_vars PROVE Tried'
  OBVIOUS
<1>p. /\ \A x \in {"idle", "admitted", "ready", "running", "backoff", "ended", "cancelled",
                   "refused", "over"} : x \in Stages
      /\ MaxTries \in Nat \ {0} /\ \A f \in Frames : tries[f] \in Nat
  BY TicketAssumption DEF Stages, Shape
<1>1. ASSUME NEW r \in Runs, Admit(r) PROVE Tried'
  <2>1. stage'[First(r)] = "admitted" /\ \A g \in Frames \ {First(r)} : stage'[g] = stage[g]
    BY <1>1, <1>p, FrameParts, GotoStage DEF Admit
  <2> QED BY <1>1, <2>1, FrameParts DEF Admit, Tried
<1>2. ASSUME NEW r \in Runs, Claim(r) PROVE Tried'
  <2>1. stage'[First(r)] \in {"ready", "running"} /\ \A g \in Frames \ {First(r)} : stage'[g] = stage[g]
    BY <1>2, <1>p, FrameParts, GotoStage DEF Claim
  <2>2. tries' = tries /\ tries[First(r)] = 0
    BY <1>2, FrameParts DEF Claim, Tried
  <2> QED BY <1>p, <2>1, <2>2, FrameParts DEF Tried
<1>3. ASSUME NEW f \in Frames, Attempt(f) PROVE Tried'
  <2>1. stage'[f] \in {"refused", "running"} /\ \A g \in Frames \ {f} : stage'[g] = stage[g]
    BY <1>3, <1>p, GotoStage DEF Attempt
  <2>2. tries'[f] = tries[f] + 1 /\ \A g \in Frames \ {f} : tries'[g] = tries[g]
    BY <1>3 DEF Attempt, Shape
  <2>3. tries[f] < MaxTries
    BY <1>3 DEF Attempt, Tried
  <2> QED BY <1>p, <2>1, <2>2, <2>3 DEF Tried
<1>4. ASSUME NEW f \in Frames, NEW result \in {"ended", "backoff", "cancelled"}, LoopEnds(f, result)
      PROVE  Tried'
  <2>1. stage'[f] = result /\ \A g \in Frames \ {f} : stage'[g] = stage[g]
    BY <1>4, <1>p, GotoStage DEF LoopEnds
  <2>2. tries' = tries /\ (result = "backoff" => tries[f] < MaxTries)
    BY <1>4 DEF LoopEnds
  <2> QED BY <2>1, <2>2 DEF Tried
<1>5. ASSUME NEW f \in Frames, BackoffEnds(f) \/ BackoffCancelled(f) PROVE Tried'
  <2>1. stage'[f] \in {"ready", "refused"} /\ \A g \in Frames \ {f} : stage'[g] = stage[g]
    BY <1>5, <1>p, GotoStage DEF BackoffEnds, BackoffCancelled
  <2>2. tries' = tries /\ tries[f] < MaxTries
    BY <1>5 DEF BackoffEnds, BackoffCancelled, Tried
  <2> QED BY <2>1, <2>2 DEF Tried
<1>7. ASSUME NEW f \in Frames, Finalize(f) PROVE Tried'
  <2>1. \A g \in Frames \ {f} : stage'[g] = stage[g] /\ tries'[g] = tries[g]
    BY <1>7, <1>p, GotoStage DEF Finalize, Shape
  <2>2. tries'[f] = 0
    BY <1>7 DEF Finalize, Shape
  <2> QED BY <1>p, <2>1, <2>2 DEF Tried
<1>8. ASSUME NEW r \in Runs, CancelRun(r) PROVE Tried'
  BY <1>8 DEF CancelRun, Cancel, Tried
<1>9. CASE Halt \/ Resume \/ Boot \/ Suspend \/ MarkSuspended \/ ReadTickets
  BY <1>9 DEF Halt, Resume, Boot, Suspend, MarkSuspended, ReadTickets, Cancel, Tried
<1>13. CASE Exit
  BY <1>13, <1>p DEF Exit, Tried
<1>16. ASSUME NEW r \in Runs, NEW faithful \in BOOLEAN, Quarantine(r, faithful) PROVE Tried'
  BY <1>16 DEF Quarantine, Tried
<1>17. ASSUME NEW r \in Runs, Dispatch(r) PROVE Tried'
  <2>1. stage[Again(r)] = "idle" /\ tries' = tries
    BY <1>17 DEF Dispatch, Scanned, Order
  <2>2. stage'[Again(r)] \in {"ready", "idle"} /\ \A g \in Frames \ {Again(r)} : stage'[g] = stage[g]
    BY <1>17, <1>p, <2>1, FrameParts, GotoStage DEF Dispatch
  <2> QED BY <1>p, <2>1, <2>2, FrameParts DEF Tried
<1>18. CASE UNCHANGED vars
  BY <1>18 DEF vars, Tried
<1> QED BY <1>1, <1>2, <1>3, <1>4, <1>5, <1>7, <1>8, <1>9, <1>13, <1>16, <1>17, <1>18 DEF Next
-----------------------------------------------------------------------------
\* The variables keep their types: no ticket counts more than MaxAttempts, no
\* frame tries more often than its policy allows.
THEOREM TypeCorrect == Spec => []TypeOK
<1>1. Init => Shape /\ Order /\ Attempts /\ Tried
  BY InitShape, InitOrder, InitAttempts, InitTried
<1>2. Shape /\ Order /\ Attempts /\ Tried /\ [Next]_vars => (Shape /\ Order /\ Attempts /\ Tried)'
  BY NextShape, NextOrder, NextAttempts, NextTried
<1>3. Shape /\ Attempts /\ Tried => TypeOK
  <2> SUFFICES ASSUME Shape, Attempts, Tried PROVE TypeOK
    OBVIOUS
  <2>1. \A t \in Files \cup {None} : Within(t) => t \in Tickets \cup {None}
    BY DEF Files, Tickets, Within
  <2>2. /\ ticket \in [Runs -> Tickets \cup {None}] /\ scan \in [Runs -> Tickets \cup {None}]
        /\ listed \in [Runs -> Tickets \cup {None}]
    BY <2>1 DEF Shape, Attempts
  <2>3. tries \in [Frames -> 0..MaxTries]
    BY TicketAssumption DEF Shape, Tried
  <2> QED BY <2>2, <2>3 DEF Shape, TypeOK, Stages, Fates
<1> QED BY <1>1, <1>2, <1>3, PTL DEF Spec

\* Interrupted work is on disk whenever the process ends (resume.go:155-164).
THEOREM AlwaysInterruptedKept == Spec => []InterruptedKept
<1>1. Init => Shape /\ Order /\ Decided
  BY InitShape, InitOrder, InitDecided
<1>2. Shape /\ Order /\ Decided /\ [Next]_vars => (Shape /\ Order /\ Decided)'
  BY NextShape, NextOrder, NextDecided
<1>3. Decided => InterruptedKept
  BY DEF Decided
<1> QED BY <1>1, <1>2, <1>3, PTL DEF Spec

\* A run whose ticket was deleted at its end stays without one, and is not
\* taken up, unless a list or a frame still held it (resume_ops.go:58-61, 166-176).
THEOREM AlwaysEndedStaysEnded == Spec => []EndedStaysEnded
<1>1. Init => Shape /\ Order /\ Ended
  BY InitShape, InitOrder, InitEnded
<1>2. Shape /\ Order /\ Ended /\ [Next]_vars => (Shape /\ Order /\ Ended)'
  BY NextShape, NextOrder, NextEnded
<1>3. Ended => EndedStaysEnded
  BY DEF Ended, EndedStaysEnded
<1> QED BY <1>1, <1>2, <1>3, PTL DEF Spec

\* A run is dispatched at most MaxAttempts times, however often the process
\* ends, by a crash or a shutdown, and whatever is marked, claimed or deleted
\* meanwhile (resume_ops.go:161-165).
THEOREM AttemptsAlwaysBounded == Spec => []AttemptsBounded
<1>1. Init => Shape /\ Order /\ Attempts
  BY InitShape, InitOrder, InitAttempts
<1>2. Shape /\ Order /\ Attempts /\ [Next]_vars => (Shape /\ Order /\ Attempts)'
  BY NextShape, NextOrder, NextAttempts
<1>3. Attempts => AttemptsBounded
  BY DEF Attempts, AttemptsBounded
<1> QED BY <1>1, <1>2, <1>3, PTL DEF Spec

-----------------------------------------------------------------------------
(***************************************************************************)
(* The journal.  What the operators on cells, files and chains return is   *)
(* proved first, then that every step keeps the types; that no step loses  *)
(* a record that was on stable storage or quarantined; and that the live   *)
(* segments of an open journal are one chain, on which its readers stand.  *)
(***************************************************************************)

\* The naturals are well-founded, and so a set of them has a least element:
\* the only induction these proofs use.
Lower == {pair \in Nat \X Nat : pair[1] < pair[2]}

LEMMA LowerWellFounded == IsWellFoundedOn(Lower, Nat)
BY NatLessThanWellFounded DEF OpToRel, Lower

LEMMA LeastNatural ==
  ASSUME NEW S \in SUBSET Nat, S # {}
  PROVE  \E m \in S : \A k \in S : m <= k
<1>1. \E m \in S : \A k \in S : <<k, m>> \notin Lower BY LowerWellFounded, WFMin
<1>2. PICK m \in S : \A k \in S : <<k, m>> \notin Lower BY <1>1
<1>3. \A k \in S : m <= k
  <2> SUFFICES ASSUME NEW k \in S PROVE m <= k OBVIOUS
  <2>1. <<k, m>> \notin Lower BY <1>2
  <2> QED BY <2>1 DEF Lower
<1> QED BY <1>3

\* A bounded one has a greatest.
LEMMA GreatestNatural ==
  ASSUME NEW S \in SUBSET Nat, S # {}, NEW b \in Nat, S \subseteq 0..b
  PROVE  \E m \in S : \A k \in S : k <= m
<1> DEFINE T == {n \in Nat : \A k \in S : k <= n}
<1>1. b \in T OBVIOUS
<1>2. PICK m \in T : \A n \in T : m <= n BY <1>1, LeastNatural
<1>3. m \in S
  <2> SUFFICES ASSUME m \notin S PROVE FALSE OBVIOUS
  <2>1. \A k \in S : k <= m - 1 OBVIOUS
  <2>2. m - 1 \in Nat
    <3>1. PICK k \in S : TRUE OBVIOUS
    <3>2. k \in Nat /\ k <= m - 1 /\ m \in Nat BY <2>1
    <3> QED BY <3>2
  <2>3. m - 1 \in T BY <2>1, <2>2
  <2> QED BY <1>2, <2>3
<1> QED BY <1>3

\* Of two neighbours the condition holds of one and not of the other, when it
\* holds at 0 and not everywhere: where a scan stops.
LEMMA StopsSomewhere ==
  ASSUME NEW n \in Nat, NEW Good, Good \subseteq 1..n
  PROVE  \E k \in 0..n : 1..k \subseteq Good /\ (k < n => k + 1 \notin Good)
<1> DEFINE T == {k \in 0..n : k = n \/ k + 1 \notin Good}
<1>1. n \in T /\ T \in SUBSET Nat OBVIOUS
<1>2. PICK m \in T : \A k \in T : m <= k
  <2> HIDE DEF T
  <2> QED BY <1>1, LeastNatural
<1>3. ASSUME NEW p \in 1..m PROVE p \in Good
  <2>1. p - 1 \in 0..n /\ p - 1 < m /\ (p - 1) + 1 = p /\ p - 1 # n OBVIOUS
  <2>2. p - 1 \notin T BY <1>2, <2>1
  <2> QED BY <2>1, <2>2
<1> QED BY <1>2, <1>3

LEMMA FirstOfCorrect ==
  ASSUME NEW S \in SUBSET Nat, S # {}
  PROVE  FirstOf(S) \in S /\ \A k \in S : FirstOf(S) <= k
BY LeastNatural DEF FirstOf

-----------------------------------------------------------------------------
\* What the operators on cells return.

Cells == [kind : {"line", "frag"}, id : Nat, seq : Nat, prev : Nat, ok : BOOLEAN,
          names : SUBSET Nat]

LEMMA ChainLengthCorrect ==
  ASSUME NEW cells \in Seq(Cells), NEW seq, NEW prev
  PROVE  LET k == ChainLength(cells, seq, prev)
         IN  /\ k \in 0..Len(cells)
             /\ \A p \in 1..k : Continues(cells, p, seq, prev)
             /\ k < Len(cells) => ~Continues(cells, k + 1, seq, prev)
<1> DEFINE Good == {p \in 1..Len(cells) : Continues(cells, p, seq, prev)}
<1>1. Len(cells) \in Nat OBVIOUS
<1>2. PICK k \in 0..Len(cells) :
        1..k \subseteq Good /\ (k < Len(cells) => k + 1 \notin Good)
  BY <1>1, StopsSomewhere
<1>3. \A p \in 1..k : Continues(cells, p, seq, prev) BY <1>2
<1>4. k < Len(cells) => ~Continues(cells, k + 1, seq, prev) BY <1>1, <1>2
<1> QED BY <1>3, <1>4 DEF ChainLength

LEMMA CompleteCorrect ==
  ASSUME NEW cells \in Seq(Cells)
  PROVE  \E n \in 0..Len(cells) : /\ Complete(cells) = SubSeq(cells, 1, n)
                                  /\ n = 0 \/ IsLine(cells[n])
                                  /\ WholeUpTo(cells, n)
<1> DEFINE P == {p \in 1..Len(cells) : IsLine(cells[p])}
           Ends(n) == (n = 0 \/ IsLine(cells[n])) /\ WholeUpTo(cells, n)
<1>1. Len(cells) \in Nat OBVIOUS
<1>2. \E n \in 0..Len(cells) : Ends(n)
  <2>1. CASE P = {}
    <3>1. Ends(0) BY <1>1, <2>1 DEF WholeUpTo
    <3> QED BY <1>1, <3>1
  <2>2. CASE P # {}
    <3>1. P \in SUBSET Nat /\ P \subseteq 0..Len(cells) BY <1>1
    <3>2. PICK n \in P : \A p \in P : p <= n BY <1>1, <2>2, <3>1, GreatestNatural
    <3>3. n \in 0..Len(cells) /\ Ends(n) BY <1>1, <3>2 DEF WholeUpTo
    <3> QED BY <3>3
  <2> QED BY <2>1, <2>2
<1> QED BY <1>2 DEF Complete

\* A prefix of a file is as long as its cells, and grows with each.
Marked(cells, k) == {p \in 1..k : IsLine(cells[p])}

LEMMA PrefixSize ==
  ASSUME NEW cells \in Seq(Cells), NEW k \in 0..Len(cells)
  PROVE  /\ SubSeq(cells, 1, k) \in Seq(Cells) /\ Len(SubSeq(cells, 1, k)) = k
         /\ \A p \in 1..k : SubSeq(cells, 1, k)[p] = cells[p]
         /\ Size(SubSeq(cells, 1, k)) = k + Cardinality(Marked(cells, k))
         /\ IsFiniteSet(Marked(cells, k)) /\ Cardinality(Marked(cells, k)) \in Nat
<1>1. Len(cells) \in Nat /\ k \in Nat OBVIOUS
<1>2. /\ SubSeq(cells, 1, k) \in Seq(Cells) /\ Len(SubSeq(cells, 1, k)) = k
      /\ DOMAIN SubSeq(cells, 1, k) = 1..k
      /\ \A p \in 1..k : SubSeq(cells, 1, k)[p] = cells[p]
  BY <1>1
<1>3. {p \in DOMAIN SubSeq(cells, 1, k) : IsLine(SubSeq(cells, 1, k)[p])} = Marked(cells, k)
  BY <1>2 DEF Marked
<1>4. IsFiniteSet(Marked(cells, k))
  <2>1. IsFiniteSet(1..k) BY <1>1, FS_Interval
  <2>2. Marked(cells, k) \subseteq 1..k BY DEF Marked
  <2> QED BY <2>1, <2>2, FS_Subset
<1>5. Cardinality(Marked(cells, k)) \in Nat BY <1>4, FS_CardinalityType
<1> QED BY <1>2, <1>3, <1>4, <1>5 DEF Size

LEMMA PrefixSizeGrows ==
  ASSUME NEW cells \in Seq(Cells), NEW k \in 0..Len(cells), NEW l \in 0..Len(cells), k < l
  PROVE  Size(SubSeq(cells, 1, k)) < Size(SubSeq(cells, 1, l))
<1>1. Marked(cells, k) \subseteq Marked(cells, l) BY DEF Marked
<1>2. Cardinality(Marked(cells, k)) <= Cardinality(Marked(cells, l))
  BY <1>1, PrefixSize, FS_Subset
<1>3. /\ Size(SubSeq(cells, 1, k)) = k + Cardinality(Marked(cells, k))
      /\ Size(SubSeq(cells, 1, l)) = l + Cardinality(Marked(cells, l))
      /\ Cardinality(Marked(cells, k)) \in Nat /\ Cardinality(Marked(cells, l)) \in Nat
  BY PrefixSize
<1> QED BY <1>2, <1>3

\* A line more is two units, a fragment one.
LEMMA SizeOfAppend ==
  ASSUME NEW cells \in Seq(Cells), NEW c \in Cells
  PROVE  /\ Size(cells) \in Nat
         /\ Size(Append(cells, c)) = Size(cells) + Units(c)
<1> DEFINE n == Len(cells)
           more == Append(cells, c)
<1>1. /\ n \in Nat /\ more \in Seq(Cells) /\ Len(more) = n + 1
      /\ \A p \in 1..n : more[p] = cells[p]
      /\ more[n + 1] = c
      /\ SubSeq(cells, 1, n) = cells /\ SubSeq(more, 1, n + 1) = more
  OBVIOUS
<1> HIDE DEF more, n
<1>2. Marked(more, n + 1) = Marked(cells, n) \cup (IF IsLine(c) THEN {n + 1} ELSE {})
  BY <1>1 DEF Marked
<1>3. IsFiniteSet(Marked(cells, n)) /\ n + 1 \notin Marked(cells, n)
  <2>1. IsFiniteSet(Marked(cells, n)) BY <1>1, PrefixSize DEF n
  <2>2. n + 1 \notin 1..n BY <1>1
  <2>3. Marked(cells, n) \subseteq 1..n BY DEF Marked
  <2> QED BY <2>1, <2>2, <2>3
<1>4. Cardinality(Marked(more, n + 1)) = Cardinality(Marked(cells, n)) + Units(c) - 1
  <2>0. Cardinality(Marked(cells, n)) \in Nat BY <1>3, FS_CardinalityType
  <2>1. CASE IsLine(c) BY <2>0, <2>1, <1>2, <1>3, FS_AddElement DEF Units
  <2>2. CASE ~IsLine(c)
    <3>1. Marked(more, n + 1) = Marked(cells, n) BY <2>2, <1>2
    <3> QED BY <2>0, <3>1, <2>2 DEF Units
  <2> QED BY <2>1, <2>2
<1>5. Size(cells) = n + Cardinality(Marked(cells, n)) /\ Cardinality(Marked(cells, n)) \in Nat
  <2>1. n \in 0..Len(cells) BY <1>1 DEF n
  <2> QED BY <2>1, <1>1, PrefixSize
<1>6. Size(more) = n + 1 + Cardinality(Marked(more, n + 1))
  <2>1. n + 1 \in 0..Len(more) BY <1>1
  <2> QED BY <2>1, <1>1, PrefixSize
<1>7. Units(c) \in Nat BY DEF Units
<1>8. Size(more) = Size(cells) + Units(c) /\ Size(cells) \in Nat
  BY <1>1, <1>4, <1>5, <1>6, <1>7
<1> QED BY <1>8 DEF more

\* A file cut to n units keeps the cells that fit, and a piece of the next.
LEMMA CutCorrect ==
  ASSUME NEW cells \in Seq(Cells), NEW n \in Nat
  PROVE  \E k \in 0..Len(cells) :
           /\ Size(SubSeq(cells, 1, k)) <= n
           /\ k < Len(cells) => Size(SubSeq(cells, 1, k + 1)) > n
           /\ \/ Cut(cells, n) = SubSeq(cells, 1, k)
              \/ k < Len(cells) /\ Size(SubSeq(cells, 1, k)) < n
                 /\ Cut(cells, n) = Append(SubSeq(cells, 1, k), Frag)
<1> DEFINE fits(k) == Size(SubSeq(cells, 1, k)) <= n
           Fits == {k \in 0..Len(cells) : fits(k)}
           Good == {k \in 1..Len(cells) : fits(k)}
<1>1. Len(cells) \in Nat OBVIOUS
<1>2. fits(0)
  <2>1. Marked(cells, 0) = {} BY DEF Marked
  <2>2. \A k \in 0..Len(cells) : Size(SubSeq(cells, 1, k)) = k + Cardinality(Marked(cells, k))
    BY PrefixSize
  <2>3. Size(SubSeq(cells, 1, 0)) = 0 + Cardinality(Marked(cells, 0))
    <3>1. 0 \in 0..Len(cells) BY <1>1
    <3> QED BY <2>2, <3>1
  <2>4. Size(SubSeq(cells, 1, 0)) = 0 BY <2>1, <2>3, FS_EmptySet
  <2> QED BY <2>4
<1>3. \E k \in 0..Len(cells) : /\ Size(SubSeq(cells, 1, k)) <= n
                               /\ k < Len(cells) => Size(SubSeq(cells, 1, k + 1)) > n
  <2>1. PICK k \in 0..Len(cells) : 1..k \subseteq Good /\ (k < Len(cells) => k + 1 \notin Good)
    BY <1>1, StopsSomewhere
  <2>2. fits(k)
    <3>1. CASE k = 0 BY <3>1, <1>2
    <3>2. CASE k # 0
      <4>1. k \in 1..k BY <1>1, <3>2
      <4> QED BY <4>1, <2>1
    <3> QED BY <3>1, <3>2
  <2>3. ASSUME k < Len(cells) PROVE Size(SubSeq(cells, 1, k + 1)) > n
    <3>1. k + 1 \in 0..Len(cells) /\ k + 1 \in 1..Len(cells) BY <1>1, <2>3
    <3>2. ~fits(k + 1) BY <2>1, <2>3, <3>1
    <3>3. Size(SubSeq(cells, 1, k + 1)) \in Nat BY <3>1, PrefixSize
    <3> QED BY <3>2, <3>3
  <2> QED BY <2>2, <2>3
<1> DEFINE k == CHOOSE k \in 0..Len(cells) :
                  /\ Size(SubSeq(cells, 1, k)) <= n
                  /\ k < Len(cells) => Size(SubSeq(cells, 1, k + 1)) > n
           kept == SubSeq(cells, 1, k)
<1>4. /\ k \in 0..Len(cells)
      /\ Size(SubSeq(cells, 1, k)) <= n
      /\ k < Len(cells) => Size(SubSeq(cells, 1, k + 1)) > n
  BY <1>3
<1>5. Cut(cells, n) = IF Size(kept) < n /\ k < Len(cells) THEN Append(kept, Frag) ELSE kept
  BY DEF Cut
<1> HIDE DEF k
<1> QED BY <1>4, <1>5

\* Cut to the size it had before its last cell, a file loses just that cell.
LEMMA CutLast ==
  ASSUME NEW cells \in Seq(Cells), cells # <<>>,
         NEW n, n = Size(SubSeq(cells, 1, Len(cells) - 1))
  PROVE  Cut(cells, n) = SubSeq(cells, 1, Len(cells) - 1)
<1> DEFINE last == Len(cells) - 1
<1>1. Len(cells) \in Nat /\ last \in 0..Len(cells) /\ last < Len(cells) OBVIOUS
<1>2. n \in Nat BY <1>1, PrefixSize
<1>3. PICK k \in 0..Len(cells) :
           /\ Size(SubSeq(cells, 1, k)) <= n
           /\ k < Len(cells) => Size(SubSeq(cells, 1, k + 1)) > n
           /\ \/ Cut(cells, n) = SubSeq(cells, 1, k)
              \/ k < Len(cells) /\ Size(SubSeq(cells, 1, k)) < n
                 /\ Cut(cells, n) = Append(SubSeq(cells, 1, k), Frag)
  BY <1>2, CutCorrect
<1> DEFINE size(p) == Size(SubSeq(cells, 1, p))
<1>4. \A p \in 0..Len(cells) : size(p) \in Nat BY PrefixSize
<1>5. k <= last
  <2> SUFFICES ASSUME last < k PROVE FALSE BY <1>1
  <2>1. size(last) < size(k) BY <1>1, PrefixSizeGrows
  <2> HIDE DEF last
  <2>2. size(k) \in Nat /\ size(last) \in Nat BY <1>1, <1>4
  <2> QED BY <1>3, <2>1, <2>2 DEF last
<1>6. k >= last
  <2> SUFFICES ASSUME k < last PROVE FALSE BY <1>1
  <2>1. k < Len(cells) /\ k + 1 \in 0..Len(cells) /\ k + 1 <= last BY <1>1
  <2>2. size(k + 1) <= size(last)
    <3>1. CASE k + 1 = last BY <3>1, <1>1, <1>4
    <3>2. CASE k + 1 < last
      <4>1. size(k + 1) < size(last) BY <1>1, <2>1, <3>2, PrefixSizeGrows
      <4> QED BY <1>1, <1>4, <2>1, <4>1
    <3> QED BY <1>1, <2>1, <3>1, <3>2
  <2>3. size(k + 1) \in Nat /\ size(last) \in Nat BY <1>1, <1>4, <2>1
  <2> QED BY <1>3, <2>1, <2>2, <2>3
<1>7. k = last BY <1>1, <1>5, <1>6
<1>8. ~(size(k) < n) BY <1>2, <1>7
<1> QED BY <1>3, <1>7, <1>8

-----------------------------------------------------------------------------
\* Types of the journal.

SegmentFiles == {f \in [cells : Seq(Cells), synced : Nat] : f.synced <= Len(f.cells)}

WellShaped(d) ==
  /\ d = [i \in DOMAIN d |-> d[i]] /\ \A i \in DOMAIN d : d[i] \in SegmentFiles
  /\ DOMAIN d \in SUBSET (Nat \ {0}) /\ DOMAIN d # {}
  /\ \E m \in Nat : DOMAIN d \subseteq 0..m

\* The stages at which a segment is open, and those of a scan.
Working == {"up", "written", "synced", "record"}
Scanning == {"scan", "quarantine", "truncate", "rename"}
ReaderStates == [pc : {"idle", "reading", "alarm"}, todo : SUBSET Nat, read : Nat,
                 part : Nat \cup {NoLine}, seq : Nat, head : Nat, cut : BOOLEAN]

StructTyped ==
  /\ unnamed \in SUBSET Nat /\ gap \in SUBSET Nat
  /\ nextSeq \in Nat /\ head \in Nat /\ curIndex \in Nat /\ curBytes \in Nat
  /\ at \in Nat /\ good \in Nat /\ made \in Nat
  /\ ev \in Cells /\ IsLine(ev) /\ acked \in Seq(Cells)
  /\ env \in [faults : SUBSET FaultKinds, left : Nat, appends : Nat, readers : SUBSET Readers]
  /\ reader \in [Readers -> ReaderStates]

Placed ==
  /\ pc \in Working \cup Scanning \cup {"down", "position"}
  /\ pc \in Working => curIndex \in Segments
  /\ pc \in Scanning => at \in Segments
  /\ pc \in {"quarantine", "truncate"} => good \in 0..Len(disk[at].cells)

\* What a quarantine moves aside.  A segment renamed whole has left the journal.
QuarantineTyped ==
  /\ aside \in SUBSET Cells /\ vanished \in SUBSET Cells /\ copied \in SUBSET (SUBSET Cells)
  /\ \A i \in DOMAIN renamed : i \in Nat \ {0} /\ i \notin Segments /\ renamed[i] \in Seq(Cells)
  /\ \E m \in Nat : DOMAIN renamed \subseteq 0..m

LedgerTyped == WellShaped(disk) /\ StructTyped /\ Placed

LEMMA FileAt ==
  ASSUME WellShaped(disk), NEW i \in Segments
  PROVE  /\ disk[i] \in SegmentFiles /\ disk[i].cells \in Seq(Cells)
         /\ disk[i] = [cells |-> disk[i].cells, synced |-> disk[i].synced]
         /\ Len(disk[i].cells) \in Nat /\ disk[i].synced \in 0..Len(disk[i].cells)
<1>1. disk[i] \in SegmentFiles BY DEF WellShaped, Segments
<1> QED BY <1>1 DEF SegmentFiles

LEMMA FileChanged ==
  ASSUME NEW d, WellShaped(d), NEW i \in DOMAIN d, NEW f \in SegmentFiles
  PROVE  WellShaped([d EXCEPT ![i] = f]) /\ DOMAIN [d EXCEPT ![i] = f] = DOMAIN d
BY DEF WellShaped

LEMMA FileAdded ==
  ASSUME WellShaped(disk), NEW i \in Nat \ {0}, NEW f \in SegmentFiles
  PROVE  WellShaped(WithSegment(i, f)) /\ DOMAIN WithSegment(i, f) = Segments \cup {i}
<1>1. PICK m \in Nat : Segments \subseteq 0..m BY DEF WellShaped, Segments
<1>2. \E n \in Nat : Segments \cup {i} \subseteq 0..n
  <2>1. CASE i <= m BY <1>1, <2>1
  <2>2. CASE ~(i <= m)
    <3>1. Segments \cup {i} \subseteq 0..i BY <1>1, <2>2
    <3> QED BY <3>1
  <2> QED BY <2>1, <2>2
<1> QED BY <1>2 DEF WellShaped, WithSegment, Segments

LEMMA ResizedTyped ==
  ASSUME NEW s \in SegmentFiles, NEW cells \in Seq(Cells)
  PROVE  /\ Resized(s, cells) \in SegmentFiles
         /\ Resized(s, cells).cells = cells
         /\ Resized(s, cells).synced = IF Len(cells) < s.synced THEN Len(cells) ELSE s.synced
<1>1. Len(cells) \in Nat /\ s.synced \in Nat BY DEF SegmentFiles
<1> QED BY <1>1 DEF Resized, SegmentFiles

LEMMA LastSegmentCorrect ==
  ASSUME WellShaped(disk)
  PROVE  LastSegment \in Segments /\ \A k \in Segments : k <= LastSegment
<1>1. PICK m \in Nat : Segments \subseteq 0..m BY DEF WellShaped, Segments
<1>2. Segments \in SUBSET Nat /\ Segments # {} BY DEF WellShaped, Segments
<1>3. \E i \in Segments : \A k \in Segments : k <= i BY <1>1, <1>2, GreatestNatural
<1> QED BY <1>3 DEF LastSegment

LEMMA FragTyped == Frag \in Cells /\ ~IsLine(Frag) /\ NoRecord \in Cells /\ IsLine(NoRecord)
BY DEF Frag, NoRecord, Cells, IsLine, Genesis

\* A file with one more cell, and one cut short, are files.
LEMMA AppendedTyped ==
  ASSUME NEW s \in SegmentFiles, NEW c \in Cells
  PROVE  /\ [s EXCEPT !.cells = Append(s.cells, c)] \in SegmentFiles
         /\ [s EXCEPT !.cells = Append(s.cells, c)].cells = Append(s.cells, c)
         /\ [s EXCEPT !.cells = Append(s.cells, c)].synced = s.synced
<1>1. /\ s.cells \in Seq(Cells) /\ s.synced \in Nat /\ Len(s.cells) \in Nat
      /\ s.synced <= Len(s.cells)
  BY DEF SegmentFiles
<1>2. Append(s.cells, c) \in Seq(Cells) /\ Len(Append(s.cells, c)) = Len(s.cells) + 1
  BY <1>1
<1> QED BY <1>1, <1>2 DEF SegmentFiles

LEMMA LeftoverTyped ==
  ASSUME NEW s \in SegmentFiles, NEW left \in Leftovers(s)
  PROVE  /\ left \in Seq(Cells) /\ s.synced <= Len(left)
         /\ \A p \in 1..s.synced : left[p] = s.cells[p]
<1>1. /\ s.cells \in Seq(Cells) /\ s.synced \in Nat /\ Len(s.cells) \in Nat
      /\ s.synced <= Len(s.cells)
  BY DEF SegmentFiles
<1>2. PICK k \in s.synced..Len(s.cells) :
        left = SubSeq(s.cells, 1, k) \/ left = Append(SubSeq(s.cells, 1, k), Frag)
  BY <1>1 DEF Leftovers
<1>3. k \in 0..Len(s.cells) BY <1>1
<1>4. /\ SubSeq(s.cells, 1, k) \in Seq(Cells) /\ Len(SubSeq(s.cells, 1, k)) = k
      /\ \A p \in 1..k : SubSeq(s.cells, 1, k)[p] = s.cells[p]
  BY <1>1, <1>3, PrefixSize
<1> DEFINE kept == SubSeq(s.cells, 1, k)
<1> HIDE DEF kept
<1>5. kept \in Seq(Cells) /\ Len(kept) = k /\ \A p \in 1..k : kept[p] = s.cells[p]
  BY <1>4 DEF kept
<1>6. CASE left = kept BY <1>1, <1>5, <1>6
<1>7. CASE left = Append(kept, Frag)
  <2>1. left \in Seq(Cells) /\ Len(left) = k + 1 /\ \A p \in 1..k : left[p] = kept[p]
    BY <1>3, <1>5, <1>7, FragTyped
  <2> QED BY <2>1, <1>1, <1>5
<1> QED BY <1>2, <1>6, <1>7 DEF kept

LEMMA HeadTyped ==
  ASSUME NEW cells \in Seq(Cells), NEW k \in 0..Len(cells), NEW h \in Nat
  PROVE  HeadAfter(cells, k, h) \in Nat
<1>1. CASE k = 0 BY <1>1 DEF HeadAfter
<1>2. CASE k # 0
  <2>1. cells[k] \in Cells BY <1>2
  <2> QED BY <1>2, <2>1 DEF HeadAfter, Cells
<1> QED BY <1>1, <1>2

LEMMA RecordsTyped ==
  ASSUME NEW cells \in Seq(Cells)
  PROVE  Records(cells) \in SUBSET Cells
BY DEF Records, Range

\* Readers are about while Open has returned, and read segments that exist.
Served == \A r \in Readers : reader[r].pc # "idle" => Serving /\ reader[r].todo \subseteq Segments

\* The two ways a read of a line ends.
LEMMA LineRead ==
  ASSUME NEW r \in Readers, ReadLine(r)
  PROVE  LET s == reader[r]
             c == NextCell(r)
             verified == s.part = c.id /\ c.ok /\ c.seq = s.seq /\ c.prev = s.head
             t == [s EXCEPT !.read = s.read + 1, !.part = NoLine, !.seq = s.seq + 1, !.head = c.id]
         IN /\ Unread(r)
            /\ verified => reader' = [reader EXCEPT ![r] = t]
            /\ ~verified => reader' = [reader EXCEPT ![r] = [s EXCEPT !.pc = "alarm"]]
BY DEF ReadLine

\* A reader replaced by one of its type.
LEMMA ReaderReplaced ==
  ASSUME reader \in [Readers -> ReaderStates], NEW r \in Readers, NEW t \in ReaderStates,
         reader' = [reader EXCEPT ![r] = t]
  PROVE  reader' \in [Readers -> ReaderStates]
OBVIOUS

\* Every step of the journal keeps the types.
LEMMA LedgerTypedStep ==
  LedgerTyped /\ QuarantineTyped /\ Served /\ [JournalNext]_journal => LedgerTyped'
<1> SUFFICES ASSUME LedgerTyped, QuarantineTyped, Served, [JournalNext]_journal PROVE LedgerTyped'
  OBVIOUS
<1> USE DEF StructTyped, mem, open, moved, quarantine
<1>t. WellShaped(disk) /\ StructTyped /\ Placed BY DEF LedgerTyped
<1>s. Segments \in SUBSET Nat /\ Segments # {} BY <1>t DEF WellShaped, Segments
<1>u. Unrecorded => unnamed' \in SUBSET Nat BY <1>t DEF Unrecorded
<1>e. ASSUME NEW kind, Fault(kind)
      PROVE  env' \in [faults : SUBSET FaultKinds, left : Nat, appends : Nat, readers : SUBSET Readers]
  <2>1. env.left \in Nat /\ env.left > 0 /\ env' = [env EXCEPT !.left = env.left - 1]
    BY <1>e, <1>t DEF Fault
  <2>2. env.left - 1 \in Nat BY <2>1
  <2> QED BY <1>t, <2>1, <2>2
<1>1. ASSUME NEW names \in SUBSET Nat, WriteEvent(names), pc \in {"up", "record"}, pc' = "written"
      PROVE  LedgerTyped'
  <2>1. ev' \in Cells /\ IsLine(ev') BY <1>1, <1>t DEF WriteEvent, NewEvent, Cells, IsLine
  <2>2. curIndex \in Segments BY <1>1, <1>t DEF Placed, Working
  <2>3. Written(ev') \in SegmentFiles
    <3>1. [ev' EXCEPT !.ok = ~EndsTorn(disk[curIndex].cells)] \in Cells
      BY <2>1 DEF Cells, EndsTorn
    <3> QED BY <3>1, <2>2, <1>t, FileAt, AppendedTyped DEF Written
  <2>4. WellShaped(disk)' /\ Segments' = Segments
    BY <1>1, <1>t, <2>2, <2>3, FileChanged DEF WriteEvent, Segments
  <2> QED BY <1>1, <1>t, <2>1, <2>2, <2>4 DEF WriteEvent, LedgerTyped, Placed, Working, Scanning
<1>2. CASE AppendWrite BY <1>2, <1>1 DEF AppendWrite
<1>3. CASE RecordRecovery BY <1>3, <1>1, <1>t DEF RecordRecovery
<1>d. ASSUME NEW i \in Segments, NEW f \in SegmentFiles, disk' = [disk EXCEPT ![i] = f]
      PROVE  WellShaped(disk)' /\ Segments' = Segments
  <2>1. WellShaped([disk EXCEPT ![i] = f]) /\ DOMAIN [disk EXCEPT ![i] = f] = DOMAIN disk
    BY <1>t, FileChanged DEF Segments
  <2> QED BY <1>d, <2>1 DEF Segments
<1>f. ASSUME curIndex \in Segments, disk' = [disk EXCEPT ![curIndex].cells = Append(@, Frag)]
      PROVE  WellShaped(disk)' /\ Segments' = Segments
  <2>1. disk' = [disk EXCEPT ![curIndex] = [disk[curIndex] EXCEPT !.cells = Append(disk[curIndex].cells, Frag)]]
    BY <1>f
  <2>2. [disk[curIndex] EXCEPT !.cells = Append(disk[curIndex].cells, Frag)] \in SegmentFiles
    BY <1>f, <1>t, FileAt, FragTyped, AppendedTyped
  <2> QED BY <2>1, <2>2, <1>f, <1>d
<1>4. CASE WriteFails
  <2>1. curIndex \in Segments BY <1>4, <1>t DEF WriteFails, Placed, Working
  <2>2. WellShaped(disk)' /\ Segments' = Segments
    <3>1. CASE UNCHANGED disk BY <3>1, <1>t DEF Segments
    <3>2. CASE disk' = [disk EXCEPT ![curIndex].cells = Append(@, Frag)] BY <3>2, <2>1, <1>f
    <3> QED BY <1>4, <3>1, <3>2 DEF WriteFails
  <2>3. env' \in [faults : SUBSET FaultKinds, left : Nat, appends : Nat, readers : SUBSET Readers]
    BY <1>4, <1>e DEF WriteFails
  <2>4. /\ unnamed' \in SUBSET Nat /\ made' \in Nat /\ pc' \in {"up", "down"}
        /\ UNCHANGED <<gap, nextSeq, head, curIndex, curBytes, at, good, ev, acked, reader>>
    BY <1>4, <1>t, <1>u DEF WriteFails
  <2>5. Placed' BY <2>1, <2>2, <2>4 DEF Placed, Working, Scanning
  <2> QED BY <1>t, <2>2, <2>3, <2>4, <2>5 DEF LedgerTyped
<1>5. CASE Fsync
  <2>1. curIndex \in Segments BY <1>5, <1>t DEF Fsync, Placed, Working
  <2>2. disk' = [disk EXCEPT ![curIndex] = [disk[curIndex] EXCEPT !.synced = Len(disk[curIndex].cells)]]
    BY <1>5 DEF Fsync
  <2>3. [disk[curIndex] EXCEPT !.synced = Len(disk[curIndex].cells)] \in SegmentFiles
    <3>1. /\ disk[curIndex].cells \in Seq(Cells) /\ Len(disk[curIndex].cells) \in Nat
          /\ disk[curIndex] = [cells |-> disk[curIndex].cells, synced |-> disk[curIndex].synced]
      BY <2>1, <1>t, FileAt
    <3>2. [disk[curIndex] EXCEPT !.synced = Len(disk[curIndex].cells)] =
            [cells |-> disk[curIndex].cells, synced |-> Len(disk[curIndex].cells)]
      BY <3>1
    <3> QED BY <3>1, <3>2 DEF SegmentFiles
  <2>4. WellShaped(disk)' /\ Segments' = Segments BY <2>1, <2>2, <2>3, <1>t, FileChanged DEF Segments
  <2>5. curBytes' \in Nat BY <1>5, <1>t DEF Fsync, Units
  <2> QED BY <1>5, <1>t, <2>1, <2>4, <2>5 DEF Fsync, LedgerTyped, Placed, Working, Scanning
<1>r. ASSUME NEW i \in Segments, NEW cells \in Seq(Cells),
             disk' = [disk EXCEPT ![i] = Resized(disk[i], cells)]
      PROVE  WellShaped(disk)' /\ Segments' = Segments /\ disk'[i].cells = cells
  <2>1. Resized(disk[i], cells) \in SegmentFiles /\ Resized(disk[i], cells).cells = cells
    BY <1>t, FileAt, ResizedTyped
  <2> QED BY <1>r, <2>1, <1>t, FileChanged DEF Segments
<1>6. CASE FsyncFails
  <2>1. curIndex \in Segments BY <1>6, <1>t DEF FsyncFails, Placed, Working
  <2>2. Cut(disk[curIndex].cells, curBytes) \in Seq(Cells)
    <3>1. disk[curIndex].cells \in Seq(Cells) BY <2>1, <1>t, FileAt
    <3>2. PICK k \in 0..Len(disk[curIndex].cells) :
            \/ Cut(disk[curIndex].cells, curBytes) = SubSeq(disk[curIndex].cells, 1, k)
            \/ Cut(disk[curIndex].cells, curBytes) = Append(SubSeq(disk[curIndex].cells, 1, k), Frag)
      BY <3>1, <1>t, CutCorrect
    <3>3. SubSeq(disk[curIndex].cells, 1, k) \in Seq(Cells) BY <3>1, PrefixSize
    <3> QED BY <3>2, <3>3, FragTyped
  <2>3. WellShaped(disk)' /\ Segments' = Segments BY <1>6, <1>r, <2>1, <2>2 DEF FsyncFails
  <2>4. env' \in [faults : SUBSET FaultKinds, left : Nat, appends : Nat, readers : SUBSET Readers]
    BY <1>6, <1>e DEF FsyncFails
  <2>5. reader' \in [Readers -> ReaderStates]
    <3>1. PICK n : reader' = [r \in Readers |-> [reader[r] EXCEPT !.cut = @ \/ HasReadBeyond(r, n)]]
      BY <1>6 DEF FsyncFails
    <3>2. ASSUME NEW r \in Readers
          PROVE  [reader[r] EXCEPT !.cut = @ \/ HasReadBeyond(r, n)] \in ReaderStates
      <4>1. reader[r] \in ReaderStates BY <1>t
      <4>2. (reader[r].cut \/ HasReadBeyond(r, n)) \in BOOLEAN OBVIOUS
      <4> QED BY <4>1, <4>2 DEF ReaderStates
    <3> QED BY <3>1, <3>2
  <2>6. /\ unnamed' \in SUBSET Nat /\ pc' \in {"up", "down"}
        /\ UNCHANGED <<gap, nextSeq, head, curIndex, curBytes, at, good, ev, acked, made>>
    BY <1>6, <1>t, <1>u DEF FsyncFails
  <2>7. Placed' BY <2>1, <2>3, <2>6 DEF Placed, Working, Scanning
  <2> QED BY <1>t, <2>3, <2>4, <2>5, <2>6, <2>7 DEF LedgerTyped
<1>a. EmptySegment \in SegmentFiles BY DEF EmptySegment, SegmentFiles
<1>7. ASSUME NEW rotates \in BOOLEAN, Return(rotates),
             env' \in [faults : SUBSET FaultKinds, left : Nat, appends : Nat, readers : SUBSET Readers]
      PROVE  LedgerTyped'
  <2>1. curIndex \in Segments BY <1>7, <1>t DEF Return, Placed, Working
  <2>2. WellShaped(disk)' /\ curIndex' \in Segments' /\ curIndex' \in Nat /\ curBytes' \in Nat
    <3>1. CASE rotates
      <4>1. disk' = WithSegment(curIndex + 1, EmptySegment) /\ curIndex' = curIndex + 1 /\ curBytes' = 0
        BY <1>7, <3>1 DEF Return
      <4>2. curIndex + 1 \in Nat \ {0} BY <1>t
      <4>3. /\ WellShaped(WithSegment(curIndex + 1, EmptySegment))
            /\ DOMAIN WithSegment(curIndex + 1, EmptySegment) = Segments \cup {curIndex + 1}
        BY <4>2, <1>t, <1>a, FileAdded
      <4> QED BY <4>1, <4>2, <4>3 DEF Segments
    <3>2. CASE ~rotates BY <1>7, <1>t, <2>1, <3>2 DEF Return, Segments
    <3> QED BY <3>1, <3>2
  <2>3. acked' \in Seq(Cells) BY <1>7, <1>t DEF Return
  <2>4. head' \in Nat BY <1>7, <1>t DEF Return, Cells
  <2>5. unnamed' = unnamed BY <1>7 DEF Return, SyncDirectory
  <2> QED BY <1>7, <1>t, <2>2, <2>3, <2>4, <2>5 DEF Return, LedgerTyped, Placed, Working, Scanning
<1>8. CASE ReturnRotating BY <1>8, <1>7, <1>t DEF ReturnRotating
<1>9. CASE ReturnFull BY <1>9, <1>7, <1>e DEF ReturnFull
<1>10. CASE ReturnRoom BY <1>10, <1>7, <1>t DEF ReturnRoom
<1>n. ASSUME NoMemory, WellShaped(disk)', UNCHANGED <<acked, made>>,
             env' \in [faults : SUBSET FaultKinds, left : Nat, appends : Nat, readers : SUBSET Readers]
      PROVE  LedgerTyped'
  BY <1>n, <1>t, <1>u, FragTyped
  DEF NoMemory, Genesis, IdleReader, ReaderStates, LedgerTyped, Placed, Working, Scanning
<1>11. CASE Close
  <2>1. WellShaped(disk)' BY <1>11, <1>t DEF Close
  <2> QED BY <1>11, <2>1, <1>n, <1>e DEF Close
<1>12. CASE Crash
  <2>1. WellShaped(disk)'
    <3>1. CASE UNCHANGED disk BY <3>1, <1>t
    <3>2. CASE pc \in {"up", "record"} /\ disk' = [disk EXCEPT ![curIndex].cells = Append(@, Frag)]
      BY <3>2, <1>f, <1>t DEF Placed, Working
    <3> QED BY <1>12, <3>1, <3>2 DEF Crash
  <2> QED BY <1>12, <2>1, <1>n, <1>e DEF Crash
<1>13. CASE PowerLoss
  <2>1. WellShaped(disk)'
    <3>1. PICK left \in [Segments -> UNION {Leftovers(disk[i]) : i \in Segments}],
               back \in SUBSET DOMAIN renamed :
            LET cells(i) == IF i \in Segments THEN left[i] ELSE renamed[i]
            IN /\ \A i \in Segments : left[i] \in Leftovers(disk[i])
               /\ disk' = [i \in Segments \cup back |->
                             [cells |-> cells(i), synced |-> Len(cells(i))]]
      BY <1>13 DEF PowerLoss
    <3> DEFINE cells(i) == IF i \in Segments THEN left[i] ELSE renamed[i]
    <3>2. \A i \in Segments : left[i] \in Seq(Cells) BY <3>1, <1>t, FileAt, LeftoverTyped
    <3>3. \A i \in Segments \cup back : cells(i) \in Seq(Cells)
      BY <3>2 DEF QuarantineTyped
    <3>4. disk' = [i \in Segments \cup back |-> [cells |-> cells(i), synced |-> Len(cells(i))]]
      BY <3>1
    <3> HIDE DEF cells
    <3>5. \A i \in Segments \cup back : [cells |-> cells(i), synced |-> Len(cells(i))] \in SegmentFiles
      BY <3>3 DEF SegmentFiles
    <3>6. \A i \in DOMAIN disk' : disk'[i] \in SegmentFiles BY <3>4, <3>5
    <3>7. disk' = [i \in DOMAIN disk' |-> disk'[i]] /\ DOMAIN disk' = Segments \cup back
      BY <3>4
    <3>8. DOMAIN disk' \in SUBSET (Nat \ {0}) /\ DOMAIN disk' # {}
      BY <3>7, <1>t DEF WellShaped, Segments, QuarantineTyped
    <3>9. \E m \in Nat : DOMAIN disk' \subseteq 0..m
      <4>1. PICK m \in Nat : Segments \subseteq 0..m BY <1>t DEF WellShaped, Segments
      <4>2. PICK n \in Nat : DOMAIN renamed \subseteq 0..n BY DEF QuarantineTyped
      <4>3. DOMAIN disk' \subseteq 0..m + n BY <3>7, <4>1, <4>2
      <4> QED BY <4>3
    <3> QED BY <3>6, <3>7, <3>8, <3>9 DEF WellShaped
  <2> QED BY <1>13, <2>1, <1>n, <1>e DEF PowerLoss
<1>14. CASE Corrupt
  <2>0. PICK i \in Segments : \E p \in DOMAIN disk[i].cells :
          disk' = [disk EXCEPT ![i].cells[p].ok = FALSE]
    BY <1>14 DEF Corrupt
  <2>1. PICK p \in DOMAIN disk[i].cells : disk' = [disk EXCEPT ![i].cells[p].ok = FALSE]
    BY <2>0
  <2> DEFINE c == [disk[i].cells[p] EXCEPT !.ok = FALSE]
             cells == [disk[i].cells EXCEPT ![p] = c]
  <2>2. /\ disk[i] \in SegmentFiles /\ disk[i].cells \in Seq(Cells)
        /\ disk[i] = [cells |-> disk[i].cells, synced |-> disk[i].synced]
    BY <1>t, FileAt
  <2>3. c \in Cells
    <3>1. disk[i].cells[p] \in Cells BY <2>1, <2>2
    <3> QED BY <3>1 DEF Cells
  <2>4. cells \in Seq(Cells) /\ Len(cells) = Len(disk[i].cells) BY <2>1, <2>2, <2>3
  <2>5. [disk[i] EXCEPT !.cells = cells] \in SegmentFiles BY <2>2, <2>4 DEF SegmentFiles
  <2>6. disk' = [disk EXCEPT ![i] = [disk[i] EXCEPT !.cells = cells]] BY <2>1
  <2>7. WellShaped(disk)' /\ Segments' = Segments
    BY <2>5, <2>6, <1>t, FileChanged DEF Segments
  <2>8. pc \in {"up", "down"} BY <1>14 DEF Corrupt
  <2> QED BY <1>14, <1>t, <1>e, <2>7, <2>8 DEF Corrupt, LedgerTyped, Placed, Working, Scanning
<1>15. CASE OpenStart
  <2>1. FirstOf(Segments) \in Segments BY <1>s, FirstOfCorrect
  <2> QED BY <1>15, <1>t, <1>s, <2>1 DEF OpenStart, LedgerTyped, Placed, Working, Scanning, Genesis, Segments
<1>16. CASE ScanSegment
  <2> DEFINE cells == disk[at].cells
             k == ChainLength(cells, nextSeq, head)
  <2>1. pc = "scan" /\ at \in Segments BY <1>16, <1>t DEF ScanSegment, Placed, Scanning
  <2>2. cells \in Seq(Cells) BY <2>1, <1>t, FileAt
  <2>3. k \in 0..Len(cells) BY <2>2, ChainLengthCorrect
  <2>4. HeadAfter(cells, k, head) \in Nat BY <1>t, <2>2, <2>3, HeadTyped
  <2>5. After(at) # {} => FirstOf(After(at)) \in Segments
    <3>1. After(at) \in SUBSET Nat BY <1>s DEF After
    <3> QED BY <3>1, FirstOfCorrect DEF After
  <2>6. /\ nextSeq' = nextSeq + k /\ head' = HeadAfter(cells, k, head)
        /\ IF ~WholeUpTo(cells, k)
             THEN pc' = "quarantine" /\ good' = k /\ UNCHANGED at
             ELSE /\ UNCHANGED good
                  /\ IF After(at) = {} THEN pc' = "position" /\ UNCHANGED at
                                       ELSE pc' = "scan" /\ at' = FirstOf(After(at))
    BY <1>16 DEF ScanSegment
  <2>7. UNCHANGED <<disk, moved, curIndex, curBytes, gap, ev, acked, made, env, reader>>
    BY <1>16 DEF ScanSegment
  <2> HIDE DEF k
  <2>8. nextSeq' \in Nat /\ head' \in Nat /\ good' \in Nat /\ at' \in Nat
    <3>1. Len(cells) \in Nat BY <2>2
    <3>2. k \in Nat BY <2>3, <3>1
    <3>3. nextSeq' \in Nat /\ head' \in Nat BY <1>t, <2>4, <2>6, <3>2
    <3>4. good' \in Nat BY <1>t, <2>6, <3>2
    <3>5. at' \in Nat BY <1>t, <1>s, <2>5, <2>6
    <3> QED BY <3>3, <3>4, <3>5
  <2>9. Placed'
    BY <2>1, <2>3, <2>5, <2>6, <2>7 DEF Placed, Working, Scanning, Segments
  <2> QED BY <1>t, <2>7, <2>8, <2>9 DEF LedgerTyped
<1>g. ASSUME NEW records \in SUBSET Cells PROVE Names(records) \in SUBSET Nat
  BY DEF Names, Cells
<1>17. CASE CopyTail
  <2>1. at \in Segments BY <1>17, <1>t DEF CopyTail, Placed, Scanning
  <2>2. disk[at].cells \in Seq(Cells) BY <2>1, <1>t, FileAt
  <2>3. SubSeq(disk[at].cells, good + 1, Len(disk[at].cells)) \in Seq(Cells) BY <2>2, <1>t
  <2>4. BadTail \in SUBSET Cells BY <2>3, RecordsTyped DEF BadTail
  <2>5. gap' \in SUBSET Nat BY <1>17, <1>t, <1>g, <2>4 DEF CopyTail
  <2> QED BY <1>17, <1>t, <2>5 DEF CopyTail, LedgerTyped, Placed, Working, Scanning, Segments
<1>18. CASE TruncateTail
  <2>1. at \in Segments /\ good \in 0..Len(disk[at].cells)
    BY <1>18, <1>t DEF TruncateTail, Placed, Scanning
  <2>2. disk[at].cells \in Seq(Cells) BY <2>1, <1>t, FileAt
  <2>3. SubSeq(disk[at].cells, 1, good) \in Seq(Cells) BY <2>1, <2>2, PrefixSize
  <2>4. disk' = [disk EXCEPT ![at] = Resized(disk[at], SubSeq(disk[at].cells, 1, good))]
    BY <1>18 DEF TruncateTail
  <2>5. WellShaped(disk)' /\ Segments' = Segments BY <1>r, <2>1, <2>3, <2>4
  <2> QED BY <1>18, <1>t, <2>1, <2>5 DEF TruncateTail, LedgerTyped, Placed, Working, Scanning
<1>19. CASE RenameSegment
  <2> DEFINE i == FirstOf(After(at))
  <2>1. at \in Segments /\ pc = "rename" BY <1>19, <1>t DEF RenameSegment, Placed, Scanning
  <2>2. i \in After(at)
    <3>1. After(at) \in SUBSET Nat BY <1>s DEF After
    <3> QED BY <1>19, <3>1, FirstOfCorrect DEF RenameSegment
  <2>3. i \in Segments /\ i # at
    <3>1. i \in Segments /\ i > at BY <2>2 DEF After
    <3> QED BY <3>1, <1>t
  <2>4. /\ gap' = gap \cup Names(Records(disk[i].cells))
        /\ disk' = Without(i)
    BY <1>19 DEF RenameSegment
  <2>5. Records(disk[i].cells) \in SUBSET Cells
    BY <2>3, <1>t, FileAt, RecordsTyped
  <2>6. WellShaped(disk)' /\ at \in Segments'
    <3>1. DOMAIN disk' = Segments \ {i} /\ \A k \in Segments \ {i} : disk'[k] = disk[k]
      BY <2>4 DEF Without
    <3>2. disk' = [k \in DOMAIN disk' |-> disk'[k]] BY <2>4 DEF Without
    <3>3. at \in DOMAIN disk' BY <2>1, <2>3, <3>1
    <3> QED BY <3>1, <3>2, <3>3, <1>t DEF WellShaped, Segments
  <2>7. gap' \in SUBSET Nat BY <1>t, <1>g, <2>4, <2>5
  <2> QED BY <1>19, <1>t, <2>1, <2>6, <2>7 DEF RenameSegment, LedgerTyped, Placed, Working, Scanning
<1>20. CASE Quarantined
  BY <1>20, <1>t DEF Quarantined, SyncDirectory, LedgerTyped, Placed, Working, Scanning
<1>21. CASE Position
  <2> DEFINE s == disk[LastSegment]
  <2>1. LastSegment \in Segments BY <1>t, LastSegmentCorrect
  <2>2. s \in SegmentFiles /\ s.cells \in Seq(Cells) BY <2>1, <1>t, FileAt
  <2>3. Complete(s.cells) \in Seq(Cells)
    BY <2>2, CompleteCorrect, PrefixSize
  <2>4. LastSegment \in Nat /\ LastSegment + 1 \in Nat \ {0} BY <2>1, <1>s
  <2>5. WellShaped(disk)' /\ curIndex' \in Segments' /\ curIndex' \in Nat /\ curBytes' \in Nat
    <3>1. CASE Size(s.cells) >= SegSize
      <4>1. /\ curIndex' = LastSegment + 1 /\ curBytes' = 0
            /\ disk' = WithSegment(LastSegment + 1, EmptySegment)
        BY <1>21, <3>1 DEF Position
      <4>2. /\ WellShaped(WithSegment(LastSegment + 1, EmptySegment))
            /\ DOMAIN WithSegment(LastSegment + 1, EmptySegment) = Segments \cup {LastSegment + 1}
        BY <2>4, <1>t, <1>a, FileAdded
      <4> QED BY <4>1, <4>2, <2>4 DEF Segments
    <3>2. CASE ~(Size(s.cells) >= SegSize)
      <4>1. /\ curIndex' = LastSegment /\ curBytes' = Size(Complete(s.cells))
            /\ disk' = [disk EXCEPT ![LastSegment] = Resized(s, Complete(s.cells))]
        BY <1>21, <3>2 DEF Position
      <4>2. Size(Complete(s.cells)) \in Nat BY <2>3, SizeOfAppend, FragTyped
      <4>3. WellShaped(disk)' /\ Segments' = Segments BY <1>r, <2>1, <2>3, <4>1
      <4> QED BY <4>1, <4>2, <4>3, <2>1, <2>4
    <3> QED BY <3>1, <3>2
  <2>6. /\ pc' \in {"up", "record"}
        /\ UNCHANGED <<unnamed, nextSeq, head, at, good, gap, ev, acked, made, env, reader>>
    BY <1>21 DEF Position, SyncDirectory
  <2> QED BY <1>t, <2>5, <2>6 DEF LedgerTyped, Placed, Working, Scanning
<1>22. ASSUME NEW r \in Readers, ReaderStep(r) PROVE LedgerTyped'
  <2>1. UNCHANGED <<disk, moved, pc, mem, open, ev, acked, made, env>>
    BY <1>22 DEF ReaderStep, RangeStart, ReadPart, ReadPiece, ReadLine, ReadEnd, RangeEnd
  <2>2. reader' \in [Readers -> ReaderStates]
    <3>0. reader[r] \in ReaderStates BY <1>t
    <3>1. CASE RangeStart(r)
      BY <1>s, <1>t, <3>1 DEF RangeStart, IdleReader, ReaderStates, Genesis
    <3>2. Unread(r) => NextCell(r) \in Cells
      <4>1. SUFFICES ASSUME Unread(r) PROVE NextCell(r) \in Cells OBVIOUS
      <4>2. reader[r].todo \subseteq Segments /\ reader[r].todo # {}
        BY <4>1 DEF Unread, Reading, Served
      <4>3. FirstOf(reader[r].todo) \in Segments BY <1>s, <4>2, FirstOfCorrect
      <4>4. OpenFile(r) \in Seq(Cells) BY <4>3, <1>t, FileAt DEF OpenFile
      <4> QED BY <3>0, <4>1, <4>4 DEF Unread, NextCell, ReaderStates
    <3>3. CASE ReadPart(r) BY <1>t, <3>0, <3>2, <3>3 DEF ReadPart, ReaderStates, Cells
    <3>4. CASE ReadPiece(r)
      <4> DEFINE s == reader[r]
                 t == [s EXCEPT !.part = Genesis, !.read = s.read + 1]
      <4>1. s.read + 1 \in Nat BY <3>0 DEF ReaderStates
      <4>2. t \in ReaderStates BY <3>0, <4>1 DEF ReaderStates, Genesis
      <4>3. reader' = [reader EXCEPT ![r] = t] BY <1>t, <3>0, <3>4 DEF ReadPiece, ReaderStates
      <4> HIDE DEF t
      <4> QED BY <1>t, <4>2, <4>3, ReaderReplaced
    <3>5. CASE ReadLine(r)
      <4> DEFINE s == reader[r]
                 c == NextCell(r)
                 t == [s EXCEPT !.read = s.read + 1, !.part = NoLine, !.seq = s.seq + 1, !.head = c.id]
      <4>1. c \in Cells BY <3>2, <3>5, LineRead
      <4>a. c.id \in Nat BY <4>1 DEF Cells
      <4>b. s.read + 1 \in Nat /\ s.seq + 1 \in Nat BY <3>0 DEF ReaderStates
      <4>2. t \in ReaderStates
        <5> DEFINE next == s.read + 1
                   seqNext == s.seq + 1
                   id == c.id
        <5> HIDE DEF next, seqNext, id, c
        <5>1. next \in Nat /\ seqNext \in Nat /\ id \in Nat BY <4>a, <4>b DEF next, seqNext, id
        <5>2. [s EXCEPT !.read = next, !.part = NoLine, !.seq = seqNext, !.head = id] \in ReaderStates
          BY <3>0, <5>1 DEF ReaderStates
        <5> QED BY <5>2 DEF next, seqNext, id
      <4>3. [s EXCEPT !.pc = "alarm"] \in ReaderStates BY <3>0 DEF ReaderStates
      <4>4. \/ reader' = [reader EXCEPT ![r] = t]
            \/ reader' = [reader EXCEPT ![r] = [s EXCEPT !.pc = "alarm"]]
        BY <3>5, LineRead
      <4>5. reader \in [Readers -> ReaderStates] BY <1>t
      <4> DEFINE alarmed == [s EXCEPT !.pc = "alarm"]
      <4> HIDE DEF t, alarmed
      <4>6. CASE reader' = [reader EXCEPT ![r] = t] BY <4>2, <4>5, <4>6, ReaderReplaced
      <4>7. CASE reader' = [reader EXCEPT ![r] = alarmed]
        <5>1. alarmed \in ReaderStates BY <4>3 DEF alarmed
        <5> QED BY <4>5, <4>7, <5>1, ReaderReplaced
      <4> QED BY <4>4, <4>6, <4>7 DEF alarmed
    <3>6. CASE ReadEnd(r)
      <4> DEFINE s == reader[r]
                 t == [s EXCEPT !.todo = s.todo \ {FirstOf(s.todo)}, !.read = 0, !.part = NoLine]
      <4>1. s.todo \ {FirstOf(s.todo)} \in SUBSET Nat BY <3>0 DEF ReaderStates
      <4> DEFINE left == s.todo \ {FirstOf(s.todo)}
                 u == [s EXCEPT !.todo = left, !.read = 0, !.part = NoLine]
      <4> HIDE DEF left
      <4>3. u \in ReaderStates BY <3>0, <4>1 DEF ReaderStates, left
      <4>2. reader' = [reader EXCEPT ![r] = t] BY <1>t, <3>0, <3>6 DEF ReadEnd, ReaderStates
      <4> HIDE DEF t, s
      <4> QED BY <1>t, <4>2, <4>3, ReaderReplaced DEF t, left
    <3>7. CASE RangeEnd(r)
      BY <1>t, <3>7 DEF RangeEnd, IdleReader, ReaderStates, Genesis
    <3> QED BY <1>22, <3>1, <3>3, <3>4, <3>5, <3>6, <3>7 DEF ReaderStep
  <2> QED BY <1>t, <2>1, <2>2 DEF LedgerTyped, Placed, Working, Scanning, Segments
<1>23. CASE UNCHANGED journal
  BY <1>23, <1>t DEF journal, LedgerTyped, Placed, Working, Scanning, Segments
<1> QED
  BY <1>2, <1>3, <1>4, <1>5, <1>6, <1>8, <1>9, <1>10, <1>11, <1>12, <1>13, <1>14, <1>15,
     <1>16, <1>17, <1>18, <1>19, <1>20, <1>21, <1>22, <1>23
  DEF JournalNext, AppendStep, OpenStep, Environment

\* No step but a quarantine's takes a segment away while readers are about.
LEMMA ServedStep == LedgerTyped /\ Served /\ [JournalNext]_journal => Served'
<1> SUFFICES ASSUME LedgerTyped, Served, [JournalNext]_journal PROVE Served' OBVIOUS
<1> USE DEF mem, open, moved, quarantine
<1>1. ASSUME UNCHANGED reader, Serving => Serving' /\ Segments \subseteq Segments' PROVE Served'
  BY <1>1 DEF Served
<1>2. ASSUME NEW i, NEW f, disk' = [disk EXCEPT ![i] = f] PROVE Segments' = Segments
  BY <1>2 DEF Segments
<1>3. CASE AppendWrite
  <2>1. Segments' = Segments BY <1>2, <1>3 DEF AppendWrite, WriteEvent
  <2> QED BY <1>1, <1>3, <2>1 DEF AppendWrite, WriteEvent, NewEvent, Serving
<1>4. CASE RecordRecovery BY <1>1, <1>4 DEF RecordRecovery, WriteEvent, Serving
<1>5. CASE WriteFails
  <2>1. Segments' = Segments
    <3>1. CASE UNCHANGED disk BY <3>1 DEF Segments
    <3>2. CASE disk' = [disk EXCEPT ![curIndex].cells = Append(@, Frag)] BY <3>2 DEF Segments
    <3> QED BY <1>5, <3>1, <3>2 DEF WriteFails
  <2> QED BY <1>1, <1>5, <2>1 DEF WriteFails, Serving
<1>6. CASE Fsync
  <2>1. Segments' = Segments BY <1>6 DEF Fsync, Segments
  <2> QED BY <1>1, <1>6, <2>1 DEF Fsync, Serving
<1>7. CASE FsyncFails
  <2>1. Segments' = Segments BY <1>7 DEF FsyncFails, Segments
  <2>2. Serving => Serving' BY <1>7 DEF FsyncFails, Serving
  <2>3. PICK n : reader' = [r \in Readers |-> [reader[r] EXCEPT !.cut = @ \/ HasReadBeyond(r, n)]]
    BY <1>7 DEF FsyncFails
  <2>4. reader \in [Readers -> ReaderStates] BY DEF LedgerTyped, StructTyped
  <2>5. \A r \in Readers : reader'[r].pc = reader[r].pc /\ reader'[r].todo = reader[r].todo
    BY <2>3, <2>4 DEF ReaderStates
  <2> QED BY <2>1, <2>2, <2>5 DEF Served
<1>8. ASSUME NEW rotates \in BOOLEAN, Return(rotates) PROVE Served'
  <2>1. Segments \subseteq Segments'
    <3>1. CASE rotates BY <1>8, <3>1 DEF Return, WithSegment, Segments
    <3>2. CASE ~rotates BY <1>8, <3>2 DEF Return, Segments
    <3> QED BY <3>1, <3>2
  <2> QED BY <1>1, <1>8, <2>1 DEF Return, Serving
<1>9. ASSUME NoMemory PROVE Served' BY <1>9 DEF NoMemory, IdleReader, Served
<1>10. CASE Corrupt
  <2>1. Segments' = Segments BY <1>10 DEF Corrupt, Segments
  <2> QED BY <1>1, <1>10, <2>1 DEF Corrupt, Serving
<1>11. CASE OpenStep
  BY <1>1, <1>4, <1>11
  DEF OpenStep, OpenStart, ScanSegment, CopyTail, TruncateTail, RenameSegment, Quarantined,
      Position, Serving
<1>12. ASSUME NEW r \in Readers, ReaderStep(r) PROVE Served'
  <2>1. UNCHANGED <<Segments, Serving>>
    BY <1>12 DEF ReaderStep, RangeStart, ReadPart, ReadPiece, ReadLine, ReadEnd, RangeEnd, Segments, Serving
  <2>2. reader \in [Readers -> ReaderStates] BY DEF LedgerTyped, StructTyped
  <2>3. CASE RangeStart(r) BY <2>1, <2>2, <2>3 DEF RangeStart, Served, IdleReader
  <2>4. CASE ReadPart(r) \/ ReadPiece(r) \/ ReadLine(r) \/ ReadEnd(r)
    <3>1. \A s \in Readers : s # r => reader'[s] = reader[s]
      BY <2>2, <2>4 DEF ReadPart, ReadPiece, ReadLine, ReadEnd
    <3>2. reader[r].pc = "reading"
      BY <2>4 DEF ReadPart, ReadPiece, ReadLine, ReadEnd, Unread, Reading
    <3>3. reader'[r].todo \subseteq reader[r].todo
      <4>1. CASE ReadPart(r) BY <2>2, <4>1 DEF ReadPart, ReaderStates
      <4>4. CASE ReadPiece(r)
        <5>1. reader[r] \in ReaderStates BY <2>2
        <5>2. reader'[r].todo = reader[r].todo BY <2>2, <4>4, <5>1 DEF ReadPiece, ReaderStates
        <5> QED BY <5>2
      <4>2. CASE ReadLine(r)
        <5> DEFINE s == reader[r]
                   c == NextCell(r)
                   t == [s EXCEPT !.read = s.read + 1, !.part = NoLine, !.seq = s.seq + 1, !.head = c.id]
                   alarmed == [s EXCEPT !.pc = "alarm"]
        <5>1. reader[r] \in ReaderStates BY <2>2
        <5>2. t.todo = s.todo /\ alarmed.todo = s.todo BY <5>1 DEF ReaderStates
        <5>3. \/ reader' = [reader EXCEPT ![r] = t]
              \/ reader' = [reader EXCEPT ![r] = alarmed]
          BY <4>2, LineRead
        <5> HIDE DEF t, alarmed
        <5>4. reader'[r] = t \/ reader'[r] = alarmed BY <2>2, <5>3
        <5> QED BY <5>2, <5>4
      <4>3. CASE ReadEnd(r)
        <5>1. reader[r] \in ReaderStates BY <2>2
        <5>2. reader'[r].todo = reader[r].todo \ {FirstOf(reader[r].todo)}
          BY <2>2, <4>3, <5>1 DEF ReadEnd, ReaderStates
        <5> QED BY <5>2
      <4> QED BY <2>4, <4>1, <4>2, <4>3, <4>4
    <3> QED BY <2>1, <3>1, <3>2, <3>3 DEF Served
  <2>5. CASE RangeEnd(r) BY <2>1, <2>2, <2>5 DEF RangeEnd, Served, IdleReader
  <2> QED BY <1>12, <2>3, <2>4, <2>5 DEF ReaderStep
<1>13. CASE UNCHANGED journal BY <1>13 DEF journal, Served, Serving, Segments
<1> QED
  BY <1>3, <1>5, <1>6, <1>7, <1>8, <1>9, <1>10, <1>11, <1>12, <1>13
  DEF JournalNext, AppendStep, Environment, ReturnRotating, ReturnFull, ReturnRoom,
      Close, Crash, PowerLoss

\* What a directory holds once it is synced.
LEMMA DirectorySynced ==
  ASSUME SyncDirectory
  PROVE  /\ copied' = {} /\ DOMAIN renamed' = {} /\ aside' = SetAside /\ SetAside' = SetAside
         /\ vanished' = vanished /\ unnamed' = unnamed
<1>1. copied' = {} /\ renamed' = <<>> /\ aside' = SetAside BY DEF SyncDirectory
<1>2. UNION copied' = {} BY <1>1
<1>3. (RecordsOf(renamed)') = {} BY <1>1 DEF RecordsOf
<1> QED BY <1>1, <1>2, <1>3 DEF SyncDirectory, SetAside

LEMMA SetAsideTyped == QuarantineTyped => SetAside \in SUBSET Cells
<1> SUFFICES ASSUME QuarantineTyped PROVE SetAside \in SUBSET Cells OBVIOUS
<1>1. \A i \in DOMAIN renamed : Records(renamed[i]) \in SUBSET Cells
  BY RecordsTyped DEF QuarantineTyped
<1> QED BY <1>1 DEF SetAside, RecordsOf, QuarantineTyped

LEMMA QuarantineTypedStep ==
  LedgerTyped /\ QuarantineTyped /\ [JournalNext]_journal => QuarantineTyped'
<1> SUFFICES ASSUME LedgerTyped, QuarantineTyped, [JournalNext]_journal PROVE QuarantineTyped'
  OBVIOUS
<1> USE DEF mem, open, moved, quarantine
<1>t. WellShaped(disk) /\ StructTyped /\ Placed BY DEF LedgerTyped
<1>s. Segments \in SUBSET Nat BY <1>t DEF WellShaped, Segments
<1>1. ASSUME UNCHANGED quarantine, Segments' \subseteq Segments PROVE QuarantineTyped'
  BY <1>1 DEF QuarantineTyped
<1>2. ASSUME SyncDirectory PROVE QuarantineTyped'
  <2>1. aside' \in SUBSET Cells BY <1>2, SetAsideTyped, DirectorySynced
  <2>2. DOMAIN renamed' \subseteq 0..0 BY <1>2, DirectorySynced
  <2> QED BY <1>2, <2>1, <2>2, DirectorySynced DEF QuarantineTyped
<1>3. ASSUME NEW i, NEW f, disk' = [disk EXCEPT ![i] = f] PROVE Segments' = Segments
  BY <1>3 DEF Segments
<1>4. CASE AppendWrite \/ RecordRecovery
  BY <1>1, <1>3, <1>4 DEF AppendWrite, RecordRecovery, WriteEvent
<1>5. CASE WriteFails
  <2>1. Segments' = Segments BY <1>5 DEF WriteFails, Segments
  <2> QED BY <1>1, <1>5, <2>1 DEF WriteFails
<1>6. CASE Fsync
  <2>1. Segments' = Segments BY <1>6 DEF Fsync, Segments
  <2> QED BY <1>1, <1>6, <2>1 DEF Fsync
<1>7. CASE FsyncFails
  <2>1. Segments' = Segments BY <1>7 DEF FsyncFails, Segments
  <2> QED BY <1>1, <1>7, <2>1 DEF FsyncFails
<1>8. ASSUME NEW rotates \in BOOLEAN, Return(rotates) PROVE QuarantineTyped'
  <2>1. CASE rotates BY <1>2, <1>8, <2>1 DEF Return
  <2>2. CASE ~rotates BY <1>1, <1>8, <2>2 DEF Return, Segments
  <2> QED BY <2>1, <2>2
<1>9. CASE Close BY <1>1, <1>9 DEF Close, Segments
<1>10. CASE Crash
  <2>1. Segments' = Segments BY <1>10 DEF Crash, Segments
  <2> QED BY <1>1, <1>10, <2>1 DEF Crash
<1>11. CASE PowerLoss
  <2>1. PICK back \in SUBSET DOMAIN renamed, lost \in SUBSET copied :
          /\ aside' = aside \cup (UNION (copied \ lost))
                         \cup RecordsOf(Restrict(renamed, DOMAIN renamed \ back))
          /\ vanished' = vanished \cup UNION lost
    BY <1>11 DEF PowerLoss
  <2>2. RecordsOf(Restrict(renamed, DOMAIN renamed \ back)) \subseteq RecordsOf(renamed)
    BY DEF RecordsOf, Restrict
  <2>3. aside' \subseteq SetAside BY <2>1, <2>2 DEF SetAside
  <2>4. copied' = {} /\ DOMAIN renamed' = {} BY <1>11 DEF PowerLoss
  <2>5. aside' \in SUBSET Cells BY <2>3, SetAsideTyped
  <2>6. vanished' \in SUBSET Cells BY <2>1 DEF QuarantineTyped
  <2>7. DOMAIN renamed' \subseteq 0..0 BY <2>4
  <2> QED BY <2>4, <2>5, <2>6, <2>7 DEF QuarantineTyped
<1>12. CASE Corrupt
  <2>1. Segments' = Segments BY <1>12 DEF Corrupt, Segments
  <2> QED BY <1>1, <1>12, <2>1 DEF Corrupt
<1>13. CASE OpenStart \/ ScanSegment
  BY <1>1, <1>13 DEF OpenStart, ScanSegment, Segments
<1>14. CASE CopyTail
  <2>1. at \in Segments BY <1>14, <1>t DEF CopyTail, Placed, Scanning
  <2>2. disk[at].cells \in Seq(Cells) BY <2>1, <1>t, FileAt
  <2>3. SubSeq(disk[at].cells, good + 1, Len(disk[at].cells)) \in Seq(Cells)
    BY <2>2, <1>t DEF StructTyped
  <2>4. BadTail \in SUBSET Cells BY <2>3, RecordsTyped DEF BadTail
  <2>5. /\ copied' = copied \cup {BadTail} /\ UNCHANGED <<aside, renamed, vanished>>
        /\ Segments' = Segments
    BY <1>14 DEF CopyTail, Segments
  <2> QED BY <2>4, <2>5 DEF QuarantineTyped
<1>15. CASE TruncateTail
  <2>1. Segments' = Segments BY <1>15 DEF TruncateTail, Segments
  <2> QED BY <1>1, <1>15, <2>1 DEF TruncateTail
<1>16. CASE RenameSegment
  <2>1. PICK i : i = FirstOf(After(at)) OBVIOUS
  <2>2. /\ renamed' = [k \in DOMAIN renamed \cup {i} |-> IF k = i THEN disk[i].cells ELSE renamed[k]]
        /\ disk' = Without(i) /\ UNCHANGED <<aside, copied, vanished>>
    BY <1>16, <2>1 DEF RenameSegment
  <2>3. i \in Segments
    <3>1. After(at) \in SUBSET Nat /\ After(at) # {} BY <1>16, <1>s DEF RenameSegment, After
    <3> QED BY <2>1, <3>1, FirstOfCorrect DEF After
  <2>4. Segments' = Segments \ {i} BY <2>2 DEF Without, Segments
  <2>5. i \in Nat \ {0} /\ disk[i].cells \in Seq(Cells)
    BY <1>t, <2>3, FileAt DEF WellShaped, Segments
  <2>6. \E m \in Nat : DOMAIN renamed' \subseteq 0..m
    <3>1. PICK m \in Nat : DOMAIN renamed \subseteq 0..m BY DEF QuarantineTyped
    <3>2. DOMAIN renamed' \subseteq 0..m + i BY <2>2, <2>5, <3>1
    <3>3. m + i \in Nat BY <2>5
    <3> QED BY <3>2, <3>3
  <2> QED BY <2>2, <2>4, <2>5, <2>6 DEF QuarantineTyped
<1>17. CASE Quarantined BY <1>2, <1>17 DEF Quarantined
<1>18. CASE Position
  <2>1. CASE Size(disk[LastSegment].cells) >= SegSize BY <1>2, <1>18, <2>1 DEF Position
  <2>2. CASE ~(Size(disk[LastSegment].cells) >= SegSize)
    BY <1>1, <1>18, <2>2 DEF Position, Segments
  <2> QED BY <2>1, <2>2
<1>19. ASSUME NEW r \in Readers, ReaderStep(r) PROVE QuarantineTyped'
  BY <1>1, <1>19 DEF ReaderStep, RangeStart, ReadPart, ReadPiece, ReadLine, ReadEnd, RangeEnd, Segments
<1>20. CASE UNCHANGED journal BY <1>1, <1>20 DEF journal, Segments
<1> QED
  BY <1>4, <1>5, <1>6, <1>7, <1>8, <1>9, <1>10, <1>11, <1>12, <1>13, <1>14, <1>15, <1>16,
     <1>17, <1>18, <1>19, <1>20
  DEF JournalNext, AppendStep, OpenStep, Environment, ReturnRotating, ReturnFull, ReturnRoom

LEMMA LedgerTypedInit == JournalInit => LedgerTyped /\ QuarantineTyped /\ Served
<1> SUFFICES ASSUME JournalInit PROVE LedgerTyped /\ QuarantineTyped /\ Served OBVIOUS
<1>1. WellShaped(disk)
  <2>1. EmptySegment \in SegmentFiles BY DEF EmptySegment, SegmentFiles
  <2>2. DOMAIN disk = {1} /\ disk[1] = EmptySegment /\ disk = [i \in {1} |-> disk[i]]
    BY DEF JournalInit
  <2>3. {1} \subseteq 0..1 OBVIOUS
  <2> QED BY <2>1, <2>2, <2>3 DEF WellShaped
<1>2. env \in [faults : SUBSET FaultKinds, left : Nat, appends : Nat, readers : SUBSET Readers]
  BY JournalAssumption DEF JournalInit
<1>3. StructTyped
  BY <1>2, FragTyped DEF JournalInit, StructTyped, Genesis, IdleReader, ReaderStates
<1>4. Placed BY DEF JournalInit, Placed, Working, Scanning, Segments
<1>5. Served BY DEF JournalInit, Served, IdleReader
<1>6. QuarantineTyped
  <2>1. DOMAIN renamed = {} /\ DOMAIN renamed \subseteq 0..0 BY DEF JournalInit
  <2> QED BY <2>1 DEF JournalInit, QuarantineTyped
<1> QED BY <1>1, <1>3, <1>4, <1>5, <1>6 DEF LedgerTyped

\* The journal keeps its types, and its readers read segments that exist.
THEOREM LedgerTypeCorrect == JournalSpec => [](LedgerTyped /\ QuarantineTyped /\ Served)
<1> DEFINE I == LedgerTyped /\ QuarantineTyped /\ Served
<1>1. JournalInit => I BY LedgerTypedInit
<1>2. I /\ [JournalNext]_journal => I' BY LedgerTypedStep, QuarantineTypedStep, ServedStep
<1> QED BY <1>1, <1>2, PTL DEF JournalSpec

-----------------------------------------------------------------------------
\* What no step may lose but to `vanished`: the records quarantined, and those
\* on stable storage.

Synced(s) == {s.cells[p] : p \in {q \in 1..s.synced : IsLine(s.cells[q])}}
Kept == SetAside \cup vanished
Safe == Kept \cup UNION {Synced(disk[i]) : i \in Segments}
SameRecord(c, d) == d.kind = c.kind /\ d.id = c.id /\ d.names = c.names
IsSafe(c) == \E d \in Safe : SameRecord(c, d)

\* curBytes is the committed size of the current segment, to which a failed
\* fsync cuts it back.
BytesCounted ==
  "write" \notin env.faults =>
    /\ pc \in {"up", "record", "synced"} => curBytes = Size(disk[curIndex].cells)
    /\ pc = "written" =>
         LET cells == disk[curIndex].cells IN curBytes = Size(SubSeq(cells, 1, Len(cells) - 1))

\* The record being appended is the last of its file, and not yet synced.
LastWritten ==
  pc = "written" =>
    LET s == disk[curIndex] IN
      /\ s.cells # <<>> /\ s.synced < Len(s.cells)
      /\ IsLine(ev) /\ SameRecord(ev, s.cells[Len(s.cells)])
      /\ ev.names \in {{}, gap}

\* What a quarantine is about to cut off has been copied.
Copied == pc = "truncate" => BadTail \subseteq UNION copied

\* An acknowledged event is safe, from before its Append returns.
AckedSafe ==
  /\ \A e \in Range(acked) : \E c \in Safe : c.id = e.id
  /\ pc = "synced" => IsSafe(ev)

\* A record moved aside is named by one that is safe, or will be by the one
\* this Open is about to write, or nothing will ever name it.
Recording == {"truncate", "rename", "position", "record"}
NamesSafe ==
  \A c \in SetAside : \/ c.id \in unnamed
                      \/ pc \in Recording /\ c.id \in gap
                      \/ pc = "written" /\ c.id \in ev.names
                      \/ \E d \in Safe : c.id \in d.names

\* What may happen around the journal is settled at the start.
LEMMA FaultsStay == LedgerTyped /\ [JournalNext]_journal => env'.faults = env.faults
<1> SUFFICES ASSUME LedgerTyped, [JournalNext]_journal PROVE env'.faults = env.faults OBVIOUS
<1>1. env = [faults |-> env.faults, left |-> env.left, appends |-> env.appends, readers |-> env.readers]
  BY DEF LedgerTyped, StructTyped
<1>2. ASSUME NEW kind, Fault(kind) PROVE env'.faults = env.faults BY <1>1, <1>2 DEF Fault
<1>3. CASE UNCHANGED env BY <1>3
<1>4. CASE AppendStep
  BY <1>2, <1>3, <1>4
  DEF AppendStep, AppendWrite, WriteEvent, WriteFails, Fsync, FsyncFails, ReturnRotating,
      ReturnFull, ReturnRoom
<1>5. CASE OpenStep
  BY <1>3, <1>5
  DEF OpenStep, OpenStart, ScanSegment, CopyTail, TruncateTail, RenameSegment, Quarantined,
      Position, RecordRecovery, WriteEvent
<1>6. CASE Environment BY <1>2, <1>6 DEF Environment, Close, Crash, PowerLoss, Corrupt
<1>7. ASSUME NEW r \in Readers, ReaderStep(r) PROVE env'.faults = env.faults
  BY <1>3, <1>7 DEF ReaderStep, RangeStart, ReadPart, ReadPiece, ReadLine, ReadEnd, RangeEnd
<1> QED BY <1>3, <1>4, <1>5, <1>6, <1>7 DEF JournalNext, journal

\* Damage changes no size.
LEMMA SizeSame ==
  ASSUME NEW a \in Seq(Cells), NEW b \in Seq(Cells), Len(a) = Len(b),
         \A p \in 1..Len(a) : IsLine(a[p]) <=> IsLine(b[p])
  PROVE  Size(a) = Size(b)
<1>1. DOMAIN a = 1..Len(a) /\ DOMAIN b = 1..Len(a) OBVIOUS
<1>2. {p \in DOMAIN a : IsLine(a[p])} = {p \in DOMAIN b : IsLine(b[p])} BY <1>1
<1> QED BY <1>2 DEF Size

LEMMA SizeOfNothing == Size(<<>>) = 0
<1>1. {p \in DOMAIN <<>> : IsLine(<<>>[p])} = {} OBVIOUS
<1> QED BY <1>1, FS_EmptySet DEF Size

\* A file is what it was without its last cell, and that cell.
LEMMA LastCell ==
  ASSUME NEW cells \in Seq(Cells), cells # <<>>
  PROVE  /\ cells[Len(cells)] \in Cells /\ SubSeq(cells, 1, Len(cells) - 1) \in Seq(Cells)
         /\ Size(cells) = Size(SubSeq(cells, 1, Len(cells) - 1)) + Units(cells[Len(cells)])
<1> DEFINE but == SubSeq(cells, 1, Len(cells) - 1)
<1>1. cells[Len(cells)] \in Cells /\ but \in Seq(Cells) OBVIOUS
<1>2. cells = Append(but, cells[Len(cells)]) OBVIOUS
<1> HIDE DEF but
<1>3. Size(Append(but, cells[Len(cells)])) = Size(but) + Units(cells[Len(cells)])
  BY <1>1, SizeOfAppend
<1> QED BY <1>1, <1>2, <1>3 DEF but

\* The steps that write the record of an event.
LEMMA WriteEffect ==
  ASSUME LedgerTyped, NEW names \in SUBSET Nat, WriteEvent(names), curIndex \in Segments
  PROVE  /\ ev' \in Cells /\ IsLine(ev') /\ ev'.names = names
         /\ Segments' = Segments /\ UNCHANGED quarantine
         /\ \A i \in Segments : i # curIndex => disk'[i] = disk[i]
         /\ disk'[curIndex].synced = disk[curIndex].synced
         /\ \E c \in Cells : /\ SameRecord(ev', c)
                             /\ disk'[curIndex].cells = Append(disk[curIndex].cells, c)
<1> DEFINE c == [ev' EXCEPT !.ok = ~EndsTorn(disk[curIndex].cells)]
<1>1. ev' \in Cells /\ IsLine(ev') /\ ev'.names = names
  BY DEF WriteEvent, NewEvent, Cells, IsLine, LedgerTyped, StructTyped
<1>2. c \in Cells /\ SameRecord(ev', c) BY <1>1 DEF Cells, EndsTorn, SameRecord
<1>3. disk' = [disk EXCEPT ![curIndex] = [disk[curIndex] EXCEPT !.cells = Append(disk[curIndex].cells, c)]]
  BY DEF WriteEvent, Written
<1>4. disk[curIndex] \in SegmentFiles BY FileAt DEF LedgerTyped
<1> HIDE DEF c
<1>5. /\ disk'[curIndex].cells = Append(disk[curIndex].cells, c)
      /\ disk'[curIndex].synced = disk[curIndex].synced
  BY <1>2, <1>3, <1>4, AppendedTyped DEF Segments
<1> QED BY <1>1, <1>2, <1>3, <1>5 DEF Segments, WriteEvent, moved

LEMMA CountedStep ==
  LedgerTyped /\ LedgerTyped' /\ BytesCounted /\ LastWritten /\ [JournalNext]_journal
    => BytesCounted'
<1> SUFFICES ASSUME LedgerTyped, LedgerTyped', BytesCounted, LastWritten, [JournalNext]_journal,
                    "write" \notin env'.faults
             PROVE  (BytesCounted')
  BY DEF BytesCounted
<1> USE DEF mem, open, moved, quarantine
<1>0. "write" \notin env.faults BY FaultsStay
<1>t. WellShaped(disk) /\ StructTyped /\ Placed BY DEF LedgerTyped
<1>c. pc \in Working => /\ curIndex \in Segments /\ disk[curIndex] \in SegmentFiles
                        /\ disk[curIndex].cells \in Seq(Cells)
                        /\ disk[curIndex] = [cells |-> disk[curIndex].cells, synced |-> disk[curIndex].synced]
  BY <1>t, FileAt DEF Placed
<1>d. ASSUME pc' \notin Working PROVE BytesCounted' BY <1>d DEF BytesCounted, Working
<1>s. ASSUME pc' \in {"up", "record", "synced"}, curBytes' = Size(disk'[curIndex'].cells)
      PROVE  BytesCounted'
  BY <1>s DEF BytesCounted
<1>1. ASSUME NEW names \in SUBSET Nat, WriteEvent(names), pc \in {"up", "record"}, pc' = "written"
      PROVE  BytesCounted'
  <2>1. curIndex \in Segments /\ disk[curIndex].cells \in Seq(Cells) BY <1>1, <1>c DEF Working
  <2>2. PICK c \in Cells : disk'[curIndex].cells = Append(disk[curIndex].cells, c)
    BY <1>1, <2>1, WriteEffect
  <2>3. SubSeq(disk'[curIndex].cells, 1, Len(disk'[curIndex].cells) - 1) = disk[curIndex].cells
    BY <2>1, <2>2
  <2>4. curBytes = Size(disk[curIndex].cells) BY <1>0, <1>1 DEF BytesCounted
  <2>5. curBytes' = curBytes /\ curIndex' = curIndex BY <1>1 DEF WriteEvent
  <2> QED BY <1>1, <2>3, <2>4, <2>5 DEF BytesCounted
<1>2. CASE AppendWrite BY <1>2, <1>1 DEF AppendWrite
<1>3. CASE RecordRecovery BY <1>3, <1>1, <1>t DEF RecordRecovery, StructTyped
<1>4. CASE WriteFails BY <1>4, <1>0 DEF WriteFails, Fault
<1>w. ASSUME pc = "written"
      PROVE  LET cells == disk[curIndex].cells IN
               /\ cells \in Seq(Cells) /\ cells # <<>>
               /\ curBytes = Size(SubSeq(cells, 1, Len(cells) - 1))
               /\ Size(cells) = curBytes + Units(ev)
  <2>1. /\ disk[curIndex].cells \in Seq(Cells) /\ disk[curIndex].cells # <<>>
        /\ SameRecord(ev, disk[curIndex].cells[Len(disk[curIndex].cells)])
    BY <1>c, <1>w DEF LastWritten, Working
  <2>2. Units(disk[curIndex].cells[Len(disk[curIndex].cells)]) = Units(ev)
    BY <2>1 DEF SameRecord, Units, IsLine
  <2> QED BY <1>0, <1>w, <2>1, <2>2, LastCell DEF BytesCounted
<1>5. CASE Fsync
  <2>1. pc = "written" BY <1>5 DEF Fsync
  <2>2. disk'[curIndex].cells = disk[curIndex].cells /\ curIndex' = curIndex
    BY <1>5, <1>c, <2>1 DEF Fsync, Working, Segments
  <2>3. curBytes' = curBytes + Units(ev) /\ pc' = "synced" BY <1>5 DEF Fsync
  <2> QED BY <1>s, <1>w, <2>1, <2>2, <2>3
<1>6. CASE FsyncFails
  <2>1. pc = "written" BY <1>6 DEF FsyncFails
  <2> DEFINE cells == disk[curIndex].cells
             but == SubSeq(cells, 1, Len(cells) - 1)
  <2>2. cells \in Seq(Cells) /\ curBytes = Size(but) /\ cells # <<>> BY <1>w, <2>1
  <2>3. Cut(cells, curBytes) = but BY <2>2, CutLast
  <2>4. curIndex \in Segments /\ disk[curIndex] \in SegmentFiles BY <1>c, <2>1 DEF Working
  <2>5. disk'[curIndex].cells = but
    <3>1. but \in Seq(Cells) BY <2>2
    <3>2. disk' = [disk EXCEPT ![curIndex] = Resized(disk[curIndex], but)]
      BY <1>6, <2>3 DEF FsyncFails
    <3> HIDE DEF but
    <3> QED BY <2>4, <3>1, <3>2, ResizedTyped DEF Segments
  <2>6. curBytes' = curBytes /\ curIndex' = curIndex /\ pc' \in {"up", "down"}
    BY <1>6 DEF FsyncFails
  <2> QED BY <1>d, <1>s, <2>2, <2>5, <2>6 DEF Working
<1>7. ASSUME NEW rotates \in BOOLEAN, Return(rotates) PROVE BytesCounted'
  <2>1. CASE rotates
    <3>1. disk'[curIndex'] = EmptySegment /\ curBytes' = 0 /\ pc' = "up"
      BY <1>7, <2>1 DEF Return, WithSegment
    <3> QED BY <1>s, <3>1, SizeOfNothing DEF EmptySegment
  <2>2. CASE ~rotates
    <3>1. UNCHANGED <<disk, curIndex, curBytes>> /\ pc' = "up" /\ pc = "synced"
      BY <1>7, <2>2 DEF Return
    <3> QED BY <1>0, <1>s, <3>1 DEF BytesCounted
  <2> QED BY <2>1, <2>2
<1>8. ASSUME NoMemory PROVE BytesCounted' BY <1>8, <1>d DEF NoMemory, Working
<1>9. CASE Corrupt
  <2>1. PICK i \in Segments : \E p \in DOMAIN disk[i].cells :
          disk' = [disk EXCEPT ![i].cells[p].ok = FALSE]
    BY <1>9 DEF Corrupt
  <2>2. PICK p \in DOMAIN disk[i].cells : disk' = [disk EXCEPT ![i].cells[p].ok = FALSE]
    BY <2>1
  <2>3. pc \in {"up", "down"} /\ UNCHANGED <<pc, curIndex, curBytes>> BY <1>9 DEF Corrupt
  <2>4. CASE pc = "up"
    <3>1. curIndex \in Segments /\ disk[curIndex].cells \in Seq(Cells) BY <1>c, <2>4 DEF Working
    <3>2. Size(disk'[curIndex].cells) = Size(disk[curIndex].cells)
      <4>1. CASE i # curIndex BY <2>2, <3>1, <4>1
      <4>2. CASE i = curIndex
        <5> DEFINE c == [disk[i].cells[p] EXCEPT !.ok = FALSE]
        <5>1. disk'[curIndex].cells = [disk[curIndex].cells EXCEPT ![p] = c]
          BY <2>2, <3>1, <4>2, <1>c, <2>4 DEF Working, Segments
        <5>2. disk[i].cells[p] \in Cells BY <3>1, <2>2, <4>2
        <5>3. c \in Cells /\ (IsLine(c) <=> IsLine(disk[i].cells[p])) BY <5>2 DEF Cells, IsLine
        <5> HIDE DEF c
        <5>4. PICK cells \in Seq(Cells) : cells = disk[curIndex].cells BY <3>1
        <5>5. p \in 1..Len(cells) BY <2>2, <4>2, <5>4
        <5>6. [cells EXCEPT ![p] = c] \in Seq(Cells) /\ Len([cells EXCEPT ![p] = c]) = Len(cells)
              /\ \A q \in 1..Len(cells) : [cells EXCEPT ![p] = c][q] = IF q = p THEN c ELSE cells[q]
          BY <5>3, <5>5
        <5>7. \A q \in 1..Len(cells) : IsLine(cells[q]) <=> IsLine([cells EXCEPT ![p] = c][q])
          BY <4>2, <5>3, <5>4, <5>6
        <5>8. Size([cells EXCEPT ![p] = c]) = Size(cells) BY <5>6, <5>7, SizeSame
        <5> QED BY <5>1, <5>4, <5>8
      <4> QED BY <4>1, <4>2
    <3> QED BY <1>0, <1>s, <2>3, <2>4, <3>2 DEF BytesCounted
  <2> QED BY <1>d, <2>3, <2>4 DEF Working
<1>10. CASE Position
  <2>1. LastSegment \in Segments BY <1>t, LastSegmentCorrect
  <2> DEFINE s == disk[LastSegment]
  <2>2. s \in SegmentFiles /\ s.cells \in Seq(Cells) BY <2>1, <1>t, FileAt
  <2>3. pc' \in {"up", "record"} BY <1>10 DEF Position
  <2>4. CASE Size(s.cells) >= SegSize
    <3>1. disk'[curIndex'] = EmptySegment /\ curBytes' = 0
      BY <1>10, <2>4 DEF Position, WithSegment
    <3> QED BY <1>s, <2>3, <3>1, SizeOfNothing DEF EmptySegment
  <2>5. CASE ~(Size(s.cells) >= SegSize)
    <3>1. Complete(s.cells) \in Seq(Cells) BY <2>2, CompleteCorrect, PrefixSize
    <3>2. /\ disk' = [disk EXCEPT ![LastSegment] = Resized(s, Complete(s.cells))]
          /\ curIndex' = LastSegment /\ curBytes' = Size(Complete(s.cells))
      BY <1>10, <2>5 DEF Position
    <3>3. disk'[curIndex'].cells = Complete(s.cells)
      BY <2>1, <2>2, <3>1, <3>2, ResizedTyped DEF Segments
    <3> QED BY <1>s, <2>3, <3>2, <3>3
  <2> QED BY <2>4, <2>5
<1>11. ASSUME UNCHANGED <<disk, pc, curIndex, curBytes>> PROVE BytesCounted'
  BY <1>0, <1>11 DEF BytesCounted
<1>12. CASE OpenStep
  BY <1>d, <1>3, <1>10, <1>12
  DEF OpenStep, OpenStart, ScanSegment, CopyTail, TruncateTail, RenameSegment, Quarantined, Working
<1>13. ASSUME NEW r \in Readers, ReaderStep(r) PROVE BytesCounted'
  BY <1>11, <1>13 DEF ReaderStep, RangeStart, ReadPart, ReadPiece, ReadLine, ReadEnd, RangeEnd
<1> QED
  BY <1>2, <1>4, <1>5, <1>6, <1>7, <1>8, <1>9, <1>11, <1>12, <1>13
  DEF JournalNext, AppendStep, Environment, ReturnRotating, ReturnFull, ReturnRoom,
      Close, Crash, PowerLoss, journal

\* What moves the journal on without a byte written: readers.
LEMMA ReadersOnlyRead ==
  ASSUME NEW r \in Readers, ReaderStep(r)
  PROVE  UNCHANGED <<disk, moved, pc, mem, open, ev, acked, made, env>>
BY DEF ReaderStep, RangeStart, ReadPart, ReadPiece, ReadLine, ReadEnd, RangeEnd

LEMMA LastWrittenStep ==
  LedgerTyped /\ LedgerTyped' /\ LastWritten /\ [JournalNext]_journal => LastWritten'
<1> SUFFICES ASSUME LedgerTyped, LedgerTyped', LastWritten, [JournalNext]_journal, pc' = "written"
             PROVE  (LastWritten')
  BY DEF LastWritten
<1> USE DEF mem, open, moved, quarantine
<1>1. ASSUME NEW names \in SUBSET Nat, WriteEvent(names), pc \in {"up", "record"}, names \in {{}, gap}
      PROVE  LastWritten'
  <2>1. curIndex \in Segments /\ disk[curIndex].cells \in Seq(Cells)
        /\ disk[curIndex].synced \in 0..Len(disk[curIndex].cells)
    BY <1>1, FileAt DEF LedgerTyped, Placed, Working
  <2>2. PICK c \in Cells : /\ SameRecord(ev', c)
                           /\ disk'[curIndex].cells = Append(disk[curIndex].cells, c)
    BY <1>1, <2>1, WriteEffect
  <2>3. disk'[curIndex].synced = disk[curIndex].synced /\ IsLine(ev') /\ ev'.names = names
    BY <1>1, <2>1, WriteEffect
  <2>4. /\ disk'[curIndex].cells # <<>>
        /\ Len(disk'[curIndex].cells) = Len(disk[curIndex].cells) + 1
        /\ disk'[curIndex].cells[Len(disk'[curIndex].cells)] = c
    BY <2>1, <2>2
  <2>5. disk'[curIndex].synced < Len(disk'[curIndex].cells) BY <2>1, <2>3, <2>4
  <2>6. curIndex' = curIndex /\ gap' = gap BY <1>1 DEF WriteEvent
  <2> QED BY <1>1, <2>2, <2>3, <2>4, <2>5, <2>6 DEF LastWritten
<1>2. CASE AppendWrite BY <1>2, <1>1 DEF AppendWrite
<1>3. CASE RecordRecovery
  BY <1>3, <1>1 DEF RecordRecovery, LedgerTyped, StructTyped
<1>4. ASSUME UNCHANGED <<disk, pc, curIndex, ev, gap>> PROVE LastWritten'
  BY <1>4 DEF LastWritten
<1>5. ASSUME NEW r \in Readers, ReaderStep(r) PROVE LastWritten'
  BY <1>4, <1>5, ReadersOnlyRead
<1>6. ~(WriteFails \/ Fsync \/ FsyncFails \/ ReturnRotating \/ ReturnFull \/ ReturnRoom)
  BY DEF WriteFails, Fsync, FsyncFails, ReturnRotating, ReturnFull, ReturnRoom, Return
<1>7. ~(OpenStart \/ ScanSegment \/ CopyTail \/ TruncateTail \/ RenameSegment \/ Quarantined \/ Position)
  BY DEF OpenStart, ScanSegment, CopyTail, TruncateTail, RenameSegment, Quarantined, Position
<1>8. ~Environment BY DEF Environment, Close, Crash, PowerLoss, Corrupt, NoMemory
<1> QED
  BY <1>2, <1>3, <1>4, <1>5, <1>6, <1>7, <1>8 DEF JournalNext, AppendStep, OpenStep, journal

LEMMA CopiedStep == Copied /\ [JournalNext]_journal => Copied'
<1> SUFFICES ASSUME Copied, [JournalNext]_journal, pc' = "truncate" PROVE (Copied') BY DEF Copied
<1> USE DEF mem, open, moved, quarantine
<1>1. CASE CopyTail BY <1>1 DEF CopyTail, Copied, BadTail
<1>2. ASSUME UNCHANGED <<disk, pc, copied, at, good>> PROVE Copied' BY <1>2 DEF Copied, BadTail
<1>3. ASSUME NEW r \in Readers, ReaderStep(r) PROVE Copied' BY <1>2, <1>3, ReadersOnlyRead
<1>4. ~AppendStep
  BY DEF AppendStep, AppendWrite, WriteFails, Fsync, FsyncFails, ReturnRotating, ReturnFull,
         ReturnRoom, Return
<1>5. ~(OpenStart \/ ScanSegment \/ TruncateTail \/ RenameSegment \/ Quarantined \/ Position \/ RecordRecovery)
  BY DEF OpenStart, ScanSegment, TruncateTail, RenameSegment, Quarantined, Position, RecordRecovery
<1>6. ~Environment BY DEF Environment, Close, Crash, PowerLoss, Corrupt, NoMemory
<1> QED BY <1>1, <1>2, <1>3, <1>4, <1>5, <1>6 DEF JournalNext, OpenStep, journal

-----------------------------------------------------------------------------
\* No step loses a safe record.

KeepsSafe == \A c \in Safe : \E d \in Safe' : SameRecord(c, d)

\* It is enough that each synced line of a segment is still synced there, or
\* has been moved aside.
LEMMA StaysSafe ==
  ASSUME LedgerTyped, Kept \subseteq Safe',
         \A i \in Segments : \A p \in 1..disk[i].synced :
           IsLine(disk[i].cells[p]) =>
             \/ disk[i].cells[p] \in Safe'
             \/ /\ i \in Segments' /\ p \in 1..disk'[i].synced
                /\ SameRecord(disk[i].cells[p], disk'[i].cells[p])
  PROVE  KeepsSafe
<1> SUFFICES ASSUME NEW c \in Safe PROVE \E d \in Safe' : SameRecord(c, d) BY DEF KeepsSafe
<1>1. CASE c \in Safe' BY <1>1 DEF SameRecord
<1>2. CASE c \notin Safe'
  <2>1. PICK i \in Segments : c \in Synced(disk[i]) BY <1>2 DEF Safe
  <2>2. PICK p \in 1..disk[i].synced : IsLine(disk[i].cells[p]) /\ c = disk[i].cells[p]
    BY <2>1 DEF Synced
  <2>3. /\ i \in Segments' /\ p \in 1..disk'[i].synced
        /\ SameRecord(disk[i].cells[p], disk'[i].cells[p])
    BY <1>2, <2>2
  <2>4. IsLine(disk'[i].cells[p]) BY <2>2, <2>3 DEF SameRecord, IsLine
  <2>5. disk'[i].cells[p] \in Synced(disk'[i]) BY <2>3, <2>4 DEF Synced
  <2>6. disk'[i].cells[p] \in Safe' BY <2>3, <2>5 DEF Safe
  <2> QED BY <2>2, <2>3, <2>6
<1> QED BY <1>1, <1>2

\* A file cut back to a prefix holds what was synced in it, if the lines
\* behind the prefix were not, or are aside.
LEMMA PrefixKept ==
  ASSUME NEW s \in SegmentFiles, NEW n \in 0..Len(s.cells), NEW p \in 1..s.synced, p <= n
  PROVE  /\ p \in 1..Resized(s, SubSeq(s.cells, 1, n)).synced
         /\ Resized(s, SubSeq(s.cells, 1, n)).cells[p] = s.cells[p]
<1>1. s.cells \in Seq(Cells) /\ s.synced \in Nat BY DEF SegmentFiles
<1>2. /\ SubSeq(s.cells, 1, n) \in Seq(Cells) /\ Len(SubSeq(s.cells, 1, n)) = n
      /\ \A q \in 1..n : SubSeq(s.cells, 1, n)[q] = s.cells[q]
  BY <1>1, PrefixSize
<1>3. n \in Nat /\ p \in 1..n BY <1>1
<1> QED BY <1>1, <1>2, <1>3, ResizedTyped

LEMMA AppendKeeps ==
  ASSUME NEW cells \in Seq(Cells), NEW c \in Cells, NEW n \in 0..Len(cells)
  PROVE  \A p \in 1..n : Append(cells, c)[p] = cells[p]
OBVIOUS

LEMMA KeepsStep ==
  /\ LedgerTyped /\ QuarantineTyped /\ BytesCounted /\ LastWritten /\ Copied /\ ~Miscounts
  /\ [JournalNext]_journal
  => KeepsSafe
<1> SUFFICES ASSUME LedgerTyped, QuarantineTyped, BytesCounted, LastWritten, Copied, ~Miscounts,
                    [JournalNext]_journal
             PROVE  KeepsSafe
  OBVIOUS
<1> USE DEF mem, open, moved, quarantine
<1>t. WellShaped(disk) /\ StructTyped /\ Placed BY DEF LedgerTyped
<1>s. Segments \in SUBSET Nat BY <1>t DEF WellShaped, Segments
<1>f. \A i \in Segments : /\ disk[i] \in SegmentFiles /\ disk[i].cells \in Seq(Cells)
                          /\ Len(disk[i].cells) \in Nat /\ disk[i].synced \in 0..Len(disk[i].cells)
                          /\ disk[i] = [cells |-> disk[i].cells, synced |-> disk[i].synced]
  BY <1>t, FileAt
<1>p. ASSUME NEW i \in Segments, NEW p \in 1..disk[i].synced
      PROVE  p \in Nat /\ p \in 1..Len(disk[i].cells) /\ p \in DOMAIN disk[i].cells
  <2>1. /\ disk[i].cells \in Seq(Cells) /\ Len(disk[i].cells) \in Nat
        /\ disk[i].synced \in 0..Len(disk[i].cells)
    BY <1>f
  <2>2. disk[i].synced \in Nat /\ disk[i].synced <= Len(disk[i].cells) BY <2>1
  <2>3. p \in Nat /\ p \in 1..Len(disk[i].cells) BY <2>1, <2>2
  <2> QED BY <2>1, <2>3
<1>w. pc \in Working => curIndex \in Segments BY <1>t DEF Placed
<1>q. UNCHANGED quarantine => Kept' = Kept BY DEF Kept, SetAside, RecordsOf
<1>1. ASSUME Segments \subseteq Segments', Kept \subseteq Kept',
             \A i \in Segments : \A p \in 1..disk[i].synced :
               p \in 1..disk'[i].synced /\ SameRecord(disk[i].cells[p], disk'[i].cells[p])
      PROVE  KeepsSafe
  <2>1. Kept \subseteq Safe' BY <1>1 DEF Safe
  <2> QED BY <1>1, <2>1, StaysSafe
<1>2. ASSUME UNCHANGED disk, Kept \subseteq Kept' PROVE KeepsSafe
  BY <1>1, <1>2 DEF Segments, SameRecord
<1>3. ASSUME NEW names \in SUBSET Nat, WriteEvent(names), pc \in Working PROVE KeepsSafe
  <2>1. curIndex \in Segments BY <1>3, <1>w
  <2>2. PICK c \in Cells : disk'[curIndex].cells = Append(disk[curIndex].cells, c)
    BY <1>3, <2>1, WriteEffect
  <2>3. /\ \A i \in Segments : i # curIndex => disk'[i] = disk[i]
        /\ disk'[curIndex].synced = disk[curIndex].synced /\ Segments' = Segments /\ Kept' = Kept
    BY <1>3, <1>q, <2>1, WriteEffect
  <2>4. \A p \in 1..disk[curIndex].synced : disk'[curIndex].cells[p] = disk[curIndex].cells[p]
    <3>1. disk[curIndex].cells \in Seq(Cells) /\ disk[curIndex].synced \in 0..Len(disk[curIndex].cells)
      BY <1>f, <2>1
    <3> QED BY <2>2, <3>1, AppendKeeps
  <2> QED BY <1>1, <2>3, <2>4 DEF SameRecord
<1>4. ASSUME curIndex \in Segments, disk' = [disk EXCEPT ![curIndex].cells = Append(@, Frag)], Kept' = Kept
      PROVE  KeepsSafe
  <2>1. /\ disk'[curIndex].cells = Append(disk[curIndex].cells, Frag)
        /\ disk'[curIndex].synced = disk[curIndex].synced
    <3>1. disk'[curIndex] = [disk[curIndex] EXCEPT !.cells = Append(disk[curIndex].cells, Frag)]
      BY <1>4 DEF Segments
    <3>2. disk[curIndex] \in SegmentFiles BY <1>4, <1>f
    <3> QED BY <3>1, <3>2, AppendedTyped, FragTyped
  <2>2. \A p \in 1..disk[curIndex].synced : disk'[curIndex].cells[p] = disk[curIndex].cells[p]
    <3>1. disk[curIndex].cells \in Seq(Cells) /\ disk[curIndex].synced \in 0..Len(disk[curIndex].cells)
      BY <1>f, <1>4
    <3> QED BY <2>1, <3>1, AppendKeeps, FragTyped
  <2>3. Segments' = Segments /\ \A i \in Segments : i # curIndex => disk'[i] = disk[i]
    BY <1>4 DEF Segments
  <2> QED BY <1>1, <1>4, <2>1, <2>2, <2>3 DEF SameRecord
<1>5. ASSUME NEW i \in Segments, NEW n \in 0..Len(disk[i].cells),
             disk' = [disk EXCEPT ![i] = Resized(disk[i], SubSeq(disk[i].cells, 1, n))],
             Kept' = Kept,
             \A p \in 1..disk[i].synced : IsLine(disk[i].cells[p]) /\ ~(p <= n) => disk[i].cells[p] \in Kept
      PROVE  KeepsSafe
  <2>1. Segments' = Segments /\ \A k \in Segments : k # i => disk'[k] = disk[k]
    BY <1>5 DEF Segments
  <2>2. disk'[i] = Resized(disk[i], SubSeq(disk[i].cells, 1, n)) BY <1>5 DEF Segments
  <2>3. \A p \in 1..disk[i].synced : p <= n => p \in 1..disk'[i].synced /\ disk'[i].cells[p] = disk[i].cells[p]
    <3>1. disk[i] \in SegmentFiles BY <1>f
    <3> QED BY <2>2, <3>1, PrefixKept
  <2>4. Kept \subseteq Safe' BY <1>5 DEF Safe
  <2> QED BY <1>5, <2>1, <2>3, <2>4, StaysSafe DEF SameRecord
<1>6. CASE AppendWrite BY <1>6, <1>3 DEF AppendWrite, Working
<1>7. CASE RecordRecovery BY <1>7, <1>3, <1>t DEF RecordRecovery, Working, StructTyped
<1>8. CASE WriteFails BY <1>8, <1>2, <1>4, <1>q, <1>w DEF WriteFails, Working
<1>9. CASE Fsync
  <2>1. curIndex \in Segments BY <1>9, <1>w DEF Fsync, Working
  <2>2. /\ disk' = [disk EXCEPT ![curIndex].synced = Len(disk[curIndex].cells)] /\ Kept' = Kept
    BY <1>9, <1>q DEF Fsync
  <2>3. /\ disk'[curIndex].cells = disk[curIndex].cells
        /\ disk'[curIndex].synced = Len(disk[curIndex].cells)
    BY <1>f, <2>1, <2>2 DEF Segments
  <2>4. \A p \in 1..disk[curIndex].synced : p \in 1..disk'[curIndex].synced
    BY <1>p, <2>1, <2>3
  <2>5. Segments' = Segments /\ \A i \in Segments : i # curIndex => disk'[i] = disk[i]
    BY <2>2 DEF Segments
  <2> QED BY <1>1, <2>2, <2>3, <2>4, <2>5 DEF SameRecord
<1>10. CASE FsyncFails
  <2> DEFINE cells == disk[curIndex].cells
             last == Len(cells) - 1
  <2>1. pc = "written" /\ "write" \notin env.faults BY <1>10 DEF FsyncFails, Fault, Miscounts
  <2>2. curIndex \in Segments BY <1>w, <2>1 DEF Working
  <2>3. cells # <<>> /\ disk[curIndex].synced < Len(cells) BY <2>1 DEF LastWritten
  <2>4. curBytes = Size(SubSeq(cells, 1, last)) BY <2>1 DEF BytesCounted
  <2>5. Cut(cells, curBytes) = SubSeq(cells, 1, last) BY <1>f, <2>2, <2>3, <2>4, CutLast
  <2>6. last \in 0..Len(cells) /\ disk[curIndex].synced <= last /\ disk[curIndex].synced \in Nat
    <3>1. cells \in Seq(Cells) /\ Len(cells) \in Nat /\ disk[curIndex].synced \in 0..Len(cells)
      BY <1>f, <2>2
    <3>2. Len(cells) > 0 BY <2>3, <3>1
    <3> QED BY <2>3, <3>1, <3>2
  <2>7. disk' = [disk EXCEPT ![curIndex] = Resized(disk[curIndex], SubSeq(disk[curIndex].cells, 1, last))]
        /\ Kept' = Kept
    BY <1>10, <1>q, <2>5 DEF FsyncFails
  <2> HIDE DEF last
  <2>8. \A p \in 1..disk[curIndex].synced : p <= last BY <2>6
  <2> QED BY <1>5, <2>2, <2>6, <2>7, <2>8
<1>11. ASSUME NEW i \in Nat, i \notin Segments, disk' = WithSegment(i, EmptySegment), Kept' = Kept
      PROVE  KeepsSafe
  <2>1. Segments \subseteq Segments' /\ \A k \in Segments : disk'[k] = disk[k]
    BY <1>11 DEF WithSegment, Segments
  <2> QED BY <1>1, <1>11, <2>1 DEF SameRecord
<1>d. SyncDirectory => Kept' = Kept BY DirectorySynced DEF Kept
<1>12. ASSUME NEW rotates \in BOOLEAN, Return(rotates) PROVE KeepsSafe
  <2>1. CASE rotates BY <1>11, <1>12, <1>d, <2>1, <1>t DEF Return, StructTyped
  <2>2. CASE ~rotates BY <1>2, <1>12, <1>q, <2>2 DEF Return
  <2> QED BY <2>1, <2>2
<1>13. CASE Close BY <1>2, <1>13, <1>q DEF Close
<1>14. CASE Crash BY <1>2, <1>4, <1>14, <1>q, <1>w DEF Crash, Working
<1>15. CASE PowerLoss
  <2>1. PICK left \in [Segments -> UNION {Leftovers(disk[i]) : i \in Segments}],
             back \in SUBSET DOMAIN renamed, lost \in SUBSET copied :
          LET cells(i) == IF i \in Segments THEN left[i] ELSE renamed[i]
          IN /\ \A i \in Segments : left[i] \in Leftovers(disk[i])
             /\ disk' = [i \in Segments \cup back |->
                           [cells |-> cells(i), synced |-> Len(cells(i))]]
             /\ aside' = aside \cup (UNION (copied \ lost))
                            \cup RecordsOf(Restrict(renamed, DOMAIN renamed \ back))
             /\ vanished' = vanished \cup UNION lost
    BY <1>15 DEF PowerLoss
  <2>2. ASSUME NEW i \in Segments, NEW p \in 1..disk[i].synced
        PROVE  p \in 1..disk'[i].synced /\ disk'[i].cells[p] = disk[i].cells[p]
    <3>1. /\ left[i] \in Seq(Cells) /\ disk[i].synced <= Len(left[i])
          /\ left[i][p] = disk[i].cells[p]
      BY <1>f, <2>1, LeftoverTyped
    <3>2. disk'[i].cells = left[i] /\ disk'[i].synced = Len(left[i]) BY <2>1
    <3>3. Len(left[i]) \in Nat BY <3>1
    <3>4. disk[i].synced \in Nat
      <4>1. disk[i].synced \in 0..Len(disk[i].cells) BY <1>f
      <4> QED BY <4>1
    <3> QED BY <3>1, <3>2, <3>3, <3>4
  <2>3. Segments' = Segments \cup back BY <2>1 DEF Segments
  <2>4. ASSUME NEW i \in back, NEW c \in Records(renamed[i]) PROVE c \in Safe'
    <3>1. i \notin Segments /\ renamed[i] \in Seq(Cells) BY DEF QuarantineTyped
    <3>2. disk'[i].cells = renamed[i] /\ disk'[i].synced = Len(renamed[i]) BY <2>1, <3>1
    <3>3. PICK p \in 1..Len(renamed[i]) : c = renamed[i][p] /\ IsLine(c)
      BY <3>1 DEF Records, Range
    <3>4. c \in Synced(disk'[i]) BY <3>2, <3>3 DEF Synced
    <3> QED BY <2>3, <3>4 DEF Safe
  <2>5. Kept \subseteq Safe'
    <3> SUFFICES ASSUME NEW c \in Kept PROVE c \in Safe' OBVIOUS
    <3>1. CASE c \in RecordsOf(renamed)
      <4>1. PICK i \in DOMAIN renamed : c \in Records(renamed[i]) BY <3>1 DEF RecordsOf
      <4>2. CASE i \in back BY <2>4, <4>1, <4>2
      <4>3. CASE i \notin back
        <5>1. c \in RecordsOf(Restrict(renamed, DOMAIN renamed \ back))
          BY <4>1, <4>3 DEF RecordsOf, Restrict
        <5> QED BY <2>1, <5>1 DEF Safe, Kept, SetAside
      <4> QED BY <4>2, <4>3
    <3>2. CASE c \notin RecordsOf(renamed)
      <4>1. c \in aside \cup (UNION copied) \cup vanished BY <3>2 DEF Kept, SetAside
      <4>2. c \in aside' \cup vanished' BY <2>1, <4>1
      <4> QED BY <4>2 DEF Safe, Kept, SetAside
    <3> QED BY <3>1, <3>2
  <2> QED BY <2>2, <2>3, <2>5, StaysSafe DEF SameRecord
<1>16. CASE Corrupt
  <2>1. PICK i \in Segments : \E p \in DOMAIN disk[i].cells :
          disk' = [disk EXCEPT ![i].cells[p].ok = FALSE]
    BY <1>16 DEF Corrupt
  <2>2. PICK p \in DOMAIN disk[i].cells : disk' = [disk EXCEPT ![i].cells[p].ok = FALSE]
    BY <2>1
  <2>3. Segments' = Segments /\ Kept' = Kept /\ \A k \in Segments : k # i => disk'[k] = disk[k]
    BY <1>16, <1>q, <2>2 DEF Corrupt, Segments
  <2> DEFINE c == [disk[i].cells[p] EXCEPT !.ok = FALSE]
  <2>4. disk'[i].synced = disk[i].synced /\ disk'[i].cells = [disk[i].cells EXCEPT ![p] = c]
    <3>1. disk[i] = [cells |-> disk[i].cells, synced |-> disk[i].synced] BY <1>f
    <3>2. disk'[i] = [disk[i] EXCEPT !.cells = [disk[i].cells EXCEPT ![p] = c]] BY <2>2 DEF Segments
    <3> HIDE DEF c
    <3> QED BY <3>1, <3>2
  <2>5. disk[i].cells[p] \in Cells
    <3>1. disk[i].cells \in Seq(Cells) BY <1>f
    <3> QED BY <2>2, <3>1
  <2>6. SameRecord(disk[i].cells[p], c) BY <2>5 DEF SameRecord, Cells
  <2> HIDE DEF c
  <2>7. \A q \in 1..disk[i].synced : SameRecord(disk[i].cells[q], disk'[i].cells[q])
    <3>1. \A q \in 1..disk[i].synced : q \in DOMAIN disk[i].cells BY <1>p
    <3>2. \A q \in DOMAIN disk[i].cells : disk'[i].cells[q] = IF q = p THEN c ELSE disk[i].cells[q]
      BY <2>4
    <3> QED BY <2>6, <3>1, <3>2 DEF SameRecord
  <2>8. ASSUME NEW k \in Segments, NEW q \in 1..disk[k].synced
        PROVE  q \in 1..disk'[k].synced /\ SameRecord(disk[k].cells[q], disk'[k].cells[q])
    <3>1. CASE k = i BY <2>4, <2>7, <3>1
    <3>2. CASE k # i BY <2>3, <3>2 DEF SameRecord
    <3> QED BY <3>1, <3>2
  <2> QED BY <1>1, <2>3, <2>8
<1>17. CASE TruncateTail
  <2>1. at \in Segments /\ good \in 0..Len(disk[at].cells) /\ pc = "truncate"
    BY <1>17, <1>t DEF TruncateTail, Placed, Scanning
  <2>2. disk' = [disk EXCEPT ![at] = Resized(disk[at], SubSeq(disk[at].cells, 1, good))] /\ Kept' = Kept
    BY <1>17, <1>q DEF TruncateTail
  <2>3. ASSUME NEW p \in 1..disk[at].synced, IsLine(disk[at].cells[p]), ~(p <= good)
        PROVE  disk[at].cells[p] \in Kept
    <3> DEFINE cells == disk[at].cells
               tail == SubSeq(cells, good + 1, Len(cells))
    <3>1. cells \in Seq(Cells) /\ p \in 1..Len(cells) /\ good \in Nat /\ good < p
      <4>1. cells \in Seq(Cells) /\ p \in Nat /\ p \in 1..Len(cells) BY <1>f, <1>p, <2>1
      <4>2. good \in Nat BY <1>t DEF StructTyped
      <4> QED BY <2>3, <4>1, <4>2
    <3>2. p - good \in 1..Len(tail) /\ tail[p - good] = cells[p] BY <3>1
    <3>3. cells[p] \in Range(tail)
      <4>1. p - good \in DOMAIN tail BY <3>1, <3>2
      <4> QED BY <3>2, <4>1 DEF Range
    <3>4. cells[p] \in BadTail BY <2>3, <3>3 DEF BadTail, Records
    <3> QED BY <2>1, <3>4 DEF Copied, Kept, SetAside
  <2> QED BY <1>5, <2>1, <2>2, <2>3
<1>18. CASE RenameSegment
  <2>1. PICK i : i = FirstOf(After(at)) OBVIOUS
  <2>2. /\ renamed' = [k \in DOMAIN renamed \cup {i} |-> IF k = i THEN disk[i].cells ELSE renamed[k]]
        /\ disk' = Without(i) /\ UNCHANGED <<aside, copied, vanished>>
    BY <1>18, <2>1 DEF RenameSegment
  <2>3. i \in Segments
    <3>1. After(at) \in SUBSET Nat /\ After(at) # {} BY <1>18, <1>s DEF RenameSegment, After
    <3> QED BY <2>1, <3>1, FirstOfCorrect DEF After
  <2>4. i \notin DOMAIN renamed BY <2>3 DEF QuarantineTyped
  <2>5. (RecordsOf(renamed)') = RecordsOf(renamed) \cup Records(disk[i].cells)
    <3>1. /\ DOMAIN renamed' = DOMAIN renamed \cup {i} /\ renamed'[i] = disk[i].cells
          /\ \A k \in DOMAIN renamed : renamed'[k] = renamed[k]
      BY <2>2, <2>4
    <3> QED BY <3>1 DEF RecordsOf
  <2>6. Segments' = Segments \ {i} /\ \A k \in Segments \ {i} : disk'[k] = disk[k]
    BY <2>2 DEF Without, Segments
  <2>u. (UNION copied)' = UNION copied BY <2>2
  <2>7. Kept \subseteq Safe' /\ Records(disk[i].cells) \subseteq Safe'
    BY <2>u, <2>2, <2>5 DEF Safe, Kept, SetAside
  <2>8. \A p \in 1..disk[i].synced : IsLine(disk[i].cells[p]) => disk[i].cells[p] \in Safe'
    <3>1. \A p \in 1..disk[i].synced : p \in DOMAIN disk[i].cells BY <1>p, <2>3
    <3>2. \A p \in DOMAIN disk[i].cells : IsLine(disk[i].cells[p]) => disk[i].cells[p] \in Records(disk[i].cells)
      BY DEF Records, Range
    <3> QED BY <2>7, <3>1, <3>2
  <2> QED BY <2>6, <2>7, <2>8, StaysSafe DEF SameRecord
<1>19. CASE Position
  <2> DEFINE s == disk[LastSegment]
  <2>1. LastSegment \in Segments /\ \A k \in Segments : k <= LastSegment BY <1>t, LastSegmentCorrect
  <2>2. Kept' = Kept BY <1>19, <1>d, <1>q DEF Position
  <2>3. CASE Size(s.cells) >= SegSize
    <3>1. disk' = WithSegment(LastSegment + 1, EmptySegment) BY <1>19, <2>3 DEF Position
    <3>2. LastSegment + 1 \in Nat /\ LastSegment + 1 \notin Segments
      <4>1. LastSegment \in Nat /\ ~(LastSegment + 1 <= LastSegment) BY <2>1, <1>s
      <4> QED BY <2>1, <4>1
    <3> QED BY <1>11, <2>2, <3>1, <3>2
  <2>4. CASE ~(Size(s.cells) >= SegSize)
    <3>1. disk' = [disk EXCEPT ![LastSegment] = Resized(s, Complete(s.cells))]
      BY <1>19, <2>4 DEF Position
    <3>2. PICK n \in 0..Len(s.cells) : Complete(s.cells) = SubSeq(s.cells, 1, n) /\ WholeUpTo(s.cells, n)
      BY <1>f, <2>1, CompleteCorrect
    <3>3. \A p \in 1..s.synced : IsLine(s.cells[p]) => p <= n
      <4>1. \A p \in 1..s.synced : p \in 1..Len(s.cells) /\ p \in Nat BY <1>p, <2>1
      <4> QED BY <1>f, <2>1, <3>2, <4>1 DEF WholeUpTo
    <3> QED BY <1>5, <2>1, <2>2, <3>1, <3>2, <3>3
  <2> QED BY <2>3, <2>4
<1>20. CASE CopyTail
  BY <1>2, <1>20 DEF CopyTail, Kept, SetAside
<1>21. CASE OpenStart \/ ScanSegment \/ Quarantined
  BY <1>2, <1>21, <1>d, <1>q DEF OpenStart, ScanSegment, Quarantined
<1>22. ASSUME NEW r \in Readers, ReaderStep(r) PROVE KeepsSafe
  BY <1>2, <1>22, <1>q, ReadersOnlyRead
<1>23. CASE UNCHANGED journal BY <1>2, <1>23, <1>q DEF journal
<1> QED
  BY <1>6, <1>7, <1>8, <1>9, <1>10, <1>12, <1>13, <1>14, <1>15, <1>16, <1>17, <1>18, <1>19,
     <1>20, <1>21, <1>22, <1>23
  DEF JournalNext, AppendStep, OpenStep, Environment, ReturnRotating, ReturnFull, ReturnRoom

LEMMA SafeStays == KeepsSafe /\ IsSafe(ev) /\ ev' = ev => IsSafe(ev)'
BY DEF KeepsSafe, IsSafe, SameRecord

LEMMA AckedSafeStep ==
  LedgerTyped /\ LastWritten /\ AckedSafe /\ KeepsSafe /\ [JournalNext]_journal => AckedSafe'
<1> SUFFICES ASSUME LedgerTyped, LastWritten, AckedSafe, KeepsSafe, [JournalNext]_journal
             PROVE  (AckedSafe')
  OBVIOUS
<1> USE DEF mem, open, moved, quarantine
<1>1. ASSUME NEW e, \E c \in Safe : c.id = e.id PROVE \E c \in Safe' : c.id = e.id
  BY <1>1 DEF KeepsSafe, SameRecord
<1>2. ASSUME acked' = acked, pc' = "synced" => pc = "synced" /\ ev' = ev PROVE AckedSafe'
  BY <1>1, <1>2, SafeStays DEF AckedSafe
<1>3. CASE Fsync
  <2> DEFINE s == disk[curIndex]
             cells == disk[curIndex].cells
             c == cells[Len(cells)]
  <2>1. pc = "written" /\ acked' = acked /\ ev' = ev BY <1>3 DEF Fsync
  <2>2. curIndex \in Segments BY <2>1 DEF LedgerTyped, Placed, Working
  <2>3. cells \in Seq(Cells) /\ s = [cells |-> cells, synced |-> s.synced]
    BY <2>2, FileAt DEF LedgerTyped
  <2>4. cells # <<>> /\ SameRecord(ev, c) /\ IsLine(c)
    BY <2>1 DEF LastWritten, SameRecord, IsLine
  <2>5. disk' = [disk EXCEPT ![curIndex].synced = Len(cells)] BY <1>3 DEF Fsync
  <2>6. disk'[curIndex].cells = cells /\ disk'[curIndex].synced = Len(cells) /\ curIndex \in Segments'
    BY <2>2, <2>3, <2>5 DEF Segments
  <2>7. Len(cells) \in 1..Len(cells) BY <2>3, <2>4
  <2>8. c \in Synced(disk'[curIndex]) BY <2>4, <2>6, <2>7 DEF Synced
  <2>9. c \in Safe' BY <2>6, <2>8 DEF Safe
  <2>10. IsSafe(ev)' BY <2>1, <2>4, <2>9 DEF IsSafe
  <2> QED BY <1>1, <2>1, <2>10 DEF AckedSafe
<1>4. ASSUME NEW rotates \in BOOLEAN, Return(rotates) PROVE AckedSafe'
  <2>1. pc = "synced" /\ acked' = Append(acked, ev) /\ pc' = "up" BY <1>4 DEF Return
  <2>2. acked \in Seq(Cells) /\ ev \in Cells BY DEF LedgerTyped, StructTyped
  <2>3. Range(acked') = Range(acked) \cup {ev} BY <2>1, <2>2 DEF Range
  <2>4. \E c \in Safe : c.id = ev.id BY <2>1 DEF AckedSafe, IsSafe, SameRecord
  <2> QED BY <1>1, <2>1, <2>3, <2>4 DEF AckedSafe
<1>5. CASE AppendWrite \/ WriteFails \/ FsyncFails
  BY <1>2, <1>5 DEF AppendWrite, WriteEvent, WriteFails, FsyncFails, Serving
<1>6. CASE OpenStep
  BY <1>2, <1>6
  DEF OpenStep, OpenStart, ScanSegment, CopyTail, TruncateTail, RenameSegment, Quarantined,
      Position, RecordRecovery, WriteEvent
<1>7. CASE Environment
  BY <1>2, <1>7 DEF Environment, Close, Crash, PowerLoss, Corrupt, NoMemory
<1>8. ASSUME NEW r \in Readers, ReaderStep(r) PROVE AckedSafe'
  BY <1>2, <1>8, ReadersOnlyRead
<1>9. CASE UNCHANGED journal BY <1>2, <1>9 DEF journal
<1> QED
  BY <1>3, <1>4, <1>5, <1>6, <1>7, <1>8, <1>9
  DEF JournalNext, AppendStep, ReturnRotating, ReturnFull, ReturnRoom

LEMMA NamesSafeStep ==
  /\ LedgerTyped /\ LastWritten /\ AckedSafe' /\ NamesSafe /\ KeepsSafe
  /\ [JournalNext]_journal
  => NamesSafe'
<1> SUFFICES ASSUME LedgerTyped, LastWritten, AckedSafe', NamesSafe, KeepsSafe,
                    [JournalNext]_journal, NEW c \in SetAside'
             PROVE  \/ c.id \in unnamed'
                    \/ pc' \in Recording /\ c.id \in gap'
                    \/ pc' = "written" /\ c.id \in ev'.names
                    \/ \E d \in Safe' : c.id \in d.names
  BY DEF NamesSafe
<1> DEFINE Named == \/ c.id \in unnamed'
                    \/ pc' \in Recording /\ c.id \in gap'
                    \/ pc' = "written" /\ c.id \in ev'.names
                    \/ \E d \in Safe' : c.id \in d.names
<1> USE DEF mem, open, moved, quarantine
<1>a. ASSUME c \in SetAside, \E d \in Safe : c.id \in d.names PROVE Named
  BY <1>a DEF KeepsSafe, SameRecord
<1>b. c \in SetAside => \/ c.id \in unnamed
                        \/ pc \in Recording /\ c.id \in gap
                        \/ pc = "written" /\ c.id \in ev.names
                        \/ \E d \in Safe : c.id \in d.names
  BY DEF NamesSafe
\* Nothing is moved aside, and a gap still to be recorded stays so.
<1>q. UNCHANGED quarantine => SetAside' = SetAside BY DEF SetAside, RecordsOf
<1>d. SyncDirectory => SetAside' = SetAside /\ unnamed' = unnamed BY DirectorySynced
<1>1. ASSUME SetAside' = SetAside, unnamed \subseteq unnamed',
             pc \in Recording => pc' \in Recording /\ gap \subseteq gap',
             pc = "written" => pc' = "written" /\ ev' = ev
      PROVE  Named
  BY <1>1, <1>a, <1>b
\* Nothing is moved aside, and no gap is to be recorded.
<1>2. ASSUME SetAside' = SetAside, unnamed \subseteq unnamed', pc \notin Recording \cup {"written"}
      PROVE  Named
  BY <1>2, <1>a, <1>b
\* Nothing will record the gap any more.
<1>3. ASSUME SetAside' \subseteq SetAside, Unrecorded PROVE Named
  <2>1. unnamed \subseteq unnamed' BY <1>3 DEF Unrecorded
  <2>2. CASE Serving
    <3>1. pc \notin Recording /\ (pc = "written" => ev.names = {}) BY <2>2 DEF Serving, Recording
    <3> QED BY <1>3, <1>a, <1>b, <2>1, <3>1
  <2>3. CASE ~Serving /\ pc # "synced"
    <3>1. gap \subseteq unnamed' BY <1>3, <2>3 DEF Unrecorded
    <3>2. pc = "written" => ev.names \subseteq gap BY DEF LastWritten
    <3> QED BY <1>3, <1>a, <1>b, <2>1, <3>1, <3>2
  <2>4. CASE pc = "synced" BY <1>3, <1>a, <1>b, <2>1, <2>4 DEF Recording
  <2> QED BY <2>2, <2>3, <2>4
<1>4. CASE AppendWrite BY <1>2, <1>4, <1>q DEF AppendWrite, WriteEvent, Recording
<1>5. CASE RecordRecovery
  <2>1. ev'.names = gap /\ SetAside' = SetAside /\ unnamed' = unnamed /\ pc = "record" /\ pc' = "written"
    BY <1>5, <1>q DEF RecordRecovery, WriteEvent, NewEvent
  <2> QED BY <1>a, <1>b, <2>1
<1>6. CASE WriteFails BY <1>3, <1>6, <1>q DEF WriteFails
<1>7. CASE Fsync
  <2>1. pc = "written" /\ pc' = "synced" /\ ev' = ev /\ SetAside' = SetAside /\ unnamed' = unnamed
    BY <1>7, <1>q DEF Fsync
  <2>2. \E d \in Safe' : d.names = ev.names BY <2>1 DEF AckedSafe, IsSafe, SameRecord
  <2> QED BY <1>a, <1>b, <2>1, <2>2 DEF Recording
<1>8. CASE FsyncFails BY <1>3, <1>8, <1>q DEF FsyncFails
<1>9. ASSUME NEW rotates \in BOOLEAN, Return(rotates) PROVE Named
  BY <1>2, <1>9, <1>d, <1>q DEF Return, Recording
<1>10. CASE Close BY <1>3, <1>10, <1>q DEF Close, NoMemory
<1>11. CASE Crash BY <1>3, <1>11, <1>q DEF Crash, NoMemory
<1>12. CASE PowerLoss
  <2>1. PICK back \in SUBSET DOMAIN renamed, lost \in SUBSET copied :
          aside' = aside \cup (UNION (copied \ lost))
                     \cup RecordsOf(Restrict(renamed, DOMAIN renamed \ back))
    BY <1>12 DEF PowerLoss
  <2>2. RecordsOf(Restrict(renamed, DOMAIN renamed \ back)) \subseteq RecordsOf(renamed)
    BY DEF RecordsOf, Restrict
  <2>3. copied' = {} /\ renamed' = <<>> BY <1>12 DEF PowerLoss
  <2>4. SetAside' = aside' BY <2>3 DEF SetAside, RecordsOf
  <2>5. SetAside' \subseteq SetAside BY <2>1, <2>2, <2>4 DEF SetAside
  <2> QED BY <1>3, <1>12, <2>5 DEF PowerLoss, NoMemory
<1>13. CASE Corrupt BY <1>2, <1>13, <1>q DEF Corrupt, Recording
<1>14. CASE OpenStart BY <1>2, <1>14, <1>q DEF OpenStart, Recording
<1>15. CASE ScanSegment BY <1>2, <1>15, <1>q DEF ScanSegment, Recording
<1>16. CASE CopyTail
  <2>1. /\ SetAside' = SetAside \cup BadTail /\ gap' = gap \cup Names(BadTail)
        /\ pc = "quarantine" /\ pc' = "truncate" /\ unnamed' = unnamed
    BY <1>16 DEF CopyTail, SetAside, RecordsOf
  <2>2. CASE c \in BadTail BY <2>1, <2>2 DEF Names, Recording
  <2>3. CASE c \in SetAside BY <1>a, <1>b, <2>1, <2>3 DEF Recording
  <2> QED BY <2>1, <2>2, <2>3
<1>17. CASE TruncateTail BY <1>1, <1>17, <1>q DEF TruncateTail, Recording
<1>18. CASE RenameSegment
  <2>1. PICK i : i = FirstOf(After(at)) OBVIOUS
  <2> DEFINE records == Records(disk[i].cells)
  <2>2. /\ renamed' = [k \in DOMAIN renamed \cup {i} |-> IF k = i THEN disk[i].cells ELSE renamed[k]]
        /\ UNCHANGED <<aside, copied, unnamed>> /\ gap' = gap \cup Names(records)
        /\ pc = "rename" /\ pc' = "rename"
    BY <1>18, <2>1 DEF RenameSegment
  <2>3. (RecordsOf(renamed)') \subseteq RecordsOf(renamed) \cup records BY <2>2 DEF RecordsOf
  <2>r. (UNION copied)' = UNION copied BY <2>2
  <2>4. SetAside' \subseteq SetAside \cup records BY <2>r, <2>2, <2>3 DEF SetAside
  <2>5. CASE c \in records BY <2>2, <2>5 DEF Names, Recording
  <2>6. CASE c \in SetAside BY <1>a, <1>b, <2>2, <2>6 DEF Recording
  <2> QED BY <2>4, <2>5, <2>6
<1>19. CASE Quarantined BY <1>1, <1>19, <1>d DEF Quarantined, Recording
<1>20. CASE Position
  <2>1. /\ SetAside' = SetAside /\ unnamed' = unnamed /\ pc = "position" /\ gap' = gap
        /\ pc' = IF gap = {} THEN "up" ELSE "record"
    BY <1>20, <1>d, <1>q DEF Position
  <2>2. CASE gap = {} BY <1>a, <1>b, <2>1, <2>2
  <2>3. CASE gap # {} BY <1>1, <2>1, <2>3 DEF Recording
  <2> QED BY <2>2, <2>3
<1>21. ASSUME NEW r \in Readers, ReaderStep(r) PROVE Named
  BY <1>1, <1>21, <1>q, ReadersOnlyRead
<1>22. CASE UNCHANGED journal BY <1>1, <1>22, <1>q DEF journal
<1> QED
  BY <1>4, <1>5, <1>6, <1>7, <1>8, <1>9, <1>10, <1>11, <1>12, <1>13, <1>14, <1>15, <1>16,
     <1>17, <1>18, <1>19, <1>20, <1>21, <1>22
  DEF JournalNext, AppendStep, OpenStep, Environment, ReturnRotating, ReturnFull, ReturnRoom

\* The inductive invariant of the journal.
LedgerInv ==
  /\ LedgerTyped /\ QuarantineTyped /\ Served /\ BytesCounted /\ LastWritten /\ Copied
  /\ ~Miscounts => AckedSafe /\ NamesSafe

LEMMA LedgerInductive == LedgerInv /\ [JournalNext]_journal => LedgerInv'
<1> SUFFICES ASSUME LedgerInv, [JournalNext]_journal PROVE LedgerInv' OBVIOUS
<1>1. (LedgerTyped' /\ QuarantineTyped' /\ Served')
  BY LedgerTypedStep, QuarantineTypedStep, ServedStep DEF LedgerInv
<1>2. (BytesCounted' /\ LastWritten' /\ Copied')
  BY <1>1, CountedStep, LastWrittenStep, CopiedStep DEF LedgerInv
<1>3. ASSUME ~Miscounts' PROVE (AckedSafe' /\ NamesSafe')
  <2>1. ~Miscounts BY <1>3, FaultsStay DEF Miscounts, LedgerInv
  <2>2. KeepsSafe BY <2>1, KeepsStep DEF LedgerInv
  <2>3. (AckedSafe') BY <2>1, <2>2, AckedSafeStep DEF LedgerInv
  <2> QED BY <2>1, <2>2, <2>3, NamesSafeStep DEF LedgerInv
<1> QED BY <1>1, <1>2, <1>3 DEF LedgerInv

LEMMA LedgerInitially == JournalInit => LedgerInv
<1> SUFFICES ASSUME JournalInit PROVE LedgerInv OBVIOUS
<1>1. LedgerTyped /\ QuarantineTyped /\ Served BY LedgerTypedInit
<1>2. disk[1] = EmptySegment BY DEF JournalInit
<1>3. BytesCounted BY <1>2, SizeOfNothing DEF JournalInit, BytesCounted, EmptySegment
<1>4. LastWritten /\ Copied BY DEF JournalInit, LastWritten, Copied
<1>5. AckedSafe BY DEF JournalInit, AckedSafe, Range
<1>6. NamesSafe
  <2>1. SetAside = {} BY DEF JournalInit, SetAside, RecordsOf
  <2> QED BY <2>1 DEF NamesSafe
<1> QED BY <1>1, <1>3, <1>4, <1>5, <1>6 DEF LedgerInv

\* What is safe is stored, or was in a file that lost its name.
LEMMA SafeStored == LedgerTyped => Safe \subseteq Stored \cup vanished
<1> SUFFICES ASSUME LedgerTyped, NEW c \in Safe PROVE c \in Stored \cup vanished OBVIOUS
<1>1. CASE c \in Kept BY <1>1 DEF Stored, Kept
<1>2. CASE c \notin Kept
  <2>1. PICK i \in Segments : c \in Synced(disk[i]) BY <1>2 DEF Safe
  <2>2. PICK p \in 1..disk[i].synced : IsLine(disk[i].cells[p]) /\ c = disk[i].cells[p]
    BY <2>1 DEF Synced
  <2>3. /\ disk[i].cells \in Seq(Cells) /\ Len(disk[i].cells) \in Nat
        /\ disk[i].synced \in 0..Len(disk[i].cells)
    BY FileAt DEF LedgerTyped
  <2>4. p \in DOMAIN disk[i].cells
    <3>1. disk[i].synced \in Nat /\ disk[i].synced <= Len(disk[i].cells) BY <2>3
    <3> QED BY <2>3, <3>1
  <2>5. c \in Records(disk[i].cells) BY <2>2, <2>4 DEF Records, Range
  <2> QED BY <2>5 DEF Stored
<1> QED BY <1>1, <1>2

\* Quarantine deletes nothing: an acknowledged event stays in a live segment
\* or in a quarantined file, whatever interrupts an append or an Open.  A loss
\* of power can take it only in a tail that was copied to a file whose name
\* the directory did not hold durably yet (recover.go:72-92).
THEOREM NothingEverDeleted == JournalSpec => []NothingDeleted
<1>1. LedgerInv => NothingDeleted
  BY SafeStored DEF LedgerInv, AckedSafe, NothingDeleted
<1> QED BY <1>1, LedgerInitially, LedgerInductive, PTL DEF JournalSpec

\* Once Open has returned, a durable record names every record moved aside
\* by an Open that returned.
THEOREM GapAlwaysRecorded == JournalSpec => []GapRecorded
<1>1. LedgerInv => GapRecorded
  BY SafeStored DEF LedgerInv, NamesSafe, GapRecorded, Recording
<1> QED BY <1>1, LedgerInitially, LedgerInductive, PTL DEF JournalSpec

-----------------------------------------------------------------------------
\* Chains: from where it is entered, how far a segment continues the chain,
\* and where it leaves it.

Entries == [seq : Nat, head : Nat]
Start == [seq |-> 0, head |-> Genesis]
Reach(cells, from) == ChainLength(cells, from.seq, from.head)
End(cells, from) ==
  [seq |-> from.seq + Reach(cells, from),
   head |-> HeadAfter(cells, Reach(cells, from), from.head)]
\* All of it does, but for a torn tail; all of it does.
Whole(cells, from) == WholeUpTo(cells, Reach(cells, from))
Solid(cells, from) == Reach(cells, from) = Len(cells)

LEMMA ChainLengthUnique ==
  ASSUME NEW cells \in Seq(Cells), NEW seq, NEW prev, NEW k \in 0..Len(cells),
         \A p \in 1..k : Continues(cells, p, seq, prev),
         k < Len(cells) => ~Continues(cells, k + 1, seq, prev)
  PROVE  ChainLength(cells, seq, prev) = k
<1> DEFINE n == ChainLength(cells, seq, prev)
<1>1. /\ n \in 0..Len(cells) /\ \A p \in 1..n : Continues(cells, p, seq, prev)
      /\ n < Len(cells) => ~Continues(cells, n + 1, seq, prev)
  BY ChainLengthCorrect
<1> HIDE DEF n
<1>2. Len(cells) \in Nat /\ n \in Nat /\ k \in Nat BY <1>1
<1>3. ~(n < k)
  <2> SUFFICES ASSUME n < k PROVE FALSE OBVIOUS
  <2>1. n + 1 \in 1..k /\ n < Len(cells) BY <1>1, <1>2
  <2> QED BY <1>1, <2>1
<1>4. ~(k < n)
  <2> SUFFICES ASSUME k < n PROVE FALSE OBVIOUS
  <2>1. k + 1 \in 1..n /\ k < Len(cells) BY <1>1, <1>2
  <2> QED BY <1>1, <2>1
<1>5. n = k BY <1>2, <1>3, <1>4
<1> QED BY <1>5 DEF n

LEMMA ReachTyped ==
  ASSUME NEW cells \in Seq(Cells), NEW from \in Entries
  PROVE  Reach(cells, from) \in 0..Len(cells) /\ Reach(cells, from) \in Nat /\ End(cells, from) \in Entries
<1>1. Reach(cells, from) \in 0..Len(cells) BY ChainLengthCorrect DEF Reach
<1>2. Len(cells) \in Nat /\ Reach(cells, from) \in Nat BY <1>1
<1>3. HeadAfter(cells, Reach(cells, from), from.head) \in Nat BY <1>1, HeadTyped DEF Entries
<1> QED BY <1>1, <1>2, <1>3 DEF End, Entries

\* A prefix of what continues the chain continues it.
LEMMA PrefixSolid ==
  ASSUME NEW cells \in Seq(Cells), NEW from \in Entries, NEW n \in 0..Reach(cells, from)
  PROVE  /\ Solid(SubSeq(cells, 1, n), from)
         /\ End(SubSeq(cells, 1, n), from) =
              [seq |-> from.seq + n, head |-> HeadAfter(cells, n, from.head)]
<1>1. /\ Reach(cells, from) \in 0..Len(cells)
      /\ \A p \in 1..Reach(cells, from) : Continues(cells, p, from.seq, from.head)
  BY ChainLengthCorrect DEF Reach
<1>2. Len(cells) \in Nat /\ Reach(cells, from) \in Nat /\ n \in Nat /\ n \in 0..Len(cells) BY <1>1
<1> DEFINE kept == SubSeq(cells, 1, n)
<1>3. kept \in Seq(Cells) /\ Len(kept) = n /\ \A p \in 1..n : kept[p] = cells[p]
  BY <1>2, PrefixSize
<1> HIDE DEF kept
<1>4. \A p \in 1..n : Continues(kept, p, from.seq, from.head)
  <2> SUFFICES ASSUME NEW p \in 1..n PROVE Continues(kept, p, from.seq, from.head) OBVIOUS
  <2>1. Continues(cells, p, from.seq, from.head) /\ kept[p] = cells[p] BY <1>1, <1>2, <1>3
  <2>2. p # 1 => kept[p - 1] = cells[p - 1]
    <3>1. p # 1 => p - 1 \in 1..n BY <1>2
    <3> QED BY <1>3, <3>1
  <2> QED BY <2>1, <2>2 DEF Continues
<1>5. n \in 0..Len(kept) /\ ~(n < Len(kept)) BY <1>2, <1>3
<1>6. Reach(kept, from) = n BY <1>3, <1>4, <1>5, ChainLengthUnique DEF Reach
<1>7. HeadAfter(kept, n, from.head) = HeadAfter(cells, n, from.head)
  BY <1>2, <1>3 DEF HeadAfter
<1> QED BY <1>3, <1>6, <1>7 DEF Solid, End, kept

\* The next record after a file that continues the chain.
LEMMA AppendSolid ==
  ASSUME NEW cells \in Seq(Cells), NEW from \in Entries, Solid(cells, from),
         NEW c \in Cells, IsLine(c), c.ok = ~EndsTorn(cells),
         c.seq = End(cells, from).seq, c.prev = End(cells, from).head
  PROVE  /\ Solid(Append(cells, c), from)
         /\ End(Append(cells, c), from) = [seq |-> c.seq + 1, head |-> c.id]
<1> DEFINE n == Len(cells)
           more == Append(cells, c)
<1>1. /\ n \in Nat /\ more \in Seq(Cells) /\ Len(more) = n + 1
      /\ \A p \in 1..n : more[p] = cells[p]
      /\ more[n + 1] = c
  OBVIOUS
<1>2. \A p \in 1..n : Continues(cells, p, from.seq, from.head)
  BY ChainLengthCorrect DEF Reach, Solid
<1>3. c.seq = from.seq + n /\ c.prev = HeadAfter(cells, n, from.head) BY DEF End, Solid
<1>4. from.seq \in Nat BY DEF Entries
<1>5. c.ok
  <2>1. CASE n = 0
    <3>1. cells = <<>> BY <2>1
    <3> QED BY <3>1 DEF EndsTorn
  <2>2. CASE n # 0
    <3>1. n \in 1..n BY <1>1, <2>2
    <3> QED BY <1>2, <3>1 DEF Continues, EndsTorn
  <2> QED BY <2>1, <2>2
<1> HIDE DEF more
<1>6. \A p \in 1..n : Continues(more, p, from.seq, from.head)
  <2> SUFFICES ASSUME NEW p \in 1..n PROVE Continues(more, p, from.seq, from.head) OBVIOUS
  <2>1. Continues(cells, p, from.seq, from.head) /\ more[p] = cells[p] BY <1>1, <1>2
  <2>2. p # 1 => more[p - 1] = cells[p - 1]
    <3>1. p # 1 => p - 1 \in 1..n BY <1>1
    <3> QED BY <1>1, <3>1
  <2> QED BY <2>1, <2>2 DEF Continues
<1>7. Continues(more, n + 1, from.seq, from.head)
  <2>1. c.seq = from.seq + (n + 1) - 1 BY <1>1, <1>3, <1>4
  <2>2. c.prev = IF n + 1 = 1 THEN from.head ELSE more[(n + 1) - 1].id
    <3>1. CASE n = 0 BY <1>3, <3>1 DEF HeadAfter
    <3>2. CASE n # 0
      <4>1. n \in 1..n /\ (n + 1) - 1 = n /\ n + 1 # 1 BY <1>1, <3>2
      <4> HIDE DEF n
      <4> QED BY <1>1, <1>3, <3>2, <4>1 DEF HeadAfter
    <3> QED BY <3>1, <3>2
  <2> QED BY <1>1, <1>5, <2>1, <2>2 DEF Continues
<1>8. \A p \in 1..n + 1 : Continues(more, p, from.seq, from.head)
  <2> HIDE DEF n
  <2>1. \A p \in 1..n + 1 : p \in 1..n \/ p = n + 1 BY <1>1
  <2> QED BY <1>6, <1>7, <2>1
<1>9. Reach(more, from) = n + 1
  <2> HIDE DEF n
  <2>1. n + 1 \in 0..Len(more) /\ ~(n + 1 < Len(more)) BY <1>1
  <2> QED BY <1>1, <1>8, <2>1, ChainLengthUnique DEF Reach
<1>10. HeadAfter(more, n + 1, from.head) = c.id
  <2> HIDE DEF n
  <2>1. n + 1 # 0 BY <1>1
  <2> QED BY <1>1, <2>1 DEF HeadAfter
<1>11. from.seq + (n + 1) = c.seq + 1 BY <1>1, <1>3, <1>4
<1> HIDE DEF n
<1> QED BY <1>1, <1>9, <1>10, <1>11 DEF Solid, End, more

LEMMA NothingSolid ==
  ASSUME NEW from \in Entries
  PROVE  Solid(<<>>, from) /\ End(<<>>, from) = from
<1>1. <<>> \in Seq(Cells) /\ Len(<<>>) = 0 OBVIOUS
<1>2. Reach(<<>>, from) = 0
  <2>1. Reach(<<>>, from) \in 0..Len(<<>>) BY <1>1, ReachTyped
  <2> QED BY <1>1, <2>1
<1>3. from.seq \in Nat /\ from = [seq |-> from.seq, head |-> from.head] BY DEF Entries
<1> QED BY <1>1, <1>2, <1>3 DEF Solid, End, HeadAfter

LEMMA SolidWhole ==
  ASSUME NEW cells \in Seq(Cells), NEW from, Solid(cells, from)
  PROVE  Whole(cells, from)
<1>1. Len(cells) \in Nat OBVIOUS
<1> QED BY <1>1 DEF Solid, Whole, WholeUpTo

\* Cutting the torn tail off a whole file leaves it solid, and its end where
\* it was.
LEMMA CompleteSolid ==
  ASSUME NEW cells \in Seq(Cells), NEW from \in Entries, Whole(cells, from)
  PROVE  Solid(Complete(cells), from) /\ End(Complete(cells), from) = End(cells, from)
<1> DEFINE k == Reach(cells, from)
<1>1. /\ k \in 0..Len(cells) /\ k \in Nat
      /\ \A p \in 1..k : Continues(cells, p, from.seq, from.head)
  BY ReachTyped, ChainLengthCorrect DEF Reach
<1>2. PICK n \in 0..Len(cells) : /\ Complete(cells) = SubSeq(cells, 1, n)
                                 /\ n = 0 \/ IsLine(cells[n])
                                 /\ WholeUpTo(cells, n)
  BY CompleteCorrect
<1>3. Len(cells) \in Nat /\ n \in Nat BY <1>2
<1>4. WholeUpTo(cells, k) BY DEF Whole
<1>5. n = k
  <2> HIDE DEF k
  <2>1. ~(k < n)
    <3> SUFFICES ASSUME k < n PROVE FALSE OBVIOUS
    <3>1. n \in k + 1..Len(cells) /\ n # 0 BY <1>1, <1>2, <1>3
    <3> QED BY <1>2, <1>4, <3>1 DEF WholeUpTo
  <2>2. ~(n < k)
    <3> SUFFICES ASSUME n < k PROVE FALSE OBVIOUS
    <3>1. k \in n + 1..Len(cells) /\ k \in 1..k BY <1>1, <1>3
    <3> QED BY <1>1, <1>2, <3>1 DEF WholeUpTo, Continues
  <2> QED BY <1>1, <1>3, <2>1, <2>2
<1>6. k \in 0..Reach(cells, from) BY <1>1
<1> QED BY <1>2, <1>5, <1>6, PrefixSolid DEF End

-----------------------------------------------------------------------------
\* Where a reader stands in the file it reads: it has decoded the first n
\* cells, all of them lines, and then read pieces of torn ones; it may hold
\* a part of the next line.
Stands(s, cells, from) ==
  /\ s.read <= Len(cells)
  /\ \E n \in 0..s.read :
       /\ \A p \in 1..s.read : IsLine(cells[p]) <=> p <= n
       /\ s.seq = from.seq + n /\ s.head = HeadAfter(cells, n, from.head)
       /\ s.part = NoLine => n = s.read
       /\ s.part # NoLine /\ n = s.read =>
            /\ s.read < Len(cells) /\ IsLine(cells[s.read + 1])
            /\ s.part = cells[s.read + 1].id

LEMMA StandsAtStart ==
  ASSUME NEW cells \in Seq(Cells), NEW from \in Entries, NEW s, s.read = 0, s.part = NoLine,
         s.seq = from.seq, s.head = from.head
  PROVE  Stands(s, cells, from)
<1>1. from.seq \in Nat /\ Len(cells) \in Nat BY DEF Entries
<1>2. 0 \in 0..s.read /\ s.seq = from.seq + 0 /\ s.read <= Len(cells) BY <1>1
<1> QED BY <1>2 DEF Stands, HeadAfter

\* It stands there still when what it has read, and the line it holds a part
\* of, are as they were.
LEMMA StandsStill ==
  ASSUME NEW cells \in Seq(Cells), NEW more \in Seq(Cells), NEW from, NEW s \in ReaderStates, NEW t,
         Stands(s, cells, from),
         t.read = s.read, t.part = s.part, t.seq = s.seq, t.head = s.head,
         s.read <= Len(more), \A p \in 1..s.read : more[p] = cells[p],
         s.part # NoLine /\ s.read < Len(cells) =>
           s.read < Len(more) /\ more[s.read + 1] = cells[s.read + 1]
  PROVE  Stands(t, more, from)
<1>1. PICK n \in 0..s.read :
        /\ \A p \in 1..s.read : IsLine(cells[p]) <=> p <= n
        /\ s.seq = from.seq + n /\ s.head = HeadAfter(cells, n, from.head)
        /\ s.part = NoLine => n = s.read
        /\ s.part # NoLine /\ n = s.read =>
             /\ s.read < Len(cells) /\ IsLine(cells[s.read + 1])
             /\ s.part = cells[s.read + 1].id
  BY DEF Stands
<1>2. s.read \in Nat /\ n \in Nat BY DEF ReaderStates
<1>3. HeadAfter(more, n, from.head) = HeadAfter(cells, n, from.head)
  <2>1. n # 0 => n \in 1..s.read BY <1>2
  <2> QED BY <2>1 DEF HeadAfter
<1>4. \A p \in 1..s.read : IsLine(more[p]) <=> p <= n BY <1>1
<1> QED BY <1>1, <1>3, <1>4 DEF Stands

\* A line behind what it has read continues the chain it has seen.
LEMMA NextLine ==
  ASSUME NEW cells \in Seq(Cells), NEW from \in Entries, NEW s \in ReaderStates,
         Stands(s, cells, from), Whole(cells, from), s.read < Len(cells), IsLine(cells[s.read + 1])
  PROVE  LET c == cells[s.read + 1] IN
           /\ c.ok /\ c.seq = s.seq /\ c.prev = s.head
           /\ s.part # NoLine => s.part = c.id
           /\ Stands([s EXCEPT !.read = @ + 1, !.part = NoLine, !.seq = @ + 1, !.head = c.id],
                     cells, from)
<1> DEFINE k == Reach(cells, from)
<1>1. PICK n \in 0..s.read :
        /\ \A p \in 1..s.read : IsLine(cells[p]) <=> p <= n
        /\ s.seq = from.seq + n /\ s.head = HeadAfter(cells, n, from.head)
        /\ s.part # NoLine /\ n = s.read => s.part = cells[s.read + 1].id
  BY DEF Stands
<1>2. s.read \in Nat /\ n \in Nat /\ Len(cells) \in Nat /\ from.seq \in Nat
  BY DEF ReaderStates, Entries
<1>3. k \in 0..Len(cells) /\ k \in Nat /\ \A p \in 1..k : Continues(cells, p, from.seq, from.head)
  BY ReachTyped, ChainLengthCorrect DEF Reach
<1>4. \A p \in k + 1..Len(cells) : ~IsLine(cells[p]) BY DEF Whole, WholeUpTo
<1> HIDE DEF k
<1>5. s.read + 1 <= k
  <2> SUFFICES ASSUME ~(s.read + 1 <= k) PROVE FALSE OBVIOUS
  <2>1. s.read + 1 \in k + 1..Len(cells) BY <1>2, <1>3
  <2> QED BY <1>4, <2>1
<1>6. n = s.read
  <2> SUFFICES ASSUME n # s.read PROVE FALSE OBVIOUS
  <2>1. n + 1 \in 1..s.read /\ n + 1 \in 1..k /\ ~(n + 1 <= n) BY <1>2, <1>3, <1>5
  <2>2. IsLine(cells[n + 1]) BY <1>3, <2>1 DEF Continues
  <2> QED BY <1>1, <2>1, <2>2
<1>7. Continues(cells, s.read + 1, from.seq, from.head)
  <2>1. s.read + 1 \in 1..k BY <1>2, <1>3, <1>5
  <2> QED BY <1>3, <2>1
<1> DEFINE c == cells[s.read + 1]
           t == [s EXCEPT !.read = @ + 1, !.part = NoLine, !.seq = @ + 1, !.head = c.id]
<1>8. c.ok /\ c.seq = s.seq /\ c.prev = s.head
  <2>1. from.seq + (s.read + 1) - 1 = from.seq + n BY <1>2, <1>6
  <2>2. CASE s.read = 0 BY <1>1, <1>6, <1>7, <2>1, <2>2 DEF Continues, HeadAfter
  <2>3. CASE s.read # 0
    <3>1. s.read + 1 # 1 /\ (s.read + 1) - 1 = s.read BY <1>2, <2>3
    <3> QED BY <1>1, <1>6, <1>7, <2>1, <2>3, <3>1 DEF Continues, HeadAfter
  <2> QED BY <2>2, <2>3
<1>9. Stands(t, cells, from)
  <2>1. t.read = s.read + 1 /\ t.part = NoLine /\ t.seq = s.seq + 1 /\ t.head = c.id
    BY DEF ReaderStates
  <2> HIDE DEF t
  <2>2. /\ s.read + 1 \in 0..t.read /\ t.seq = from.seq + (s.read + 1) /\ t.read <= Len(cells)
    BY <1>1, <1>2, <1>6, <2>1
  <2>3. \A p \in 1..t.read : p <= s.read + 1 /\ IsLine(cells[p])
    <3> SUFFICES ASSUME NEW p \in 1..t.read PROVE p <= s.read + 1 /\ IsLine(cells[p]) OBVIOUS
    <3>1. p \in 1..s.read \/ p = s.read + 1 BY <1>2, <2>1
    <3>2. p \in 1..s.read => p <= n /\ p <= s.read + 1 BY <1>2, <1>6
    <3> QED BY <1>1, <1>2, <3>1, <3>2
  <2>4. HeadAfter(cells, s.read + 1, from.head) = c.id
    <3>1. s.read + 1 # 0 BY <1>2
    <3> QED BY <3>1 DEF HeadAfter
  <2> QED BY <2>1, <2>2, <2>3, <2>4 DEF Stands
<1> HIDE DEF c, t
<1>10. s.part # NoLine => s.part = c.id BY <1>1, <1>6 DEF c
<1> QED BY <1>8, <1>9, <1>10 DEF c, t

LEMMA NextPiece ==
  ASSUME NEW cells \in Seq(Cells), NEW from \in Entries, NEW s \in ReaderStates,
         Stands(s, cells, from), s.read < Len(cells), ~IsLine(cells[s.read + 1])
  PROVE  Stands([s EXCEPT !.part = Genesis, !.read = @ + 1], cells, from)
<1> DEFINE t == [s EXCEPT !.part = Genesis, !.read = @ + 1]
<1>1. PICK n \in 0..s.read :
        /\ \A p \in 1..s.read : IsLine(cells[p]) <=> p <= n
        /\ s.seq = from.seq + n /\ s.head = HeadAfter(cells, n, from.head)
  BY DEF Stands
<1>2. s.read \in Nat /\ n \in Nat /\ Len(cells) \in Nat BY DEF ReaderStates
<1>3. t.read = s.read + 1 /\ t.part = Genesis /\ t.seq = s.seq /\ t.head = s.head
  BY DEF ReaderStates
<1> HIDE DEF t
<1>4. n \in 0..t.read /\ n # t.read /\ t.read <= Len(cells) /\ t.part # NoLine
  BY <1>2, <1>3 DEF Genesis, NoLine
<1>5. \A p \in 1..t.read : IsLine(cells[p]) <=> p <= n
  <2> SUFFICES ASSUME NEW p \in 1..t.read PROVE IsLine(cells[p]) <=> p <= n OBVIOUS
  <2>1. p \in 1..s.read \/ p = s.read + 1 BY <1>2, <1>3
  <2>2. ~(s.read + 1 <= n) BY <1>2
  <2> QED BY <1>1, <2>1, <2>2
<1>6. Stands(t, cells, from) BY <1>1, <1>3, <1>4, <1>5 DEF Stands
<1> QED BY <1>6 DEF t

LEMMA NextPart ==
  ASSUME NEW cells \in Seq(Cells), NEW from \in Entries, NEW s \in ReaderStates,
         Stands(s, cells, from), s.read < Len(cells), IsLine(cells[s.read + 1]), s.part = NoLine
  PROVE  Stands([s EXCEPT !.part = cells[s.read + 1].id], cells, from)
<1> DEFINE t == [s EXCEPT !.part = cells[s.read + 1].id]
<1>1. t.read = s.read /\ t.part = cells[s.read + 1].id /\ t.seq = s.seq /\ t.head = s.head
  BY DEF ReaderStates
<1>2. s.read + 1 \in DOMAIN cells BY DEF ReaderStates
<1>3. t.part \in Nat /\ t.part # NoLine
  <2>1. cells[s.read + 1] \in Cells BY <1>2
  <2>2. t.part \in Nat BY <1>1, <2>1 DEF Cells
  <2> QED BY <2>2 DEF NoLine
<1> HIDE DEF t
<1>4. Stands(t, cells, from) BY <1>1, <1>3 DEF Stands
<1> QED BY <1>4 DEF t

\* At the end of a whole file it has seen the chain to where it leaves it.
LEMMA EndRead ==
  ASSUME NEW cells \in Seq(Cells), NEW from \in Entries, NEW s \in ReaderStates,
         Stands(s, cells, from), Whole(cells, from), s.read >= Len(cells)
  PROVE  s.seq = End(cells, from).seq /\ s.head = End(cells, from).head
<1> DEFINE k == Reach(cells, from)
<1>1. PICK n \in 0..s.read :
        /\ \A p \in 1..s.read : IsLine(cells[p]) <=> p <= n
        /\ s.seq = from.seq + n /\ s.head = HeadAfter(cells, n, from.head)
  BY DEF Stands
<1>2. s.read \in Nat /\ n \in Nat /\ Len(cells) \in Nat /\ s.read <= Len(cells)
  BY DEF ReaderStates, Stands
<1>3. k \in 0..Len(cells) /\ k \in Nat /\ \A p \in 1..k : Continues(cells, p, from.seq, from.head)
  BY ReachTyped, ChainLengthCorrect DEF Reach
<1>4. \A p \in k + 1..Len(cells) : ~IsLine(cells[p]) BY DEF Whole, WholeUpTo
<1>5. n = k
  <2> HIDE DEF k
  <2>1. ~(n < k)
    <3> SUFFICES ASSUME n < k PROVE FALSE OBVIOUS
    <3>1. k \in 1..s.read /\ k \in 1..k /\ ~(k <= n) BY <1>2, <1>3
    <3>2. IsLine(cells[k]) BY <1>3, <3>1 DEF Continues
    <3> QED BY <1>1, <3>1, <3>2
  <2>2. ~(k < n)
    <3> SUFFICES ASSUME k < n PROVE FALSE OBVIOUS
    <3>1. n \in 1..s.read /\ n \in k + 1..Len(cells) /\ n <= n BY <1>2, <1>3
    <3> QED BY <1>1, <1>4, <3>1
  <2> QED BY <1>2, <1>3, <2>1, <2>2
<1> QED BY <1>1, <1>5 DEF End

-----------------------------------------------------------------------------
\* Segments in a row: b tells where each is entered.

Neighbours(d, i, j) == i < j /\ \A k \in DOMAIN d : ~(i < k /\ k < j)

\* The segments up to x continue one chain, those below x wholly.
Chained(d, b, x) ==
  /\ b[FirstOf(DOMAIN d)] = Start
  /\ \A i \in DOMAIN d : i < x => Whole(d[i].cells, b[i])
  /\ \A i, j \in DOMAIN d : j <= x /\ Neighbours(d, i, j) => b[j] = End(d[i].cells, b[i])

\* What happens above x, or to the cells of x, does not matter.
LEMMA ChainedFrame ==
  ASSUME NEW d, WellShaped(d), NEW e, WellShaped(e), NEW b, NEW c,
         NEW x \in DOMAIN d, Chained(d, b, x),
         \A i \in Nat : i <= x => c[i] = b[i] /\ (i \in DOMAIN e <=> i \in DOMAIN d),
         \A i \in DOMAIN d : i < x => e[i].cells = d[i].cells
  PROVE  Chained(e, c, x)
<1>1. DOMAIN d \in SUBSET Nat /\ DOMAIN e \in SUBSET Nat /\ x \in Nat /\ x \in DOMAIN e
  BY DEF WellShaped
<1>2. /\ FirstOf(DOMAIN d) \in DOMAIN d /\ \A k \in DOMAIN d : FirstOf(DOMAIN d) <= k
      /\ FirstOf(DOMAIN e) \in DOMAIN e /\ \A k \in DOMAIN e : FirstOf(DOMAIN e) <= k
  BY <1>1, FirstOfCorrect
<1>3. FirstOf(DOMAIN e) = FirstOf(DOMAIN d) /\ FirstOf(DOMAIN d) <= x
  <2>1. FirstOf(DOMAIN d) <= x /\ FirstOf(DOMAIN e) <= x BY <1>1, <1>2
  <2>2. FirstOf(DOMAIN d) \in DOMAIN e /\ FirstOf(DOMAIN e) \in DOMAIN d BY <1>1, <1>2, <2>1
  <2>3. FirstOf(DOMAIN d) <= FirstOf(DOMAIN e) /\ FirstOf(DOMAIN e) <= FirstOf(DOMAIN d)
    BY <1>2, <2>2
  <2> QED BY <1>1, <1>2, <2>1, <2>3
<1>4. c[FirstOf(DOMAIN e)] = Start
  <2>1. FirstOf(DOMAIN d) \in Nat BY <1>1, <1>2
  <2> QED BY <1>3, <2>1 DEF Chained
<1>5. ASSUME NEW i \in DOMAIN e, i < x PROVE Whole(e[i].cells, c[i])
  <2>1. i \in Nat /\ i <= x BY <1>1, <1>5
  <2> QED BY <1>5, <2>1 DEF Chained
<1>6. ASSUME NEW i \in DOMAIN e, NEW j \in DOMAIN e, j <= x, Neighbours(e, i, j)
      PROVE  c[j] = End(e[i].cells, c[i])
  <2>1. i \in Nat /\ j \in Nat /\ i < j /\ i < x /\ i <= x BY <1>1, <1>6 DEF Neighbours
  <2>2. i \in DOMAIN d /\ j \in DOMAIN d BY <1>6, <2>1
  <2>3. Neighbours(d, i, j)
    <3> SUFFICES ASSUME NEW k \in DOMAIN d, i < k, k < j PROVE FALSE BY <2>1 DEF Neighbours
    <3>1. k \in Nat /\ k <= x BY <1>1, <1>6, <2>1
    <3> QED BY <1>6, <3>1 DEF Neighbours
  <2> QED BY <1>6, <2>1, <2>2, <2>3 DEF Chained
<1> QED BY <1>4, <1>5, <1>6 DEF Chained

\* The next segment is entered where the one before it ends.
LEMMA ChainedOn ==
  ASSUME NEW d, WellShaped(d), NEW b, NEW x \in DOMAIN d, Chained(d, b, x),
         Whole(d[x].cells, b[x]), NEW y \in DOMAIN d, Neighbours(d, x, y),
         b[y] = End(d[x].cells, b[x])
  PROVE  Chained(d, b, y)
<1>1. DOMAIN d \in SUBSET Nat /\ x \in Nat /\ y \in Nat /\ x < y BY DEF WellShaped, Neighbours
<1>2. ASSUME NEW i \in DOMAIN d, i < y PROVE Whole(d[i].cells, b[i])
  <2>1. i <= x BY <1>1, <1>2 DEF Neighbours
  <2> QED BY <1>1, <2>1 DEF Chained
<1>3. ASSUME NEW i \in DOMAIN d, NEW j \in DOMAIN d, j <= y, Neighbours(d, i, j)
      PROVE  b[j] = End(d[i].cells, b[i])
  <2>1. CASE j <= x BY <1>3, <2>1 DEF Chained
  <2>2. CASE ~(j <= x)
    <3>1. j = y BY <1>1, <1>3, <2>2 DEF Neighbours
    <3>2. i = x
      <4>1. ~(i < x) /\ i < y BY <1>1, <1>3, <3>1 DEF Neighbours
      <4>2. ~(x < i) BY <1>1, <4>1 DEF Neighbours
      <4> QED BY <1>1, <4>1, <4>2
    <3> QED BY <3>1, <3>2
  <2> QED BY <2>1, <2>2
<1> QED BY <1>2, <1>3 DEF Chained

-----------------------------------------------------------------------------
\* Without failed writes and damage an open journal is one chain, and each
\* reader is at a place of it.

IsLast(x) == x \in Segments /\ \A k \in Segments : k <= x
Tip == [seq |-> nextSeq, head |-> head]

Opened(b) ==
  /\ pc \in Scanning => Chained(disk, b, at)
  /\ pc = "scan" => Tip = b[at]
  /\ pc \in {"quarantine", "truncate"} => good = Reach(disk[at].cells, b[at])
  /\ pc \in {"quarantine", "truncate", "rename", "position"} => Tip = End(disk[at].cells, b[at])
  /\ pc \in {"rename", "position"} => Whole(disk[at].cells, b[at])
  /\ pc = "position" => Chained(disk, b, at) /\ IsLast(at)
  /\ pc \in Working =>
       /\ IsLast(curIndex) /\ Chained(disk, b, curIndex)
       /\ Solid(disk[curIndex].cells, b[curIndex])
  /\ pc \in {"up", "record"} => Tip = End(disk[curIndex].cells, b[curIndex])
  /\ pc \in {"written", "synced"} =>
       End(disk[curIndex].cells, b[curIndex]) = [seq |-> nextSeq + 1, head |-> ev.id]
  /\ pc = "written" =>
       LET cells == disk[curIndex].cells
           but == SubSeq(cells, 1, Len(cells) - 1)
       IN  Solid(but, b[curIndex]) /\ Tip = End(but, b[curIndex])

\* A reader none of whose bytes were cut off reads along the chain.
ReadsAlong(b, r) ==
  /\ reader[r].pc = "alarm" => reader[r].cut
  /\ reader[r].pc = "reading" /\ ~reader[r].cut =>
       /\ \A i, k \in reader[r].todo : \A j \in Segments : i < j /\ j < k => j \in reader[r].todo
       /\ reader[r].todo # {} => Stands(reader[r], OpenFile(r), b[FirstOf(reader[r].todo)])
ReadsOn(b) == \A r \in Readers : ReadsAlong(b, r)

Undamaged == env.faults \cap {"write", "corrupt"} = {}
OneChain == Undamaged => \E b \in [Nat -> Entries] : Opened(b) /\ ReadsOn(b)

\* The segment a reader reads is there, and none below it is left to read.
LEMMA FirstToRead ==
  ASSUME LedgerTyped, Served, NEW r \in Readers, reader[r].pc = "reading", reader[r].todo # {}
  PROVE  /\ FirstOf(reader[r].todo) \in Segments /\ FirstOf(reader[r].todo) \in Nat
         /\ FirstOf(reader[r].todo) \in reader[r].todo
         /\ \A k \in reader[r].todo : FirstOf(reader[r].todo) <= k
         /\ reader[r].todo \subseteq Segments /\ reader[r].todo \in SUBSET Nat
         /\ OpenFile(r) \in Seq(Cells) /\ reader[r] \in ReaderStates
<1>1. reader[r].todo \subseteq Segments BY DEF Served
<1>2. Segments \in SUBSET Nat BY DEF LedgerTyped, WellShaped, Segments
<1>3. reader[r].todo \in SUBSET Nat BY <1>1, <1>2
<1>4. /\ FirstOf(reader[r].todo) \in reader[r].todo
      /\ \A k \in reader[r].todo : FirstOf(reader[r].todo) <= k
  BY <1>3, FirstOfCorrect
<1>5. FirstOf(reader[r].todo) \in Segments BY <1>1, <1>4
<1>6. OpenFile(r) \in Seq(Cells) BY <1>5, FileAt DEF LedgerTyped, OpenFile
<1>7. reader[r] \in ReaderStates BY DEF LedgerTyped, StructTyped
<1> QED BY <1>1, <1>2, <1>3, <1>4, <1>5, <1>6, <1>7

\* Readers that stand still stand right, when segments are added at the end
\* only, and cells to their ends.
LEMMA ReadsFrame ==
  ASSUME LedgerTyped, LedgerTyped', Served, NEW b, NEW c, ReadsOn(b), reader' = reader,
         \A i \in Segments : c[i] = b[i],
         \A j \in Segments' : j \in Segments \/ \A k \in Segments : k < j,
         \A i \in Segments : \/ disk'[i].cells = disk[i].cells
                             \/ \E d \in Cells : disk'[i].cells = Append(disk[i].cells, d)
  PROVE  (ReadsOn(c)')
<1> SUFFICES ASSUME NEW r \in Readers PROVE ReadsAlong(c, r)' BY DEF ReadsOn
<1>1. Segments \in SUBSET Nat BY DEF LedgerTyped, WellShaped, Segments
<1>2. ReadsAlong(b, r) BY DEF ReadsOn
<1>3. CASE reader[r].pc = "reading" /\ ~reader[r].cut
  <2>1. reader[r].todo \subseteq Segments BY <1>3 DEF Served
  <2>2. ASSUME NEW i \in reader[r].todo, NEW k \in reader[r].todo, NEW j \in Segments', i < j, j < k
        PROVE  j \in reader[r].todo
    <3>1. j \in Segments
      <4> SUFFICES ASSUME \A l \in Segments : l < j PROVE j \in Segments OBVIOUS
      <4>1. k \in Nat /\ k < j /\ i \in Nat /\ i < j BY <1>1, <2>1, <2>2
      <4>2. j \in Nat BY DEF LedgerTyped, WellShaped, Segments
      <4> QED BY <2>2, <4>1, <4>2
    <3> QED BY <1>2, <1>3, <2>2, <3>1 DEF ReadsAlong
  <2>3. ASSUME reader[r].todo # {}
        PROVE  Stands(reader[r], OpenFile(r)', c[FirstOf(reader[r].todo)])
    <3>1. PICK i \in Segments : i = FirstOf(reader[r].todo) BY <1>3, <2>3, FirstToRead
    <3> DEFINE cells == disk[i].cells
               s == reader[r]
    <3>2. cells \in Seq(Cells) /\ s \in ReaderStates /\ s.read \in Nat /\ Len(cells) \in Nat
      BY <3>1, FileAt DEF LedgerTyped, StructTyped, ReaderStates
    <3>3. Stands(s, cells, b[i]) BY <1>2, <1>3, <2>3, <3>1 DEF ReadsAlong, OpenFile
    <3>4. s.read <= Len(cells) BY <3>3 DEF Stands
    <3>5. OpenFile(r)' = disk'[i].cells /\ c[i] = b[i] BY <3>1 DEF OpenFile
    <3> HIDE DEF s, cells
    <3>6. CASE disk'[i].cells = disk[i].cells BY <3>1, <3>3, <3>5, <3>6 DEF s, cells
    <3>7. CASE \E d \in Cells : disk'[i].cells = Append(disk[i].cells, d)
      <4>1. PICK d \in Cells : disk'[i].cells = Append(cells, d) BY <3>7 DEF cells
      <4>2. PICK more : more = Append(cells, d) OBVIOUS
      <4>3. /\ more \in Seq(Cells) /\ Len(more) = Len(cells) + 1
            /\ \A p \in 1..Len(cells) : more[p] = cells[p]
        BY <3>2, <4>2
      <4>4. s.read <= Len(more) /\ \A p \in 1..s.read : more[p] = cells[p]
        <5>1. \A p \in 1..s.read : p \in 1..Len(cells) BY <3>2, <3>4
        <5> QED BY <3>2, <3>4, <4>3, <5>1
      <4>5. s.read < Len(cells) => s.read < Len(more) /\ more[s.read + 1] = cells[s.read + 1]
        <5>1. s.read < Len(cells) => s.read + 1 \in 1..Len(cells) BY <3>2
        <5> QED BY <3>2, <4>3, <5>1
      <4>6. Stands(s, more, b[i]) BY <3>2, <3>3, <4>3, <4>4, <4>5, StandsStill
      <4> QED BY <3>1, <3>5, <4>1, <4>2, <4>6 DEF s
    <3> QED BY <3>1, <3>6, <3>7
  <2> QED BY <1>3, <2>2, <2>3 DEF ReadsAlong
<1>4. CASE ~(reader[r].pc = "reading" /\ ~reader[r].cut) BY <1>2, <1>4 DEF ReadsAlong
<1> QED BY <1>3, <1>4

LEMMA NobodyReads ==
  ASSUME NEW c, \A r \in Readers : reader'[r].pc = "idle"
  PROVE  (ReadsOn(c)')
BY DEF ReadsOn, ReadsAlong

LEMMA OneChainStep == LedgerInv /\ LedgerInv' /\ OneChain /\ [JournalNext]_journal => OneChain'
<1> SUFFICES ASSUME LedgerInv, LedgerInv', OneChain, [JournalNext]_journal, Undamaged'
             PROVE  \E c \in [Nat -> Entries] : (Opened(c)' /\ ReadsOn(c)')
  BY DEF OneChain
<1> USE DEF mem, open, moved, quarantine
<1>u. Undamaged BY FaultsStay DEF Undamaged, LedgerInv
<1>b. PICK b \in [Nat -> Entries] : Opened(b) /\ ReadsOn(b) BY <1>u DEF OneChain
<1>t. LedgerTyped /\ WellShaped(disk) /\ StructTyped /\ Placed /\ Served BY DEF LedgerInv, LedgerTyped
<1>v. LedgerTyped' /\ WellShaped(disk)' /\ StructTyped' /\ Placed' BY DEF LedgerInv, LedgerTyped
<1>s. Segments \in SUBSET Nat BY <1>t DEF WellShaped, Segments
<1>e. \A i \in Nat : b[i] \in Entries OBVIOUS
<1>f. \A i \in Segments : i \in Nat /\ disk[i].cells \in Seq(Cells) /\ b[i] \in Entries
  BY <1>t, <1>s, <1>e, FileAt
<1>i. ~Serving /\ reader' = reader => \A c : (ReadsOn(c)')
  BY <1>t, NobodyReads DEF Served
<1>r. ASSUME reader' = reader, Segments' = Segments,
             \A i \in Segments : \/ disk'[i].cells = disk[i].cells
                                 \/ \E d \in Cells : disk'[i].cells = Append(disk[i].cells, d)
      PROVE  (ReadsOn(b)')
  BY <1>b, <1>t, <1>v, <1>r, ReadsFrame
\* Steps that leave all but the readers alone, and those that end the process.
<1>1. ASSUME UNCHANGED <<disk, pc, nextSeq, head, curIndex, at, good, ev>> PROVE (Opened(b)')
  BY <1>1, <1>b DEF Opened, IsLast, Segments, Tip
<1>2. ASSUME pc' = "down", (ReadsOn(b)') PROVE Opened(b)' /\ ReadsOn(b)'
  BY <1>2 DEF Opened, Scanning, Working
<1>w. pc \in Working => /\ IsLast(curIndex) /\ curIndex \in Segments /\ Chained(disk, b, curIndex)
                        /\ Solid(disk[curIndex].cells, b[curIndex])
                        /\ disk[curIndex].cells \in Seq(Cells) /\ curIndex \in Nat /\ b[curIndex] \in Entries
  BY <1>b, <1>f DEF Opened, IsLast
\* The file of the current segment changes.
<1>c. ASSUME pc \in Working, pc' \in Working, curIndex' = curIndex, Segments' = Segments,
             \A i \in Segments : i # curIndex => disk'[i].cells = disk[i].cells
      PROVE  (IsLast(curIndex)' /\ Chained(disk, b, curIndex)')
  <2>1. IsLast(curIndex)' BY <1>c, <1>w DEF IsLast
  <2>2. \A i \in Segments : i < curIndex => disk'[i].cells = disk[i].cells BY <1>c, <1>w, <1>s
  <2>3. Chained(disk', b, curIndex)
    BY <1>c, <1>w, <1>t, <1>v, <2>2, ChainedFrame DEF Segments
  <2> QED BY <1>c, <2>1, <2>3
<1>3. ASSUME NEW names \in SUBSET Nat, WriteEvent(names), pc \in {"up", "record"}, pc' = "written"
      PROVE  Opened(b)' /\ ReadsOn(b)'
  <2> DEFINE cells == disk[curIndex].cells
             c == [ev' EXCEPT !.ok = ~EndsTorn(cells)]
  <2>1. /\ curIndex \in Segments /\ cells \in Seq(Cells) /\ b[curIndex] \in Entries
        /\ Solid(cells, b[curIndex]) /\ Tip = End(cells, b[curIndex])
    BY <1>3, <1>b, <1>w DEF Working, Opened
  <2>2. /\ ev' = NewEvent(names) /\ curIndex' = curIndex /\ nextSeq' = nextSeq /\ head' = head
        /\ disk' = [disk EXCEPT ![curIndex] = [disk[curIndex] EXCEPT !.cells = Append(cells, c)]]
    BY <1>3 DEF WriteEvent, Written
  <2>3. /\ ev' \in Cells /\ IsLine(ev') /\ ev'.seq = nextSeq /\ ev'.prev = head
    BY <1>v, <2>2 DEF StructTyped, NewEvent
  <2>4. /\ c \in Cells /\ IsLine(c) /\ c.ok = ~EndsTorn(cells) /\ c.seq = nextSeq /\ c.prev = head
        /\ c.id = ev'.id
    BY <2>3 DEF Cells, EndsTorn, IsLine
  <2>5. disk[curIndex] = [cells |-> cells, synced |-> disk[curIndex].synced] BY <1>t, <2>1, FileAt
  <2> HIDE DEF c
  <2>6. /\ disk'[curIndex].cells = Append(cells, c) /\ Segments' = Segments
        /\ \A i \in Segments : i # curIndex => disk'[i].cells = disk[i].cells
    BY <2>1, <2>2, <2>5 DEF Segments
  <2>7. Tip.seq = nextSeq /\ Tip.head = head BY DEF Tip
  <2>8. /\ Solid(Append(cells, c), b[curIndex])
        /\ End(Append(cells, c), b[curIndex]) = [seq |-> nextSeq + 1, head |-> ev'.id]
    BY <2>1, <2>4, <2>7, AppendSolid
  <2>9. SubSeq(Append(cells, c), 1, Len(Append(cells, c)) - 1) = cells BY <2>1, <2>4
  <2>10. (IsLast(curIndex)' /\ Chained(disk, b, curIndex)') BY <1>3, <1>c, <2>2, <2>6 DEF Working
  <2>11. Tip' = Tip BY <2>2 DEF Tip
  <2>12. (ReadsOn(b)')
    <3>1. \A i \in Segments : \/ disk'[i].cells = disk[i].cells
                              \/ \E d \in Cells : disk'[i].cells = Append(disk[i].cells, d)
      BY <2>4, <2>6
    <3>2. reader' = reader BY <1>3 DEF WriteEvent
    <3> QED BY <1>r, <2>6, <3>1, <3>2
  <2> HIDE DEF cells
  <2> QED BY <1>3, <2>1, <2>2, <2>6, <2>8, <2>9, <2>10, <2>11, <2>12 DEF Opened, Scanning, Working
<1>4. CASE AppendWrite
  <2>1. Opened(b)' /\ ReadsOn(b)' BY <1>3, <1>4 DEF AppendWrite
  <2> QED BY <2>1
<1>5. CASE RecordRecovery
  <2>1. Opened(b)' /\ ReadsOn(b)' BY <1>3, <1>5, <1>t DEF RecordRecovery, StructTyped
  <2> QED BY <2>1
<1>6. CASE WriteFails BY <1>6, <1>u DEF WriteFails, Fault, Undamaged
<1>7. CASE Fsync
  <2>1. /\ pc = "written" /\ pc' = "synced" /\ UNCHANGED <<nextSeq, head, curIndex, ev, reader>>
        /\ disk' = [disk EXCEPT ![curIndex].synced = Len(disk[curIndex].cells)]
    BY <1>7 DEF Fsync
  <2>2. curIndex \in Segments BY <1>w, <2>1 DEF Working
  <2>3. Segments' = Segments /\ \A i \in Segments : disk'[i].cells = disk[i].cells
    <3>1. disk[curIndex] = [cells |-> disk[curIndex].cells, synced |-> disk[curIndex].synced]
      BY <1>t, <2>2, FileAt
    <3>2. disk'[curIndex] = [disk[curIndex] EXCEPT !.synced = Len(disk[curIndex].cells)]
      BY <2>1, <2>2 DEF Segments
    <3>3. disk'[curIndex].cells = disk[curIndex].cells BY <3>1, <3>2
    <3> QED BY <2>1, <3>3 DEF Segments
  <2>4. (IsLast(curIndex)' /\ Chained(disk, b, curIndex)') BY <1>c, <2>1, <2>3 DEF Working
  <2>5. /\ Solid(disk[curIndex].cells, b[curIndex])
        /\ End(disk[curIndex].cells, b[curIndex]) = [seq |-> nextSeq + 1, head |-> ev.id]
    BY <1>b, <2>1 DEF Opened, Working
  <2>6. disk'[curIndex'].cells = disk[curIndex].cells BY <2>1, <2>2, <2>3
  <2>7. Opened(b)' BY <2>1, <2>4, <2>5, <2>6 DEF Opened, Scanning, Working
  <2> QED BY <1>r, <2>1, <2>3, <2>7
<1>8. CASE FsyncFails
  <2> DEFINE cells == disk[curIndex].cells
             but == SubSeq(cells, 1, Len(cells) - 1)
  <2>1. /\ pc = "written" /\ pc' \in {"up", "down"} /\ UNCHANGED <<nextSeq, head, curIndex>>
        /\ disk' = [disk EXCEPT ![curIndex] = Resized(disk[curIndex], Cut(cells, curBytes))]
        /\ reader' = [r \in Readers |->
             [reader[r] EXCEPT !.cut = @ \/ HasReadBeyond(r, Len(Cut(cells, curBytes)))]]
    BY <1>8 DEF FsyncFails
  <2>2. curIndex \in Segments /\ cells \in Seq(Cells) /\ disk[curIndex] \in SegmentFiles
    BY <1>t, <1>w, <2>1, FileAt DEF Working
  <2>3. cells # <<>> /\ curBytes = Size(but)
    BY <1>u, <2>1 DEF LedgerInv, LastWritten, BytesCounted, Undamaged
  <2>4. Cut(cells, curBytes) = but BY <2>2, <2>3, CutLast
  <2>5. but \in Seq(Cells) BY <2>2
  <2>6. Solid(but, b[curIndex]) /\ Tip = End(but, b[curIndex]) BY <1>b, <2>1 DEF Opened
  <2> HIDE DEF but
  <2>7. Resized(disk[curIndex], but).cells = but BY <2>2, <2>5, ResizedTyped
  <2> HIDE DEF cells
  <2>8. /\ disk'[curIndex].cells = but /\ Segments' = Segments
        /\ \A i \in Segments : i # curIndex => disk'[i].cells = disk[i].cells
    BY <2>1, <2>2, <2>4, <2>7 DEF Segments
  <2>9. Tip' = Tip BY <2>1 DEF Tip
  <2>10. Opened(b)'
    <3>1. CASE pc' = "down" BY <3>1 DEF Opened, Scanning, Working
    <3>2. CASE pc' = "up"
      <4>1. (IsLast(curIndex)' /\ Chained(disk, b, curIndex)')
        BY <1>c, <2>1, <2>8, <3>2 DEF Working
      <4>2. disk'[curIndex'].cells = but BY <2>1, <2>8
      <4> QED BY <2>1, <2>6, <2>9, <3>2, <4>1, <4>2 DEF Opened, Scanning, Working
    <3> QED BY <2>1, <3>1, <3>2
  <2>11. Len(but) = Len(cells) - 1 /\ \A p \in 1..Len(but) : but[p] = cells[p]
    <3>1. Len(cells) - 1 \in 0..Len(cells) BY <2>2, <2>3
    <3> QED BY <2>2, <3>1, PrefixSize DEF but
  <2>12. ASSUME NEW r \in Readers PROVE ReadsAlong(b, r)'
    <3> DEFINE s == reader[r]
               t == reader'[r]
    <3>1. s \in ReaderStates /\ ReadsAlong(b, r) BY <1>b, <1>t DEF StructTyped, ReadsOn
    <3>2. t = [s EXCEPT !.cut = s.cut \/ HasReadBeyond(r, Len(but))] BY <2>1, <2>4
    <3>3. /\ t.pc = s.pc /\ t.todo = s.todo /\ t.read = s.read /\ t.part = s.part
          /\ t.seq = s.seq /\ t.head = s.head /\ t.cut = (s.cut \/ HasReadBeyond(r, Len(but)))
      BY <3>1, <3>2 DEF ReaderStates
    <3>4. ASSUME s.pc = "reading", ~t.cut, s.todo # {}
          PROVE  Stands(t, OpenFile(r)', b[FirstOf(s.todo)])
      <4>1. PICK i \in Segments : i = FirstOf(s.todo) BY <1>t, <3>4, FirstToRead
      <4>2. Stands(s, disk[i].cells, b[i]) BY <3>1, <3>3, <3>4, <4>1 DEF ReadsAlong, OpenFile
      <4>3. OpenFile(r)' = disk'[i].cells BY <3>3, <4>1 DEF OpenFile
      <4>4. disk[i].cells \in Seq(Cells) BY <1>f
      <4>5. s.read \in Nat /\ Len(cells) \in Nat BY <2>2, <3>1 DEF ReaderStates
      <4>6. CASE i # curIndex
        <5>1. disk'[i].cells = disk[i].cells BY <2>8, <4>6
        <5>2. s.read <= Len(disk[i].cells) BY <4>2 DEF Stands
        <5>3. Stands(t, disk[i].cells, b[i]) BY <3>1, <3>3, <4>2, <4>4, <5>2, StandsStill
        <5> QED BY <4>1, <4>3, <5>1, <5>3
      <4>7. CASE i = curIndex
        <5>1. /\ disk'[i].cells = but /\ Stands(s, cells, b[i])
          BY <2>8, <4>2, <4>7 DEF cells
        <5>2. ~HasReadBeyond(r, Len(but)) BY <3>3, <3>4
        <5>3. /\ ~(s.read > Len(but)) /\ (s.read = Len(but) => s.part = NoLine)
          BY <3>4, <4>1, <4>7, <5>2 DEF HasReadBeyond
        <5>4. s.read <= Len(but) BY <2>11, <4>5, <5>3
        <5>5. \A p \in 1..s.read : but[p] = cells[p]
          <6>1. \A p \in 1..s.read : p \in 1..Len(but) BY <2>11, <4>5, <5>4
          <6> QED BY <2>11, <6>1
        <5>6. s.part # NoLine => s.read < Len(but) /\ but[s.read + 1] = cells[s.read + 1]
          <6>1. s.part # NoLine => s.read < Len(but) /\ s.read + 1 \in 1..Len(but)
            BY <2>11, <4>5, <5>3, <5>4
          <6> QED BY <2>11, <6>1
        <5>7. Stands(t, but, b[i])
          BY <2>2, <2>5, <3>1, <3>3, <5>1, <5>4, <5>5, <5>6, StandsStill
        <5> QED BY <4>1, <4>3, <5>1, <5>7
      <4> QED BY <4>6, <4>7
    <3> HIDE DEF s, t
    <3>5. (reader'[r].pc = "alarm") => reader'[r].cut BY <3>1, <3>3 DEF s, t, ReadsAlong
    <3>6. ASSUME reader'[r].pc = "reading", ~reader'[r].cut
          PROVE  \A i, k \in reader'[r].todo : \A j \in Segments' :
                   i < j /\ j < k => j \in reader'[r].todo
      <4>1. s.pc = "reading" /\ ~s.cut BY <3>3, <3>6 DEF t
      <4> QED BY <2>8, <3>1, <3>3, <4>1 DEF s, t, ReadsAlong
    <3> QED BY <3>3, <3>4, <3>5, <3>6 DEF s, t, ReadsAlong
  <2>13. (ReadsOn(b)') BY <2>12 DEF ReadsOn
  <2> QED BY <2>10, <2>13
<1>9. ASSUME NEW rotates \in BOOLEAN, Return(rotates)
      PROVE  \E c \in [Nat -> Entries] : (Opened(c)' /\ ReadsOn(c)')
  <2>1. /\ pc = "synced" /\ pc' = "up" /\ nextSeq' = nextSeq + 1 /\ head' = ev.id /\ reader' = reader
    BY <1>9 DEF Return
  <2>2. /\ curIndex \in Segments /\ curIndex \in Nat /\ IsLast(curIndex) /\ Chained(disk, b, curIndex)
        /\ Solid(disk[curIndex].cells, b[curIndex]) /\ disk[curIndex].cells \in Seq(Cells)
        /\ Tip' = End(disk[curIndex].cells, b[curIndex])
    BY <1>b, <1>w, <2>1 DEF Opened, Working, Tip
  <2>3. CASE ~rotates
    <3>1. UNCHANGED <<disk, curIndex>> BY <1>9, <2>3 DEF Return
    <3>2. Segments' = Segments BY <3>1 DEF Segments
    <3>3. IsLast(curIndex)' BY <2>2, <3>1, <3>2 DEF IsLast
    <3>4. Opened(b)' BY <2>1, <2>2, <3>1, <3>3 DEF Opened, Scanning, Working
    <3> QED BY <1>r, <2>1, <3>1, <3>2, <3>4
  <2>4. CASE rotates
    <3>1. PICK y \in Nat : y = curIndex + 1 BY <2>2
    <3>2. y \notin Segments /\ disk' = WithSegment(y, EmptySegment) /\ curIndex' = y
      BY <1>9, <2>4, <3>1 DEF Return
    <3>3. PICK c \in [Nat -> Entries] : c = [b EXCEPT ![y] = End(disk[curIndex].cells, b[curIndex])]
      BY <2>2, <1>e, ReachTyped
    <3>4. /\ Segments' = Segments \cup {y} /\ disk'[y] = EmptySegment
          /\ \A i \in Segments : disk'[i] = disk[i] /\ c[i] = b[i] /\ i <= curIndex
      BY <1>s, <2>2, <3>2, <3>3 DEF WithSegment, Segments, IsLast
    <3>5. Chained(disk', c, curIndex)
      <4>1. \A i \in Nat : i <= curIndex => c[i] = b[i] /\ (i \in Segments' <=> i \in Segments)
        BY <2>2, <3>1, <3>3, <3>4
      <4>2. \A i \in Segments : i < curIndex => disk'[i].cells = disk[i].cells BY <3>4
      <4> QED BY <1>t, <1>v, <2>2, <4>1, <4>2, ChainedFrame DEF Segments
    <3>6. Neighbours(disk', curIndex, y)
      <4>1. \A k \in Segments' : ~(curIndex < k /\ k < y) BY <1>s, <2>2, <3>1, <3>4
      <4> QED BY <2>2, <3>1, <4>1 DEF Neighbours, Segments
    <3>7. Whole(disk'[curIndex].cells, c[curIndex]) /\ c[y] = End(disk'[curIndex].cells, c[curIndex])
      BY <2>2, <3>3, <3>4, SolidWhole
    <3>8. Chained(disk', c, y)
      <4>1. curIndex \in DOMAIN disk' /\ y \in DOMAIN disk' BY <2>2, <3>4 DEF Segments
      <4> QED BY <1>v, <3>5, <3>6, <3>7, <4>1, ChainedOn
    <3>9. Solid(disk'[y].cells, c[y]) /\ Tip' = End(disk'[y].cells, c[y])
      <4>1. c[y] \in Entries /\ c[y] = Tip' BY <2>2, <3>1, <3>3
      <4>2. disk'[y].cells = <<>> BY <3>4 DEF EmptySegment
      <4> QED BY <4>1, <4>2, NothingSolid
    <3>10. IsLast(curIndex)'
      <4>1. \A k \in Segments' : k <= y BY <1>s, <2>2, <3>1, <3>4
      <4> QED BY <3>2, <3>4, <4>1 DEF IsLast
    <3>11. Opened(c)' BY <2>1, <3>2, <3>8, <3>9, <3>10 DEF Opened, Scanning, Working
    <3>12. \A j \in Segments' : j \in Segments \/ \A k \in Segments : k < j
      BY <1>s, <2>2, <3>1, <3>4
    <3>13. (ReadsOn(c)') BY <1>b, <1>t, <1>v, <2>1, <3>4, <3>12, ReadsFrame
    <3> QED BY <3>11, <3>13
  <2> QED BY <2>3, <2>4
<1>10. CASE Close \/ Crash \/ PowerLoss
  <2>1. pc' = "down" /\ (ReadsOn(b)')
    BY <1>10, NobodyReads DEF Close, Crash, PowerLoss, NoMemory, IdleReader
  <2> QED BY <1>2, <2>1
<1>11. CASE Corrupt BY <1>11, <1>u DEF Corrupt, Fault, Undamaged
<1>12. CASE OpenStart
  <2> DEFINE c == [i \in Nat |-> Start]
  <2>1. /\ pc = "down" /\ pc' = "scan" /\ at' = FirstOf(Segments) /\ Tip' = Start /\ disk' = disk
        /\ reader' = reader
    BY <1>12 DEF OpenStart, Tip, Start
  <2>2. c \in [Nat -> Entries] BY DEF Start, Entries, Genesis
  <2>3. FirstOf(Segments) \in Segments /\ \A k \in Segments : FirstOf(Segments) <= k
    BY <1>s, <1>t, FirstOfCorrect DEF WellShaped, Segments
  <2>4. FirstOf(Segments) \in Nat /\ c[FirstOf(Segments)] = Start BY <1>s, <2>3
  <2>5. Chained(disk, c, FirstOf(Segments))
    <3> DEFINE first == FirstOf(Segments)
    <3>0. first \in Nat /\ (\A i \in Segments : i \in Nat /\ first <= i) BY <1>s, <2>3, <2>4
    <3> HIDE DEF first
    <3>1. \A i \in Segments : ~(i < first) BY <3>0
    <3>2. \A i, j \in Segments : ~(j <= first /\ i < j) BY <3>0
    <3> USE DEF first
    <3> QED BY <2>4, <3>1, <3>2 DEF Chained, Neighbours, Segments
  <2> HIDE DEF c
  <2>6. Opened(c)' BY <2>1, <2>4, <2>5 DEF Opened, Scanning, Working
  <2>7. (ReadsOn(c)') BY <1>i, <2>1 DEF Serving
  <2> QED BY <2>2, <2>6, <2>7
<1>a. pc \in Scanning => /\ at \in Segments /\ at \in Nat /\ disk[at].cells \in Seq(Cells)
                         /\ b[at] \in Entries /\ Chained(disk, b, at)
  BY <1>b, <1>f, <1>t DEF Placed, Opened
<1>13. CASE ScanSegment
  <2> DEFINE cells == disk[at].cells
  <2>1. /\ pc = "scan" /\ disk' = disk /\ reader' = reader
        /\ nextSeq' = nextSeq + ChainLength(cells, nextSeq, head)
        /\ head' = HeadAfter(cells, ChainLength(cells, nextSeq, head), head)
        /\ IF ~WholeUpTo(cells, ChainLength(cells, nextSeq, head))
             THEN pc' = "quarantine" /\ good' = ChainLength(cells, nextSeq, head) /\ UNCHANGED at
             ELSE /\ UNCHANGED good
                  /\ IF After(at) = {} THEN pc' = "position" /\ UNCHANGED at
                                       ELSE pc' = "scan" /\ at' = FirstOf(After(at))
    BY <1>13 DEF ScanSegment
  <2>2. /\ at \in Segments /\ at \in Nat /\ cells \in Seq(Cells) /\ b[at] \in Entries
        /\ Chained(disk, b, at)
    BY <1>a, <2>1 DEF Scanning
  <2>3. b[at].seq = nextSeq /\ b[at].head = head BY <1>b, <2>1 DEF Opened, Tip
  <2>4. Reach(cells, b[at]) = ChainLength(cells, nextSeq, head) BY <2>3 DEF Reach
  <2>5. Tip' = End(cells, b[at]) BY <2>1, <2>3, <2>4 DEF Tip, End
  <2>6. \A c : (ReadsOn(c)') BY <1>i, <2>1 DEF Serving
  <2>7. CASE ~WholeUpTo(cells, ChainLength(cells, nextSeq, head))
    <3>1. Opened(b)' BY <2>1, <2>2, <2>4, <2>5, <2>7 DEF Opened, Scanning, Working
    <3> QED BY <2>6, <3>1
  <2>8. CASE WholeUpTo(cells, ChainLength(cells, nextSeq, head)) /\ After(at) = {}
    <3>1. Whole(cells, b[at]) BY <2>4, <2>8 DEF Whole
    <3>2. IsLast(at) BY <1>s, <2>2, <2>8 DEF IsLast, After
    <3>3. IsLast(at)' BY <2>1, <2>8, <3>2 DEF IsLast, Segments
    <3>4. Opened(b)' BY <2>1, <2>2, <2>5, <2>8, <3>1, <3>3 DEF Opened, Scanning, Working
    <3> QED BY <2>6, <3>4
  <2>9. CASE WholeUpTo(cells, ChainLength(cells, nextSeq, head)) /\ After(at) # {}
    <3>1. After(at) \in SUBSET Nat BY <1>s DEF After
    <3>2. PICK y \in Nat : y = FirstOf(After(at)) BY <2>9, <3>1, FirstOfCorrect
    <3>3. y \in Segments /\ at < y /\ (\A k \in Segments : k > at => y <= k)
      BY <1>s, <2>2, <2>9, <3>1, <3>2, FirstOfCorrect DEF After
    <3>4. PICK c \in [Nat -> Entries] : c = [b EXCEPT ![y] = End(cells, b[at])]
      BY <2>2, ReachTyped
    <3>5. Chained(disk, c, at)
      <4>1. \A i \in Nat : i <= at => c[i] = b[i] BY <2>2, <3>3, <3>4
      <4> QED BY <1>t, <2>2, <4>1, ChainedFrame DEF Segments
    <3>6. Neighbours(disk, at, y) BY <1>s, <2>2, <3>3 DEF Neighbours, Segments
    <3>7. c[at] = b[at] /\ c[y] = End(cells, b[at]) BY <2>2, <3>3, <3>4
    <3>8. Whole(cells, b[at]) BY <2>4, <2>9 DEF Whole
    <3>9. Chained(disk, c, y)
      BY <1>t, <2>2, <3>3, <3>5, <3>6, <3>7, <3>8, ChainedOn DEF Segments
    <3>10. pc' = "scan" /\ at' = y BY <2>1, <2>9, <3>2
    <3>11. Opened(c)' BY <2>1, <2>5, <3>7, <3>9, <3>10 DEF Opened, Scanning, Working
    <3> QED BY <2>6, <3>11
  <2> QED BY <2>7, <2>8, <2>9
<1>14. CASE CopyTail
  <2>1. UNCHANGED <<disk, nextSeq, head, at, good, reader>> /\ pc = "quarantine" /\ pc' = "truncate"
    BY <1>14 DEF CopyTail
  <2>2. Opened(b)' BY <1>b, <2>1 DEF Opened, Scanning, Working, Tip
  <2> QED BY <1>i, <2>1, <2>2 DEF Serving
<1>15. CASE TruncateTail
  <2> DEFINE cells == disk[at].cells
             kept == SubSeq(cells, 1, good)
  <2>1. /\ UNCHANGED <<nextSeq, head, at, reader>> /\ pc = "truncate" /\ pc' = "rename"
        /\ disk' = [disk EXCEPT ![at] = Resized(disk[at], kept)]
    BY <1>15 DEF TruncateTail
  <2>2. /\ at \in Segments /\ at \in Nat /\ cells \in Seq(Cells) /\ b[at] \in Entries
        /\ Chained(disk, b, at) /\ disk[at] \in SegmentFiles
    BY <1>a, <1>t, <2>1, FileAt DEF Scanning
  <2>3. good = Reach(cells, b[at]) /\ Tip = End(cells, b[at]) BY <1>b, <2>1 DEF Opened
  <2>4. good \in 0..Len(cells) /\ good \in 0..Reach(cells, b[at]) BY <2>2, <2>3, ReachTyped
  <2>5. kept \in Seq(Cells) BY <2>2, <2>4, PrefixSize
  <2>6. Solid(kept, b[at]) /\ End(kept, b[at]) = End(cells, b[at])
    BY <2>2, <2>3, <2>4, PrefixSolid DEF End
  <2>7. Whole(kept, b[at]) BY <2>5, <2>6, SolidWhole
  <2> HIDE DEF kept
  <2>8. Resized(disk[at], kept).cells = kept BY <2>2, <2>5, ResizedTyped
  <2> HIDE DEF cells
  <2>9. /\ Segments' = Segments /\ disk'[at].cells = kept
        /\ \A i \in Segments : i # at => disk'[i].cells = disk[i].cells
    BY <2>1, <2>2, <2>8 DEF Segments
  <2>10. Chained(disk', b, at)
    <3>1. \A i \in Segments : i < at => i # at BY <1>s, <2>2
    <3>2. \A i \in Segments : i < at => disk'[i].cells = disk[i].cells BY <2>9, <3>1
    <3> QED BY <1>t, <1>v, <2>2, <2>9, <3>2, ChainedFrame DEF Segments
  <2>11. disk'[at'].cells = kept /\ Tip' = Tip BY <2>1, <2>9 DEF Tip
  <2>12. Opened(b)' BY <2>1, <2>3, <2>6, <2>7, <2>10, <2>11 DEF Opened, Scanning, Working
  <2> QED BY <1>i, <2>1, <2>12 DEF Serving
<1>16. CASE RenameSegment
  <2>1. /\ UNCHANGED <<nextSeq, head, at, reader, pc>> /\ pc = "rename" /\ After(at) # {}
        /\ disk' = Without(FirstOf(After(at)))
    BY <1>16 DEF RenameSegment
  <2>2. at \in Segments /\ at \in Nat /\ Chained(disk, b, at) BY <1>a, <2>1 DEF Scanning
  <2>3. After(at) \in SUBSET Nat BY <1>s DEF After
  <2>4. PICK i \in Nat : i = FirstOf(After(at)) BY <2>1, <2>3, FirstOfCorrect
  <2>5. i \in Segments /\ at < i BY <2>1, <2>2, <2>3, <2>4, FirstOfCorrect DEF After
  <2>6. Segments' = Segments \ {i} /\ \A k \in Segments \ {i} : disk'[k] = disk[k]
    BY <2>1, <2>4 DEF Without, Segments
  <2>7. Chained(disk', b, at)
    <3>1. \A k \in Nat : k <= at => (k \in Segments' <=> k \in Segments) BY <2>2, <2>5, <2>6
    <3>2. \A k \in Segments : k < at => disk'[k].cells = disk[k].cells BY <1>s, <2>2, <2>5, <2>6
    <3> QED BY <1>t, <1>v, <2>2, <3>1, <3>2, ChainedFrame DEF Segments
  <2>8. disk'[at'] = disk[at] /\ Tip' = Tip BY <2>1, <2>2, <2>5, <2>6 DEF Tip
  <2>9. Tip = End(disk[at].cells, b[at]) /\ Whole(disk[at].cells, b[at])
    BY <1>b, <2>1 DEF Opened
  <2>10. Opened(b)' BY <2>1, <2>7, <2>8, <2>9 DEF Opened, Scanning, Working
  <2> QED BY <1>i, <2>1, <2>10 DEF Serving
<1>17. CASE Quarantined
  <2>1. /\ UNCHANGED <<disk, nextSeq, head, at, reader>> /\ pc = "rename" /\ pc' = "position"
        /\ After(at) = {}
    BY <1>17 DEF Quarantined
  <2>2. at \in Segments /\ at \in Nat /\ Chained(disk, b, at) BY <1>a, <2>1 DEF Scanning
  <2>3. IsLast(at) BY <1>s, <2>1, <2>2 DEF IsLast, After
  <2>4. IsLast(at)' BY <2>1, <2>3 DEF IsLast, Segments
  <2>5. Opened(b)' BY <1>b, <2>1, <2>2, <2>4 DEF Opened, Scanning, Working, Tip
  <2> QED BY <1>i, <2>1, <2>5 DEF Serving
<1>18. CASE Position
  <2> DEFINE cells == disk[at].cells
  <2>1. /\ pc = "position" /\ pc' \in {"up", "record"} /\ UNCHANGED <<nextSeq, head, reader>>
    BY <1>18 DEF Position
  <2>2. IsLast(at) /\ Chained(disk, b, at) /\ Whole(cells, b[at]) /\ Tip = End(cells, b[at])
    BY <1>b, <2>1 DEF Opened
  <2>3. at \in Segments /\ at \in Nat /\ cells \in Seq(Cells) /\ b[at] \in Entries
        /\ disk[at] \in SegmentFiles
    BY <1>f, <1>t, <2>2, FileAt DEF IsLast
  <2>4. LastSegment = at
    <3>1. LastSegment \in Segments /\ at <= LastSegment BY <1>t, <2>3, LastSegmentCorrect
    <3>2. LastSegment <= at /\ LastSegment \in Nat BY <1>s, <2>2, <3>1 DEF IsLast
    <3> QED BY <2>3, <3>1, <3>2
  <2>5. Tip' = Tip BY <2>1 DEF Tip
  <2>6. \A c : (ReadsOn(c)') BY <1>i, <2>1 DEF Serving
  <2>7. CASE Size(cells) >= SegSize
    <3>1. PICK y \in Nat : y = at + 1 BY <2>3
    <3>2. disk' = WithSegment(y, EmptySegment) /\ curIndex' = y
      BY <1>18, <2>4, <2>7, <3>1 DEF Position
    <3>3. PICK c \in [Nat -> Entries] : c = [b EXCEPT ![y] = End(cells, b[at])]
      BY <2>3, ReachTyped
    <3>4. y \notin Segments
      <4>1. ~(y <= at) BY <2>3, <3>1
      <4> QED BY <2>2, <4>1 DEF IsLast
    <3>5. /\ Segments' = Segments \cup {y} /\ disk'[y] = EmptySegment
          /\ \A i \in Segments : disk'[i] = disk[i] /\ c[i] = b[i] /\ i <= at
      BY <1>s, <2>2, <3>2, <3>3, <3>4 DEF WithSegment, Segments, IsLast
    <3>6. Chained(disk', c, at)
      <4>1. \A i \in Nat : i <= at => c[i] = b[i] /\ (i \in Segments' <=> i \in Segments)
        BY <2>3, <3>1, <3>3, <3>5
      <4>2. \A i \in Segments : i < at => disk'[i].cells = disk[i].cells BY <3>5
      <4> QED BY <1>t, <1>v, <2>2, <2>3, <4>1, <4>2, ChainedFrame DEF Segments
    <3>7. Neighbours(disk', at, y)
      <4>1. \A k \in Segments' : ~(at < k /\ k < y) BY <1>s, <2>3, <3>1, <3>5
      <4> QED BY <2>3, <3>1, <4>1 DEF Neighbours, Segments
    <3>8. Whole(disk'[at].cells, c[at]) /\ c[y] = End(disk'[at].cells, c[at])
      BY <2>2, <2>3, <3>3, <3>5
    <3>9. Chained(disk', c, y)
      <4>1. at \in DOMAIN disk' /\ y \in DOMAIN disk' BY <2>3, <3>5 DEF Segments
      <4> QED BY <1>v, <3>6, <3>7, <3>8, <4>1, ChainedOn
    <3>10. Solid(disk'[y].cells, c[y]) /\ Tip' = End(disk'[y].cells, c[y])
      <4>1. c[y] \in Entries /\ c[y] = Tip' BY <2>2, <2>5, <3>1, <3>3
      <4>2. disk'[y].cells = <<>> BY <3>5 DEF EmptySegment
      <4> QED BY <4>1, <4>2, NothingSolid
    <3>11. IsLast(curIndex)'
      <4>1. \A k \in Segments : k <= at BY <2>2 DEF IsLast
      <4>2. \A k \in Segments : k <= y BY <1>s, <2>3, <3>1, <4>1
      <4>3. \A k \in Segments' : k <= y BY <3>1, <3>5, <4>2
      <4> QED BY <3>2, <3>5, <4>3 DEF IsLast
    <3>12. Opened(c)' BY <2>1, <3>2, <3>9, <3>10, <3>11 DEF Opened, Scanning, Working
    <3> QED BY <2>6, <3>12
  <2>8. CASE ~(Size(cells) >= SegSize)
    <3>1. disk' = [disk EXCEPT ![at] = Resized(disk[at], Complete(cells))] /\ curIndex' = at
      BY <1>18, <2>4, <2>8 DEF Position
    <3>2. Complete(cells) \in Seq(Cells) BY <2>3, CompleteCorrect, PrefixSize
    <3>3. Solid(Complete(cells), b[at]) /\ End(Complete(cells), b[at]) = End(cells, b[at])
      BY <2>2, <2>3, CompleteSolid
    <3>4. Resized(disk[at], Complete(cells)).cells = Complete(cells) BY <2>3, <3>2, ResizedTyped
    <3>5. /\ Segments' = Segments /\ disk'[at].cells = Complete(cells)
          /\ \A i \in Segments : i # at => disk'[i].cells = disk[i].cells
      BY <2>3, <3>1, <3>4 DEF Segments
    <3>6. Chained(disk', b, at)
      <4>1. \A i \in Segments : i < at => i # at BY <1>s, <2>3
      <4>2. \A i \in Segments : i < at => disk'[i].cells = disk[i].cells BY <3>5, <4>1
      <4> QED BY <1>t, <1>v, <2>2, <2>3, <3>5, <4>2, ChainedFrame DEF Segments
    <3>7. IsLast(curIndex)' BY <2>2, <3>1, <3>5 DEF IsLast
    <3>8. disk'[curIndex'].cells = Complete(cells) BY <3>1, <3>5
    <3> HIDE DEF cells
    <3>9. Opened(b)' BY <2>1, <2>2, <2>5, <3>1, <3>3, <3>6, <3>7, <3>8 DEF Opened, Scanning, Working
    <3> QED BY <2>6, <3>9
  <2> QED BY <2>7, <2>8
\* While readers are about, each segment continues the chain.
<1>g. ASSUME Serving, NEW i \in Segments PROVE Whole(disk[i].cells, b[i])
  <2>1. pc \in Working BY <1>g DEF Serving, Working
  <2>2. CASE i = curIndex BY <1>w, <2>1, <2>2, SolidWhole
  <2>3. CASE i # curIndex
    <3>1. i < curIndex BY <1>w, <1>f, <2>1, <2>3 DEF IsLast
    <3> QED BY <1>w, <2>1, <3>1 DEF Chained, Segments
  <2> QED BY <2>2, <2>3
<1>19. ASSUME NEW r \in Readers, ReaderStep(r) PROVE ReadsOn(b)'
  <2> DEFINE s == reader[r]
             i == FirstOf(s.todo)
  <2>1. /\ reader \in [Readers -> ReaderStates] /\ s \in ReaderStates
        /\ disk' = disk /\ Segments' = Segments /\ ReadsAlong(b, r)
    BY <1>b, <1>t, <1>19, ReadersOnlyRead DEF StructTyped, Segments, ReadsOn
  <2>2. ASSUME NEW q \in Readers, reader'[q] = reader[q] PROVE ReadsAlong(b, q)'
    BY <1>b, <2>1, <2>2 DEF ReadsOn, ReadsAlong, OpenFile
  <2>3. ASSUME \A q \in Readers : q # r => reader'[q] = reader[q], ReadsAlong(b, r)' PROVE ReadsOn(b)'
    BY <2>2, <2>3 DEF ReadsOn
  <2>4. CASE RangeStart(r)
    <3>1. reader' = [reader EXCEPT ![r] = [IdleReader EXCEPT !.pc = "reading", !.todo = Segments]]
          /\ Serving
      BY <2>4 DEF RangeStart
    <3>2. /\ reader'[r].pc = "reading" /\ reader'[r].todo = Segments
          /\ reader'[r].read = 0 /\ reader'[r].part = NoLine
          /\ reader'[r].seq = Start.seq /\ reader'[r].head = Start.head
      BY <2>1, <3>1 DEF IdleReader, Start
    <3>3. b[FirstOf(Segments)] = Start BY <1>w, <3>1 DEF Serving, Working, Chained, Segments
    <3>4. FirstOf(Segments) \in Segments BY <1>t, <1>s, FirstOfCorrect DEF WellShaped, Segments
    <3>5. Start \in Entries BY DEF Start, Entries, Genesis
    <3>6. PICK k \in Segments : k = FirstOf(Segments) BY <3>4
    <3>7. Stands(reader'[r], disk[k].cells, Start) BY <1>f, <3>2, <3>5, StandsAtStart
    <3>8. OpenFile(r)' = disk[k].cells BY <2>1, <3>2, <3>6 DEF OpenFile
    <3>9. ReadsAlong(b, r)' BY <2>1, <3>2, <3>3, <3>6, <3>7, <3>8 DEF ReadsAlong
    <3> QED BY <2>1, <2>3, <3>1, <3>9
  <2>5. CASE RangeEnd(r)
    <3>1. reader' = [reader EXCEPT ![r] = IdleReader] BY <2>5 DEF RangeEnd
    <3>2. reader'[r].pc = "idle" BY <2>1, <3>1 DEF IdleReader
    <3>3. ReadsAlong(b, r)' BY <3>2 DEF ReadsAlong
    <3> QED BY <2>1, <2>3, <3>1, <3>3
  \* Where the reader is.
  <2>6. ASSUME Reading(r)
        PROVE  /\ s.pc = "reading" /\ s.todo # {} /\ i \in Segments /\ Serving
               /\ OpenFile(r) \in Seq(Cells) /\ OpenFile(r) = disk[i].cells /\ b[i] \in Entries
               /\ Whole(OpenFile(r), b[i])
               /\ ~s.cut => Stands(s, OpenFile(r), b[i])
    <3>1. s.pc = "reading" /\ s.todo # {} BY <2>6 DEF Reading
    <3>2. Serving BY <1>t, <3>1 DEF Served
    <3>3. i \in Segments /\ OpenFile(r) \in Seq(Cells) BY <1>t, <3>1, FirstToRead
    <3>4. OpenFile(r) = disk[i].cells BY DEF OpenFile
    <3>5. ~s.cut => Stands(s, OpenFile(r), b[i]) BY <2>1, <3>1 DEF ReadsAlong
    <3> HIDE DEF i, s
    <3> QED BY <1>f, <1>g, <3>1, <3>2, <3>3, <3>4, <3>5
  \* It goes on within the segment.
  <2>7. ASSUME NEW t, reader' = [reader EXCEPT ![r] = t], Reading(r),
               t.pc = "reading", t.todo = s.todo, t.cut = s.cut,
               ~s.cut => Stands(t, OpenFile(r), b[i])
        PROVE  ReadsOn(b)'
    <3>1. reader'[r] = t /\ OpenFile(r)' = OpenFile(r) BY <2>1, <2>7 DEF OpenFile
    <3>2. s.pc = "reading" /\ s.todo # {} BY <2>6, <2>7
    <3>3. ReadsAlong(b, r)' BY <2>1, <2>7, <3>1, <3>2 DEF ReadsAlong
    <3> QED BY <2>1, <2>3, <2>7, <3>3
  <2>8. CASE ReadPart(r)
    <3> DEFINE t == [s EXCEPT !.part = NextCell(r).id]
    <3>1. reader' = [reader EXCEPT ![r] = t] BY <2>8 DEF ReadPart
    <3>2. /\ Reading(r) /\ s.read < Len(OpenFile(r)) /\ IsLine(OpenFile(r)[s.read + 1])
          /\ s.part = NoLine /\ NextCell(r) = OpenFile(r)[s.read + 1]
      BY <2>8 DEF ReadPart, Unread, NextCell
    <3>3. ~s.cut => Stands(t, OpenFile(r), b[i]) BY <2>1, <2>6, <3>2, NextPart
    <3>4. t.pc = s.pc /\ t.todo = s.todo /\ t.cut = s.cut BY <2>1 DEF ReaderStates
    <3> HIDE DEF t
    <3> QED BY <2>6, <2>7, <3>1, <3>2, <3>3, <3>4
  <2>9. CASE ReadPiece(r)
    <3> DEFINE t == [s EXCEPT !.part = Genesis, !.read = @ + 1]
    <3>1. reader' = [reader EXCEPT ![r] = t] BY <2>1, <2>9 DEF ReadPiece
    <3>2. /\ Reading(r) /\ s.read < Len(OpenFile(r)) /\ ~IsLine(OpenFile(r)[s.read + 1])
      BY <2>9 DEF ReadPiece, Unread, NextCell
    <3>3. ~s.cut => Stands(t, OpenFile(r), b[i]) BY <2>1, <2>6, <3>2, NextPiece
    <3>4. t.pc = s.pc /\ t.todo = s.todo /\ t.cut = s.cut BY <2>1 DEF ReaderStates
    <3> HIDE DEF t
    <3> QED BY <2>6, <2>7, <3>1, <3>2, <3>3, <3>4
  <2>10. CASE ReadLine(r)
    <3>1. PICK c : c = NextCell(r) OBVIOUS
    <3> DEFINE verified == s.part = c.id /\ c.ok /\ c.seq = s.seq /\ c.prev = s.head
               t == [s EXCEPT !.read = s.read + 1, !.part = NoLine, !.seq = s.seq + 1, !.head = c.id]
    <3>2. /\ verified => reader' = [reader EXCEPT ![r] = t]
          /\ ~verified => reader' = [reader EXCEPT ![r] = [s EXCEPT !.pc = "alarm"]]
      BY <2>10, <3>1, LineRead
    <3>3. /\ Reading(r) /\ s.read < Len(OpenFile(r)) /\ IsLine(OpenFile(r)[s.read + 1])
          /\ s.part # NoLine /\ c = OpenFile(r)[s.read + 1]
      BY <2>10, <3>1 DEF ReadLine, Unread, NextCell
    <3>4. ~s.cut => verified /\ Stands(t, OpenFile(r), b[i]) BY <2>1, <2>6, <3>3, NextLine
    <3>5. t.pc = s.pc /\ t.todo = s.todo /\ t.cut = s.cut BY <2>1 DEF ReaderStates
    <3> HIDE DEF t
    <3>6. CASE verified BY <2>6, <2>7, <3>2, <3>3, <3>4, <3>5, <3>6
    <3>7. CASE ~verified
      <4>1. s.cut BY <3>4, <3>7
      <4>2. reader'[r].pc = "alarm" /\ reader'[r].cut
        BY <2>1, <3>2, <3>7, <4>1 DEF ReaderStates
      <4>3. ReadsAlong(b, r)' BY <4>2 DEF ReadsAlong
      <4> QED BY <2>1, <2>3, <3>2, <4>3
    <3> QED BY <3>6, <3>7
  <2>11. CASE ReadEnd(r)
    <3>1. /\ reader' = [reader EXCEPT ![r].todo = @ \ {FirstOf(@)}, ![r].read = 0, ![r].part = NoLine]
          /\ Reading(r) /\ AtEnd(r)
      BY <2>11 DEF ReadEnd
    <3>2. /\ reader'[r].pc = s.pc /\ reader'[r].todo = s.todo \ {i} /\ reader'[r].cut = s.cut
          /\ reader'[r].read = 0 /\ reader'[r].part = NoLine
          /\ reader'[r].seq = s.seq /\ reader'[r].head = s.head
      BY <2>1, <3>1 DEF ReaderStates
    <3>3. /\ i \in s.todo /\ i \in Nat /\ s.todo \in SUBSET Nat /\ s.todo \subseteq Segments
          /\ \A k \in s.todo : i <= k
      BY <1>t, <2>6, <3>1, FirstToRead
    <3> DEFINE rest == s.todo \ {i}
    <3>4. ASSUME ~s.cut, rest # {} PROVE Stands(reader'[r], OpenFile(r)', b[FirstOf(rest)])
      <4>1. rest \in SUBSET Nat BY <3>3
      <4>2. PICK j \in rest : j = FirstOf(rest) /\ \A m \in rest : j <= m
        BY <3>4, <4>1, FirstOfCorrect
      <4>3. j \in Nat /\ i < j /\ j \in Segments /\ j \in s.todo
        <5>1. j \in s.todo /\ j # i BY <4>2
        <5>2. j \in Nat /\ i <= j /\ j \in Segments BY <3>3, <5>1
        <5> QED BY <3>3, <5>1, <5>2
      <4>4. \A m \in Segments : ~(i < m /\ m < j)
        <5> SUFFICES ASSUME NEW m \in Segments, i < m, m < j PROVE FALSE OBVIOUS
        <5>1. m \in s.todo BY <2>1, <2>6, <3>1, <3>3, <3>4, <4>3 DEF ReadsAlong
        <5>2. m \in Nat /\ m # i BY <1>s, <3>3
        <5>3. j <= m BY <4>2, <5>1, <5>2
        <5> QED BY <4>3, <5>2, <5>3
      <4>5. Neighbours(disk, i, j) BY <4>3, <4>4 DEF Neighbours, Segments
      <4>6. pc \in Working /\ i \in Segments BY <2>6, <3>1 DEF Serving, Working
      <4>7. Chained(disk, b, curIndex) /\ j <= curIndex /\ curIndex \in Nat BY <1>w, <4>3, <4>6 DEF IsLast
      <4>8. b[j] = End(disk[i].cells, b[i])
        BY <4>3, <4>5, <4>6, <4>7 DEF Chained, Segments
      <4>9. i # curIndex BY <3>3, <4>3, <4>7
      <4>10. s.read >= Len(OpenFile(r)) BY <3>1, <4>9 DEF AtEnd
      <4>11. s.seq = b[j].seq /\ s.head = b[j].head
        BY <2>1, <2>6, <3>1, <3>4, <4>8, <4>10, EndRead
      <4>12. OpenFile(r)' = disk[j].cells BY <2>1, <3>2, <4>2 DEF OpenFile
      <4>13. disk[j].cells \in Seq(Cells) /\ b[j] \in Entries BY <1>f, <4>3
      <4>14. Stands(reader'[r], disk[j].cells, b[j]) BY <3>2, <4>11, <4>13, StandsAtStart
      <4> HIDE DEF rest
      <4> QED BY <4>2, <4>12, <4>14
    <3>5. ASSUME ~s.cut, NEW l \in rest, NEW m \in rest, NEW j \in Segments', l < j, j < m
          PROVE  j \in rest
      <4>1. j \in s.todo BY <2>1, <2>6, <3>1, <3>5 DEF ReadsAlong
      <4>2. i <= l /\ l \in Nat /\ j \in Nat BY <1>s, <2>1, <3>3, <3>5
      <4> QED BY <3>3, <3>5, <4>1, <4>2
    <3>6. s.pc = "reading" BY <2>6, <3>1
    <3>7. ReadsAlong(b, r)' BY <3>2, <3>4, <3>5, <3>6 DEF ReadsAlong
    <3> QED BY <2>1, <2>3, <3>1, <3>7
  <2> QED BY <1>19, <2>4, <2>5, <2>8, <2>9, <2>10, <2>11 DEF ReaderStep
<1>20. ASSUME NEW r \in Readers, ReaderStep(r)
       PROVE  \E c \in [Nat -> Entries] : (Opened(c)' /\ ReadsOn(c)')
  BY <1>1, <1>19, <1>20, ReadersOnlyRead
<1>21. CASE UNCHANGED journal
  <2>1. Opened(b)' BY <1>1, <1>21 DEF journal
  <2>2. reader' = reader /\ disk' = disk /\ Segments' = Segments BY <1>21 DEF journal, Segments
  <2> QED BY <1>r, <2>1, <2>2
<1> QED
  BY <1>4, <1>5, <1>6, <1>7, <1>8, <1>9, <1>10, <1>11, <1>12, <1>13, <1>14, <1>15, <1>16,
     <1>17, <1>18, <1>20, <1>21
  DEF JournalNext, AppendStep, OpenStep, Environment, ReturnRotating, ReturnFull, ReturnRoom

\* A reader raises an alarm only if a failed fsync cut off bytes it had read:
\* for any other, what it has read, chunk by chunk, and what it reads next
\* are one chain, whatever is appended, rotated or cut back meanwhile.
THEOREM RangeAlwaysContiguous == JournalSpec => []RangeContiguous
<1>1. JournalInit => OneChain
  <2> SUFFICES ASSUME JournalInit PROVE \E b \in [Nat -> Entries] : Opened(b) /\ ReadsOn(b)
    BY DEF OneChain
  <2> DEFINE b == [i \in Nat |-> Start]
  <2>1. b \in [Nat -> Entries] /\ b[1] = Start /\ Start \in Entries BY DEF Start, Entries, Genesis
  <2>2. Segments = {1} /\ disk[1].cells = <<>> /\ DOMAIN disk = {1}
    BY DEF JournalInit, Segments, EmptySegment
  <2> HIDE DEF b
  <2>3. FirstOf({1}) = 1
    <3>1. FirstOf({1}) \in {1} BY FirstOfCorrect
    <3> QED BY <3>1
  <2>4. Chained(disk, b, 1) BY <2>1, <2>2, <2>3 DEF Chained, Neighbours
  <2>5. Solid(<<>>, b[1]) /\ End(<<>>, b[1]) = Start BY <2>1, NothingSolid
  <2>6. IsLast(1) BY <2>2 DEF IsLast
  <2>7. pc = "up" /\ curIndex = 1 /\ Tip = Start BY DEF JournalInit, Tip, Start
  <2>8. Opened(b) BY <2>2, <2>4, <2>5, <2>6, <2>7 DEF Opened, Scanning, Working
  <2>9. ReadsOn(b) BY DEF JournalInit, IdleReader, ReadsOn, ReadsAlong
  <2> QED BY <2>1, <2>8, <2>9
<1>2. OneChain => RangeContiguous BY DEF OneChain, Undamaged, RangeContiguous, ReadsOn, ReadsAlong
<1> QED BY <1>1, <1>2, LedgerInitially, LedgerInductive, OneChainStep, PTL DEF JournalSpec
=============================================================================
