------------------------------ MODULE Approval ------------------------------
(***************************************************************************)
(* kernel/approval: Submit registers a request and blocks on its done      *)
(* channel, its timer and its context; operators call Resolve from other   *)
(* goroutines.  Publishing is a step of its own: it fsyncs the journal,    *)
(* and everybody else runs meanwhile.                                      *)
(***************************************************************************)
EXTENDS Integers, Sequences, FiniteSets, Functions

CONSTANTS
  Requests,    \* calls to Submit
  Operators    \* goroutines that call Resolve

ASSUME ApprovalAssumption == IsFiniteSet(Requests) /\ IsFiniteSet(Operators)

VARIABLES
  place,       \* request -> where its Submit stands
  pending,     \* the entries of the registry: ids of the pending requests
  done,        \* request -> its done channel (capacity 1)
  outcome,     \* request -> the Outcome.Decision Submit decided on
  call,        \* operator -> its Resolve call
  accepted,    \* request -> decisions of the Resolve calls that returned nil
  dropped,     \* request -> accepted decisions the channel had no room for
  journal,     \* approval.* events, in order
  unjournaled  \* requests with an event the bus refused (history)

log == <<journal, unjournaled>>
approval == <<place, pending, done, outcome, call, accepted, dropped, log>>

Verdicts == {"grant", "deny"}
Outcomes == Verdicts \cup {"timeout", "cancel"}
Undecided == "undecided"
NoCall == [pc |-> "idle", id |-> "none", decision |-> "none"]
Requested(id) == [id |-> id, kind |-> "approval.requested", decision |-> "none"]

\* The event kind of an outcome: a cancellation is journaled as a denial.
Resolved(id, o) ==
  [id |-> id, decision |-> o,
   kind |-> CASE o = "grant" -> "approval.granted"
              [] o \in {"deny", "cancel"} -> "approval.denied"
              [] o = "timeout" -> "approval.timeout"]

ApprovalInit ==
  /\ place = [id \in Requests |-> "new"]
  /\ pending = {}
  /\ done = [id \in Requests |-> <<>>]
  /\ outcome = [id \in Requests |-> Undecided]
  /\ call = [o \in Operators |-> NoCall]
  /\ accepted = [id \in Requests |-> <<>>]
  /\ dropped = [id \in Requests |-> <<>>]
  /\ journal = <<>> /\ unjournaled = {}
--------------------------------------------------------------------------
\* Submit.

MoveTo(id, s) == place' = [place EXCEPT ![id] = s]

\* The event is durable, or the bus returns an error that is ignored.
PublishEvent(e) ==
  \/ journal' = Append(journal, e) /\ UNCHANGED unjournaled
  \/ unjournaled' = unjournaled \cup {e.id} /\ UNCHANGED journal

Register(id) ==
  /\ place[id] = "new"
  /\ pending' = pending \cup {id}
  /\ MoveTo(id, "registered")
  /\ UNCHANGED <<done, outcome, call, accepted, dropped, log>>

\* The publication returns; the timer starts.
PublishRequested(id) ==
  /\ place[id] = "registered"
  /\ PublishEvent(Requested(id))
  /\ MoveTo(id, "waiting")
  /\ UNCHANGED <<pending, done, outcome, call, accepted, dropped>>

\* The select picks any branch that is ready: the channel, ...
TakeDone(id) ==
  /\ place[id] = "waiting" /\ done[id] # <<>>
  /\ outcome' = [outcome EXCEPT ![id] = Head(done[id])]
  /\ done' = [done EXCEPT ![id] = Tail(@)]
  /\ MoveTo(id, "decided")
  /\ UNCHANGED <<pending, call, accepted, dropped, log>>

\* Mutant: a cancelled wait is not journaled.
GiveUpSilently(id) ==
  /\ place[id] = "waiting"
  /\ \E o \in {"timeout", "cancel"} :
       /\ outcome' = [outcome EXCEPT ![id] = o]
       /\ MoveTo(id, IF o = "cancel" THEN "journaled" ELSE "decided")
  /\ UNCHANGED <<pending, done, call, accepted, dropped, log>>

\* ... the timer, or the context.
GiveUp(id) ==
  /\ place[id] = "waiting"
  /\ \E o \in {"timeout", "cancel"} : outcome' = [outcome EXCEPT ![id] = o]
  /\ MoveTo(id, "decided")
  /\ UNCHANGED <<pending, done, call, accepted, dropped, log>>

PublishResolved(id) ==
  /\ place[id] = "decided"
  /\ PublishEvent(Resolved(id, outcome[id]))
  /\ MoveTo(id, "journaled")
  /\ UNCHANGED <<pending, done, outcome, call, accepted, dropped>>

\* The deferred detach, then Submit returns the outcome.
Detach(id) ==
  /\ place[id] = "journaled"
  /\ pending' = pending \ {id}
  /\ MoveTo(id, "returned")
  /\ UNCHANGED <<done, outcome, call, accepted, dropped, log>>
--------------------------------------------------------------------------
\* Resolve.  An unknown id returns ErrUnknownApproval and changes nothing.

\* Mutant: Resolve leaves the entry for detach to remove.
ClaimKeepingEntry(o, id, decision) ==
  /\ call[o].pc = "idle"
  /\ id \in pending
  /\ call' = [call EXCEPT ![o] = [pc |-> "sending", id |-> id, decision |-> decision]]
  /\ UNCHANGED <<place, pending, done, outcome, accepted, dropped, log>>

Claim(o, id, decision) ==
  /\ call[o].pc = "idle"
  /\ id \in pending
  /\ pending' = pending \ {id}
  /\ call' = [call EXCEPT ![o] = [pc |-> "sending", id |-> id, decision |-> decision]]
  /\ UNCHANGED <<place, done, outcome, accepted, dropped, log>>

\* Mutant: the channel is not buffered, and nobody receives from it yet.
SendUnbuffered(o) ==
  /\ call[o].pc = "sending"
  /\ LET id == call[o].id
         d == call[o].decision
     IN /\ IF place[id] = "waiting"
             THEN done' = [done EXCEPT ![id] = <<d>>] /\ UNCHANGED dropped
             ELSE dropped' = [dropped EXCEPT ![id] = Append(@, d)] /\ UNCHANGED done
        /\ accepted' = [accepted EXCEPT ![id] = Append(@, d)]
  /\ call' = [call EXCEPT ![o] = NoCall]
  /\ UNCHANGED <<place, pending, outcome, log>>

\* A non-blocking send on the channel of capacity one; nil is returned
\* either way.
SendDecision(o) ==
  /\ call[o].pc = "sending"
  /\ LET id == call[o].id
         d == call[o].decision
     IN /\ IF done[id] = <<>>
             THEN done' = [done EXCEPT ![id] = <<d>>] /\ UNCHANGED dropped
             ELSE dropped' = [dropped EXCEPT ![id] = Append(@, d)] /\ UNCHANGED done
        /\ accepted' = [accepted EXCEPT ![id] = Append(@, d)]
  /\ call' = [call EXCEPT ![o] = NoCall]
  /\ UNCHANGED <<place, pending, outcome, log>>
--------------------------------------------------------------------------
Submit(id) == \/ Register(id) \/ PublishRequested(id) \/ TakeDone(id)
              \/ GiveUp(id) \/ PublishResolved(id) \/ Detach(id)
Resolve(o) == \/ \E id \in Requests, d \in Verdicts : Claim(o, id, d)
              \/ SendDecision(o)
AllReturned == /\ \A id \in Requests : place[id] = "returned"
        /\ \A o \in Operators : call[o].pc = "idle"
        /\ UNCHANGED approval

ApprovalNext == \/ \E id \in Requests : Submit(id)
        \/ \E o \in Operators : Resolve(o)
        \/ AllReturned

ApprovalSpec == ApprovalInit /\ [][ApprovalNext]_approval

\* A Submit in progress runs on and takes what is on its channel, and a
\* Resolve in progress runs on.  The timer and the context owe nothing.
Underway(id) == PublishRequested(id) \/ TakeDone(id) \/ PublishResolved(id) \/ Detach(id)
FairApproval ==
  /\ ApprovalSpec
  /\ \A id \in Requests : WF_approval(Underway(id))
  /\ \A o \in Operators : WF_approval(SendDecision(o))
--------------------------------------------------------------------------
ApprovalEvents == [id : Requests, decision : Outcomes \cup {"none"},
           kind : {"approval.requested", "approval.granted",
                   "approval.denied", "approval.timeout"}]
ApprovalTypeOK ==
  /\ place \in [Requests -> {"new", "registered", "waiting", "decided",
                             "journaled", "returned"}]
  /\ pending \subseteq Requests
  /\ done \in [Requests -> Seq(Verdicts)]
  /\ outcome \in [Requests -> Outcomes \cup {Undecided}]
  /\ call \in [Operators ->
       {NoCall} \cup [pc : {"sending"}, id : Requests, decision : Verdicts]]
  /\ accepted \in [Requests -> Seq(Verdicts)]
  /\ dropped \in [Requests -> Seq(Verdicts)]
  /\ journal \in Seq(ApprovalEvents)
  /\ unjournaled \subseteq Requests

\* Several operators may race to decide one request: at most one is told it
\* succeeded, and the waiter never acts on another decision than that one.
OneDecider ==
  \A id \in Requests :
    /\ Len(accepted[id])
         + Cardinality({o \in Operators : call[o].pc = "sending" /\ call[o].id = id}) <= 1
    /\ outcome[id] \in Verdicts => accepted[id] = <<outcome[id]>>

\* The capacity of one is enough: a decision Resolve accepted always fits in
\* the channel.
DecisionFits == \A id \in Requests : dropped[id] = <<>>

\* When Submit returns, the trace of the request is in the journal: asked,
\* then answered once, with the decision the waiter acts on.  In particular
\* a tool released by a grant runs after approval.granted is durable.  Only
\* a publication that failed, an error Submit ignores, leaves a hole.
Trail(id) == {k \in DOMAIN journal : journal[k].id = id}
AuditedBeforeReturn ==
  \A id \in Requests :
    place[id] = "returned" /\ id \notin unjournaled =>
      \E i, j \in DOMAIN journal :
        /\ i < j /\ Trail(id) = {i, j}
        /\ journal[i] = Requested(id) /\ journal[j] = Resolved(id, outcome[id])

\* Pending never lists a request whose Submit has returned, in whatever order
\* the detach, the claim of an operator and the verdict come.
PendingIsLive == \A id \in pending : place[id] \notin {"new", "returned"}

\* The decision of an operator who has taken the entry is not lost: nobody
\* else can decide the request any more, and its Submit returns with no help
\* of the timer, also when it was still publishing (approval_methods.go:50-64,
\* 86-105).
DecisionArrives ==
  \A id \in Requests : (\E o \in Operators : call[o].id = id) ~> place[id] = "returned"

\* "ErrUnknownApproval is returned by Resolve for an ID that has no pending
\* entry (... already resolved, or expired)": an operator who was told nil
\* decided the request.
NilMeansDecided ==
  \A id \in Requests :
    place[id] = "returned" /\ accepted[id] # <<>> => outcome[id] = accepted[id][1]
==========================================================================
