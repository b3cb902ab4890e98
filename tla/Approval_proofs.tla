-------------------------- MODULE Approval_proofs --------------------------
(***************************************************************************)
(* Theorems about kernel/approval, for any finite number of requests and   *)
(* of operators: types, one accepted decision per request, room for it in  *)
(* the channel, no request left pending after its Submit returned, and a   *)
(* complete trail in the journal.                                          *)
(***************************************************************************)
EXTENDS Approval, FiniteSetTheorems, TLAPS

\* A Submit past its select has an outcome to publish.
Decided ==
  \A id \in Requests :
    place[id] \in {"decided", "journaled", "returned"} => outcome[id] \in Outcomes

LEMMA EventTypes ==
  /\ \A id \in Requests : Requested(id) \in ApprovalEvents
  /\ \A id \in Requests, o \in Outcomes : Resolved(id, o) \in ApprovalEvents
  BY DEF Requested, Resolved, ApprovalEvents, Outcomes, Verdicts

LEMMA Publication ==
  ASSUME ApprovalTypeOK, NEW e \in ApprovalEvents, PublishEvent(e)
  PROVE  journal' \in Seq(ApprovalEvents) /\ unjournaled' \subseteq Requests
<1>1. e.id \in Requests BY DEF ApprovalEvents
<1>2. Append(journal, e) \in Seq(ApprovalEvents) BY DEF ApprovalTypeOK
<1> QED BY <1>1, <1>2 DEF ApprovalTypeOK, PublishEvent

\* The types and Decided together are preserved by every step.
LEMMA TypeInductive ==
  /\ ApprovalInit => ApprovalTypeOK /\ Decided
  /\ ApprovalTypeOK /\ Decided /\ [ApprovalNext]_approval => ApprovalTypeOK' /\ Decided'
<1>1. ApprovalInit => ApprovalTypeOK /\ Decided
  BY DEF ApprovalInit, ApprovalTypeOK, Decided
<1>2. ASSUME ApprovalTypeOK, Decided, [ApprovalNext]_approval PROVE ApprovalTypeOK' /\ Decided'
  <2> USE <1>2 DEF Outcomes, Verdicts, Undecided
  <2>1. ASSUME NEW id \in Requests, Register(id) PROVE ApprovalTypeOK' /\ Decided'
    BY <2>1 DEF ApprovalTypeOK, Decided, Register, MoveTo, log
  <2>2. ASSUME NEW id \in Requests, PublishRequested(id) PROVE ApprovalTypeOK' /\ Decided'
    <3>1. journal' \in Seq(ApprovalEvents) /\ unjournaled' \subseteq Requests
      BY <2>2, EventTypes, Publication DEF PublishRequested
    <3> QED BY <2>2, <3>1 DEF ApprovalTypeOK, Decided, PublishRequested, MoveTo
  <2>3. ASSUME NEW id \in Requests, TakeDone(id) PROVE ApprovalTypeOK' /\ Decided'
    <3>1. done[id] \in Seq(Verdicts) /\ done[id] # <<>> BY <2>3 DEF ApprovalTypeOK, TakeDone
    <3>2. Head(done[id]) \in Verdicts /\ Tail(done[id]) \in Seq(Verdicts) BY <3>1
    <3> QED BY <2>3, <3>2 DEF ApprovalTypeOK, Decided, TakeDone, MoveTo, log
  <2>4. ASSUME NEW id \in Requests, GiveUp(id) PROVE ApprovalTypeOK' /\ Decided'
    BY <2>4 DEF ApprovalTypeOK, Decided, GiveUp, MoveTo, log
  <2>5. ASSUME NEW id \in Requests, PublishResolved(id) PROVE ApprovalTypeOK' /\ Decided'
    <3>1. outcome[id] \in Outcomes BY <2>5 DEF Decided, PublishResolved
    <3>2. journal' \in Seq(ApprovalEvents) /\ unjournaled' \subseteq Requests
      BY <2>5, <3>1, EventTypes, Publication DEF PublishResolved
    <3> QED BY <2>5, <3>2 DEF ApprovalTypeOK, Decided, PublishResolved, MoveTo
  <2>6. ASSUME NEW id \in Requests, Detach(id) PROVE ApprovalTypeOK' /\ Decided'
    BY <2>6 DEF ApprovalTypeOK, Decided, Detach, MoveTo, log
  <2>7. ASSUME NEW o \in Operators, NEW id \in Requests, NEW d \in Verdicts, Claim(o, id, d)
        PROVE ApprovalTypeOK' /\ Decided'
    BY <2>7 DEF ApprovalTypeOK, Decided, Claim, log
  <2>8. ASSUME NEW o \in Operators, SendDecision(o) PROVE ApprovalTypeOK' /\ Decided'
    <3>1. call[o] # NoCall BY <2>8 DEF SendDecision, NoCall
    <3>2. call[o].id \in Requests /\ call[o].decision \in Verdicts
      BY <3>1 DEF ApprovalTypeOK
    <3> DEFINE id == call[o].id
               d == call[o].decision
    <3>3. \A s \in Seq(Verdicts) : Append(s, d) \in Seq(Verdicts) BY <3>2
    <3>4. <<d>> \in Seq(Verdicts) BY <3>2
    <3>5. done' \in [Requests -> Seq(Verdicts)] /\ dropped' \in [Requests -> Seq(Verdicts)]
      <4>1. CASE done[id] = <<>>
        BY <2>8, <3>2, <3>4, <4>1 DEF ApprovalTypeOK, SendDecision
      <4>2. CASE done[id] # <<>>
        <5>1. done' = done /\ dropped' = [dropped EXCEPT ![id] = Append(dropped[id], d)]
          BY <2>8, <4>2 DEF SendDecision
        <5>2. Append(dropped[id], d) \in Seq(Verdicts) BY <3>2, <3>3 DEF ApprovalTypeOK
        <5> HIDE DEF id, d
        <5> QED BY <5>1, <5>2 DEF ApprovalTypeOK
      <4> QED BY <4>1, <4>2
    <3>6. accepted' \in [Requests -> Seq(Verdicts)]
      BY <2>8, <3>2, <3>3 DEF ApprovalTypeOK, SendDecision
    <3> QED BY <2>8, <3>5, <3>6 DEF ApprovalTypeOK, Decided, SendDecision, log
  <2>9. CASE UNCHANGED approval
    BY <2>9 DEF ApprovalTypeOK, Decided, approval, log
  <2> QED BY <2>1, <2>2, <2>3, <2>4, <2>5, <2>6, <2>7, <2>8, <2>9
          DEF ApprovalNext, Submit, Resolve, AllReturned
<1> QED BY <1>1, <1>2

\* Types: every variable of the registry keeps its shape through Submit and
\* Resolve.
THEOREM TypeCorrect == ApprovalSpec => []ApprovalTypeOK
  BY TypeInductive, PTL DEF ApprovalSpec

\* Pending lists only requests whose Submit is in progress.
THEOREM PendingAlwaysLive == ApprovalSpec => []PendingIsLive
<1>1. ApprovalInit => PendingIsLive BY DEF ApprovalInit, PendingIsLive
<1>2. ApprovalTypeOK /\ PendingIsLive /\ [ApprovalNext]_approval => PendingIsLive'
  <2> SUFFICES ASSUME ApprovalTypeOK, PendingIsLive, [ApprovalNext]_approval PROVE PendingIsLive' OBVIOUS
  <2>1. ASSUME NEW id \in Requests, Submit(id) PROVE PendingIsLive'
    BY <2>1 DEF Submit, Register, PublishRequested, TakeDone, GiveUp, PublishResolved,
                Detach, MoveTo, PendingIsLive, ApprovalTypeOK
  <2>2. ASSUME NEW o \in Operators, Resolve(o) PROVE PendingIsLive'
    BY <2>2 DEF Resolve, Claim, SendDecision, PendingIsLive
  <2>3. CASE UNCHANGED approval BY <2>3 DEF approval, PendingIsLive
  <2> QED BY <2>1, <2>2, <2>3 DEF ApprovalNext, AllReturned
<1> QED BY <1>1, <1>2, TypeCorrect, PTL DEF ApprovalSpec
-----------------------------------------------------------------------------
\* What the one-decider argument counts: the Resolve calls that have claimed a
\* request and not yet sent, and whether anything was decided.
Senders(id) == {o \in Operators : call[o].pc = "sending" /\ call[o].id = id}
Undecidable(id) == accepted[id] = <<>> /\ done[id] = <<>> /\ outcome[id] \notin Verdicts

\* The decision of a request is in one place at a time: nowhere while its entry
\* is registered, then with the operator that claimed it, then in the channel,
\* then with the waiter.
Placed(id) ==
  /\ id \in pending \/ place[id] = "new" => Undecidable(id) /\ Senders(id) = {}
  /\ \A o, p \in Senders(id) : o = p
  /\ Senders(id) # {} => Undecidable(id)
  /\ done[id] # <<>> => outcome[id] \notin Verdicts /\ accepted[id] = done[id]
  /\ outcome[id] \in Verdicts => accepted[id] = <<outcome[id]>>
  /\ Len(accepted[id]) <= 1
  /\ dropped[id] = <<>>
OnePlace == \A id \in Requests : Placed(id)

\* What a step leaves alone for a request stays in its place.
LEMMA PlacedUnchanged ==
  ASSUME NEW i \in Requests, Placed(i),
         i \in pending' \/ place'[i] = "new" => i \in pending \/ place[i] = "new",
         Senders(i)' = Senders(i),
         accepted'[i] = accepted[i], done'[i] = done[i], dropped'[i] = dropped[i],
         outcome'[i] = outcome[i]
  PROVE  Placed(i)'
  BY DEF Placed, Undecidable

\* OnePlace holds in every state: Claim takes the entry away under the mutex,
\* so a second Resolve finds none, and Register only ever adds a fresh id.
THEOREM DecisionInOnePlace == ApprovalSpec => []OnePlace
<1>1. ApprovalInit => OnePlace
  BY DEF ApprovalInit, OnePlace, Placed, Undecidable, Senders, NoCall, Undecided, Verdicts
<1>2. ApprovalTypeOK /\ PendingIsLive /\ OnePlace /\ [ApprovalNext]_approval => OnePlace'
  <2> SUFFICES ASSUME ApprovalTypeOK, PendingIsLive, OnePlace, [ApprovalNext]_approval, NEW i \in Requests PROVE Placed(i)'
    BY DEF OnePlace
  <2>0. Placed(i) BY DEF OnePlace
  <2>s. call' = call => Senders(i)' = Senders(i) BY DEF Senders
  <2>1. ASSUME NEW id \in Requests, Register(id) PROVE Placed(i)'
    BY <2>0, <2>s, <2>1, PlacedUnchanged DEF Register, MoveTo, ApprovalTypeOK
  <2>2. ASSUME NEW id \in Requests, PublishRequested(id) PROVE Placed(i)'
    BY <2>0, <2>s, <2>2, PlacedUnchanged DEF PublishRequested, MoveTo, ApprovalTypeOK
  <2>3. ASSUME NEW id \in Requests, TakeDone(id) PROVE Placed(i)'
    <3>1. CASE i # id
      BY <2>0, <2>s, <2>3, <3>1, PlacedUnchanged DEF TakeDone, MoveTo, ApprovalTypeOK
    <3>2. CASE i = id
      <4>1. done[i] # <<>> /\ accepted[i] = done[i] /\ Len(done[i]) <= 1
        BY <2>0, <2>3, <3>2 DEF Placed, TakeDone
      <4>2. done[i] \in Seq(Verdicts) BY DEF ApprovalTypeOK
      <4>3. done[i] = <<Head(done[i])>> /\ Tail(done[i]) = <<>> /\ Head(done[i]) \in Verdicts
        BY <4>1, <4>2
      <4>4. Senders(i) = {} /\ i \notin pending
        BY <2>0, <4>1 DEF Placed, Undecidable
      <4>5. /\ outcome'[i] = Head(done[i]) /\ done'[i] = <<>>
            /\ accepted' = accepted /\ dropped' = dropped /\ Senders(i)' = {}
            /\ i \notin pending' /\ place'[i] = "decided"
        BY <2>3, <2>s, <3>2, <4>3, <4>4 DEF TakeDone, MoveTo, ApprovalTypeOK
      <4> QED BY <2>0, <4>1, <4>3, <4>5 DEF Placed
    <3> QED BY <3>1, <3>2
  <2>4. ASSUME NEW id \in Requests, GiveUp(id) PROVE Placed(i)'
    <3>1. CASE i # id
      BY <2>0, <2>s, <2>4, <3>1, PlacedUnchanged DEF GiveUp, MoveTo, ApprovalTypeOK
    <3>2. CASE i = id
      <4>1. /\ outcome'[i] \notin Verdicts /\ place'[i] # "new" /\ pending' = pending
            /\ UNCHANGED <<accepted, done, dropped>> /\ Senders(i)' = Senders(i)
        BY <2>4, <2>s, <3>2 DEF GiveUp, MoveTo, ApprovalTypeOK, Verdicts
      <4> QED BY <2>0, <4>1 DEF Placed, Undecidable
    <3> QED BY <3>1, <3>2
  <2>5. ASSUME NEW id \in Requests, PublishResolved(id) PROVE Placed(i)'
    BY <2>0, <2>s, <2>5, PlacedUnchanged DEF PublishResolved, MoveTo, ApprovalTypeOK
  <2>6. ASSUME NEW id \in Requests, Detach(id) PROVE Placed(i)'
    BY <2>0, <2>s, <2>6, PlacedUnchanged DEF Detach, MoveTo, ApprovalTypeOK
  <2>7. ASSUME NEW o \in Operators, NEW id \in Requests, NEW d \in Verdicts, Claim(o, id, d)
        PROVE Placed(i)'
    <3>1. \A p \in Operators : call'[p] = IF p = o THEN [pc |-> "sending", id |-> id, decision |-> d]
                                          ELSE call[p]
      BY <2>7 DEF Claim, ApprovalTypeOK
    <3>2. call[o].pc = "idle" BY <2>7 DEF Claim
    <3>3. CASE i # id
      <4>1. Senders(i)' = Senders(i) BY <3>1, <3>2, <3>3 DEF Senders
      <4> QED BY <2>0, <2>7, <3>3, <4>1, PlacedUnchanged DEF Claim
    <3>4. CASE i = id
      <4>1. Undecidable(i) /\ Senders(i) = {} /\ dropped[i] = <<>> /\ place[i] # "new"
        <5>1. i \in pending BY <2>7, <3>4 DEF Claim
        <5> QED BY <2>0, <5>1 DEF Placed, PendingIsLive
      <4>2. Senders(i)' = {o} BY <3>1, <3>4, <4>1 DEF Senders
      <4>3. i \notin pending' /\ UNCHANGED <<place, done, outcome, accepted, dropped>>
        BY <2>7, <3>4 DEF Claim
      <4> QED BY <4>1, <4>2, <4>3 DEF Placed, Undecidable
    <3> QED BY <3>3, <3>4
  <2>8. ASSUME NEW o \in Operators, SendDecision(o) PROVE Placed(i)'
    <3>1. call[o].id \in Requests /\ call[o].decision \in Verdicts /\ call[o].pc = "sending"
      BY <2>8 DEF SendDecision, ApprovalTypeOK, NoCall
    <3>2. \A p \in Operators : call'[p] = IF p = o THEN NoCall ELSE call[p]
      BY <2>8 DEF SendDecision, ApprovalTypeOK
    <3>3. CASE i # call[o].id
      <4>1. Senders(i)' = Senders(i) BY <3>1, <3>2, <3>3 DEF Senders, NoCall
      <4>2. /\ accepted'[i] = accepted[i] /\ done'[i] = done[i] /\ dropped'[i] = dropped[i]
            /\ UNCHANGED <<place, pending, outcome>>
        BY <2>8, <3>3 DEF SendDecision, ApprovalTypeOK
      <4> QED BY <2>0, <4>1, <4>2, PlacedUnchanged
    <3>4. CASE i = call[o].id
      <4>1. o \in Senders(i) BY <3>1, <3>4 DEF Senders
      <4>2. Undecidable(i) /\ dropped[i] = <<>> BY <2>0, <4>1 DEF Placed
      <4>3. i \notin pending /\ place[i] # "new" BY <2>0, <4>1 DEF Placed
      <4>4. Senders(i)' = {}
        <5>1. \A p \in Senders(i) : p = o BY <2>0, <4>1 DEF Placed
        <5> QED BY <3>2, <5>1 DEF Senders, NoCall
      <4>5. /\ done'[i] = <<call[o].decision>> /\ accepted'[i] = <<call[o].decision>>
            /\ dropped'[i] = <<>> /\ UNCHANGED <<place, pending, outcome>>
        BY <2>8, <3>4, <4>2 DEF SendDecision, ApprovalTypeOK, Undecidable
      <4> QED BY <4>2, <4>3, <4>4, <4>5 DEF Placed, Undecidable
    <3> QED BY <3>3, <3>4
  <2>9. CASE UNCHANGED approval
    BY <2>0, <2>s, <2>9, PlacedUnchanged DEF approval
  <2> QED BY <2>1, <2>2, <2>3, <2>4, <2>5, <2>6, <2>7, <2>8, <2>9
          DEF ApprovalNext, Submit, Resolve, AllReturned
<1> QED BY <1>1, <1>2, TypeCorrect, PendingAlwaysLive, PTL DEF ApprovalSpec

\* Of the operators racing to decide one request at most one is told it
\* succeeded, and the waiter acts on no other decision.
THEOREM OneDeciderAlways == ApprovalSpec => []OneDecider
<1>1. ApprovalTypeOK /\ OnePlace => OneDecider
  <2> SUFFICES ASSUME ApprovalTypeOK, OnePlace, NEW id \in Requests
               PROVE /\ Len(accepted[id]) + Cardinality(Senders(id)) <= 1
                     /\ outcome[id] \in Verdicts => accepted[id] = <<outcome[id]>>
    BY DEF OneDecider, Senders
  <2>1. Placed(id) BY DEF OnePlace
  <2>2. CASE Senders(id) = {}
    BY <2>1, <2>2, FS_EmptySet DEF Placed
  <2>3. CASE Senders(id) # {}
    <3>1. PICK o \in Senders(id) : Senders(id) = {o} BY <2>1, <2>3 DEF Placed
    <3>2. Cardinality(Senders(id)) = 1 BY <3>1, FS_Singleton
    <3>3. accepted[id] = <<>> BY <2>1, <2>3 DEF Placed, Undecidable
    <3> QED BY <2>1, <3>2, <3>3 DEF Placed
  <2> QED BY <2>2, <2>3
<1> QED BY <1>1, TypeCorrect, DecisionInOnePlace, PTL

\* The send of Resolve always finds room: a capacity of one is enough.
THEOREM DecisionAlwaysFits == ApprovalSpec => []DecisionFits
<1>1. OnePlace => DecisionFits BY DEF OnePlace, Placed, DecisionFits
<1> QED BY <1>1, DecisionInOnePlace, PTL
-----------------------------------------------------------------------------
\* The trail of a request grows with its Submit: nothing before the request is
\* published, then the request, then the verdict the waiter was given.
Asked(id, i) == i \in DOMAIN journal /\ journal[i] = Requested(id)
Answered(id, i, j) ==
  j \in DOMAIN journal /\ i < j /\ journal[j] = Resolved(id, outcome[id])
Traced(id) ==
  /\ place[id] \in {"new", "registered"} => Trail(id) = {}
  /\ place[id] \in {"waiting", "decided"} => \E i \in Nat : Trail(id) = {i} /\ Asked(id, i)
  /\ place[id] \in {"journaled", "returned"} =>
       \E i, j \in Nat : Trail(id) = {i, j} /\ Asked(id, i) /\ Answered(id, i, j)
Audited == \A id \in Requests \ unjournaled : Traced(id)

\* A publication that succeeds adds one position to the trail of its request
\* and leaves every record where it was; one that fails leaves the journal.
LEMMA TrailGrows ==
  ASSUME ApprovalTypeOK, NEW e \in ApprovalEvents, PublishEvent(e)
  PROVE  \/ /\ journal' = journal /\ unjournaled' = unjournaled \cup {e.id}
         \/ \E n \in Nat :
              /\ unjournaled' = unjournaled
              /\ DOMAIN journal = 1..n /\ DOMAIN journal' = 1..(n + 1)
              /\ \A k \in 1..n : journal'[k] = journal[k]
              /\ journal'[n + 1] = e
              /\ \A i : Trail(i)' = IF i = e.id THEN Trail(i) \cup {n + 1} ELSE Trail(i)
<1>1. CASE UNCHANGED journal BY <1>1 DEF PublishEvent
<1>2. CASE journal' = Append(journal, e) /\ UNCHANGED unjournaled
  <2>1. PICK n \in Nat : n = Len(journal) BY DEF ApprovalTypeOK
  <2>2. /\ DOMAIN journal = 1..n /\ DOMAIN journal' = 1..(n + 1)
        /\ \A k \in 1..n : journal'[k] = journal[k]
        /\ journal'[n + 1] = e
    BY <1>2, <2>1 DEF ApprovalTypeOK
  <2>3. ASSUME NEW i PROVE Trail(i)' = IF i = e.id THEN Trail(i) \cup {n + 1} ELSE Trail(i)
    <3>1. \A k \in 1..n : journal'[k].id = i <=> journal[k].id = i BY <2>2
    <3>2. 1..(n + 1) = (1..n) \cup {n + 1} BY <2>1
    <3> QED BY <2>2, <3>1, <3>2 DEF Trail
  <2> QED BY <1>2, <2>2, <2>3
<1> QED BY <1>1, <1>2 DEF PublishEvent

\* A request whose trail, place and outcome a step leaves alone stays traced.
LEMMA TracedUnchanged ==
  ASSUME NEW i \in Requests, Traced(i), journal' = journal, outcome'[i] = outcome[i],
         \/ place'[i] = place[i]
         \/ place[i] = "new" /\ place'[i] = "registered"
         \/ place[i] = "journaled" /\ place'[i] = "returned"
  PROVE  Traced(i)'
  BY DEF Traced, Trail, Asked, Answered

\* A record of another request does not disturb it either.
LEMMA TracedBeside ==
  ASSUME NEW i \in Requests, Traced(i), NEW n \in Nat,
         DOMAIN journal = 1..n, DOMAIN journal' = 1..(n + 1),
         \A k \in 1..n : journal'[k] = journal[k],
         Trail(i)' = Trail(i), outcome'[i] = outcome[i], place'[i] = place[i]
  PROVE  Traced(i)'
<1>1. ASSUME NEW k, Asked(i, k) PROVE Asked(i, k)'
  BY <1>1 DEF Asked, Requested
<1>2. ASSUME NEW k, NEW l, Answered(i, k, l) PROVE Answered(i, k, l)'
  BY <1>2 DEF Answered
<1> QED BY <1>1, <1>2 DEF Traced

\* When Submit returns, the journal has the request and then its verdict, once
\* each, unless a publication failed.
THEOREM AlwaysAuditedBeforeReturn == ApprovalSpec => []AuditedBeforeReturn
<1>1. ApprovalInit => Audited
  BY DEF ApprovalInit, Audited, Traced, Trail
<1>2. ApprovalTypeOK /\ Decided /\ Audited /\ [ApprovalNext]_approval => Audited'
  <2> SUFFICES ASSUME ApprovalTypeOK, Decided, Audited, [ApprovalNext]_approval,
                      NEW i \in Requests, i \notin unjournaled'
               PROVE  Traced(i)'
    BY DEF Audited
  <2>0. i \notin unjournaled => Traced(i) BY DEF Audited
  <2>1. ASSUME NEW id \in Requests, Register(id) PROVE Traced(i)'
    BY <2>0, <2>1, TracedUnchanged DEF Register, MoveTo, ApprovalTypeOK, log
  <2>2. ASSUME NEW id \in Requests, PublishRequested(id) PROVE Traced(i)'
    <3>1. Requested(id) \in ApprovalEvents /\ Requested(id).id = id /\ PublishEvent(Requested(id))
      BY <2>2, EventTypes DEF PublishRequested, Requested
    <3>2. PICK e \in ApprovalEvents : e = Requested(id) BY <3>1
    <3>3. i \notin unjournaled BY <3>1 DEF PublishEvent
    <3>4. CASE journal' = journal
      <4>1. i # id BY <3>1, <3>2, <3>4, TrailGrows
      <4> QED BY <2>0, <2>2, <3>3, <3>4, <4>1, TracedUnchanged DEF PublishRequested, MoveTo, ApprovalTypeOK
    <3>5. CASE journal' # journal
      <4>1. PICK n \in Nat :
              /\ DOMAIN journal = 1..n /\ DOMAIN journal' = 1..(n + 1)
              /\ \A k \in 1..n : journal'[k] = journal[k]
              /\ journal'[n + 1] = e
              /\ Trail(i)' = IF i = e.id THEN Trail(i) \cup {n + 1} ELSE Trail(i)
        BY <3>1, <3>2, <3>5, TrailGrows
      <4>2. CASE i = id
        <5>1. place[i] = "registered" /\ place'[i] = "waiting"
          BY <2>2, <4>2 DEF PublishRequested, MoveTo, ApprovalTypeOK
        <5>2. Trail(i)' = {n + 1}
          BY <2>0, <3>1, <3>2, <3>3, <4>1, <4>2, <5>1 DEF Traced
        <5>3. Asked(i, n + 1)'
          BY <3>2, <4>1, <4>2 DEF Asked, Requested
        <5>4. n + 1 \in Nat OBVIOUS
        <5> QED BY <5>1, <5>2, <5>3, <5>4 DEF Traced
      <4>3. CASE i # id
        <5>1. Trail(i)' = Trail(i) BY <3>1, <3>2, <4>1, <4>3
        <5>2. outcome'[i] = outcome[i] /\ place'[i] = place[i]
          BY <2>2, <4>3 DEF PublishRequested, MoveTo, ApprovalTypeOK
        <5> QED BY <2>0, <3>3, <4>1, <5>1, <5>2, TracedBeside
      <4> QED BY <4>2, <4>3
    <3> QED BY <3>4, <3>5
  <2>3. ASSUME NEW id \in Requests, TakeDone(id) PROVE Traced(i)'
    BY <2>0, <2>3 DEF TakeDone, MoveTo, ApprovalTypeOK, log, Traced, Trail, Asked, Answered
  <2>4. ASSUME NEW id \in Requests, GiveUp(id) PROVE Traced(i)'
    <3>1. CASE i = id
      <4>1. place[i] = "waiting" /\ place'[i] = "decided" /\ UNCHANGED log
        BY <2>4, <3>1 DEF GiveUp, MoveTo, ApprovalTypeOK
      <4>2. \E k \in Nat : Trail(i) = {k} /\ Asked(i, k)
        BY <2>0, <4>1 DEF Traced, log
      <4> QED BY <4>1, <4>2 DEF log, Traced, Trail, Asked
    <3>2. CASE i # id
      BY <2>0, <2>4, <3>2, TracedUnchanged DEF GiveUp, MoveTo, ApprovalTypeOK, log
    <3> QED BY <3>1, <3>2
  <2>5. ASSUME NEW id \in Requests, PublishResolved(id) PROVE Traced(i)'
    <3>0. outcome[id] \in Outcomes BY <2>5 DEF Decided, PublishResolved
    <3>1. /\ Resolved(id, outcome[id]) \in ApprovalEvents /\ Resolved(id, outcome[id]).id = id
          /\ PublishEvent(Resolved(id, outcome[id]))
      BY <2>5, <3>0, EventTypes DEF PublishResolved, Resolved
    <3>2. PICK e \in ApprovalEvents : e = Resolved(id, outcome[id]) BY <3>1
    <3>3. i \notin unjournaled BY <3>1 DEF PublishEvent
    <3>4. CASE journal' = journal
      <4>1. i # id BY <3>1, <3>2, <3>4, TrailGrows
      <4> QED BY <2>0, <2>5, <3>3, <3>4, <4>1, TracedUnchanged DEF PublishResolved, MoveTo, ApprovalTypeOK
    <3>5. CASE journal' # journal
      <4>1. PICK n \in Nat :
              /\ DOMAIN journal = 1..n /\ DOMAIN journal' = 1..(n + 1)
              /\ \A k \in 1..n : journal'[k] = journal[k]
              /\ journal'[n + 1] = e
              /\ Trail(i)' = IF i = e.id THEN Trail(i) \cup {n + 1} ELSE Trail(i)
        BY <3>1, <3>2, <3>5, TrailGrows
      <4>2. CASE i = id
        <5>1. place[i] = "decided" /\ place'[i] = "journaled" /\ outcome' = outcome
          BY <2>5, <4>2 DEF PublishResolved, MoveTo, ApprovalTypeOK
        <5>2. PICK k \in Nat : Trail(i) = {k} /\ Asked(i, k)
          BY <2>0, <3>3, <5>1 DEF Traced
        <5>3. k \in 1..n /\ journal'[k] = Requested(i) BY <4>1, <5>2 DEF Asked
        <5>4. Trail(i)' = {k, n + 1} BY <3>1, <3>2, <4>1, <4>2, <5>2
        <5>5. journal'[n + 1] = Resolved(i, outcome'[i]) BY <3>2, <4>1, <4>2, <5>1
        <5>6. Asked(i, k)' BY <4>1, <5>3 DEF Asked, Requested
        <5>7. Answered(i, k, n + 1)' BY <4>1, <5>3, <5>5 DEF Answered, Resolved
        <5>8. k \in Nat /\ n + 1 \in Nat OBVIOUS
        <5> QED BY <5>1, <5>4, <5>6, <5>7, <5>8 DEF Traced
      <4>3. CASE i # id
        <5>1. Trail(i)' = Trail(i) BY <3>1, <3>2, <4>1, <4>3
        <5>2. outcome'[i] = outcome[i] /\ place'[i] = place[i]
          BY <2>5, <4>3 DEF PublishResolved, MoveTo, ApprovalTypeOK
        <5> QED BY <2>0, <3>3, <4>1, <5>1, <5>2, TracedBeside
      <4> QED BY <4>2, <4>3
    <3> QED BY <3>4, <3>5
  <2>6. ASSUME NEW id \in Requests, Detach(id) PROVE Traced(i)'
    BY <2>0, <2>6, TracedUnchanged DEF Detach, MoveTo, ApprovalTypeOK, log
  <2>7. ASSUME NEW o \in Operators, NEW id \in Requests, NEW d \in Verdicts, Claim(o, id, d)
        PROVE Traced(i)'
    BY <2>0, <2>7, TracedUnchanged DEF Claim, log
  <2>8. ASSUME NEW o \in Operators, SendDecision(o) PROVE Traced(i)'
    BY <2>0, <2>8, TracedUnchanged DEF SendDecision, log
  <2>9. CASE UNCHANGED approval
    BY <2>0, <2>9, TracedUnchanged DEF approval, log
  <2> QED BY <2>1, <2>2, <2>3, <2>4, <2>5, <2>6, <2>7, <2>8, <2>9
          DEF ApprovalNext, Submit, Resolve, AllReturned
<1>3. Audited => AuditedBeforeReturn
  <2> SUFFICES ASSUME Audited, NEW id \in Requests, place[id] = "returned", id \notin unjournaled
               PROVE  \E i, j \in DOMAIN journal :
                        /\ i < j /\ Trail(id) = {i, j}
                        /\ journal[i] = Requested(id) /\ journal[j] = Resolved(id, outcome[id])
    BY DEF AuditedBeforeReturn
  <2>1. PICK i, j \in Nat : Trail(id) = {i, j} /\ Asked(id, i) /\ Answered(id, i, j)
    BY DEF Audited, Traced
  <2> QED BY <2>1 DEF Asked, Answered
<1> QED BY <1>1, <1>2, <1>3, TypeInductive, PTL DEF ApprovalSpec
============================================================================
