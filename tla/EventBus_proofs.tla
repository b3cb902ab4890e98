-------------------------- MODULE EventBus_proofs --------------------------
(***************************************************************************)
(* Theorems about kernel/bus, for any publishers, subscriptions, patterns  *)
(* and channel capacities: types, no send on a closed channel, durability  *)
(* before delivery, the order of the journal, and the account of drops.    *)
(***************************************************************************)
EXTENDS EventBus, FiniteSetTheorems, TLAPS

LEMMA AppendType ==
  ASSUME NEW S, NEW s \in Seq(S), NEW e \in S PROVE Append(s, e) \in Seq(S)
  OBVIOUS

LEMMA RangeAppend ==
  ASSUME NEW S, NEW s \in Seq(S), NEW e
  PROVE  Range(Append(s, e)) = Range(s) \cup {e}
<1>1. DOMAIN Append(s, e) = 1..(Len(s) + 1) /\ DOMAIN s = 1..Len(s) /\ Len(s) \in Nat
  OBVIOUS
<1>2. /\ \A k \in 1..Len(s) : Append(s, e)[k] = s[k]
      /\ Append(s, e)[Len(s) + 1] = e
  OBVIOUS
<1> QED BY <1>1, <1>2 DEF Range

LEMMA RangeSplit ==
  ASSUME NEW S, NEW s \in Seq(S), s # <<>>
  PROVE  Range(s) = {Head(s)} \cup Range(Tail(s))
<1>1. DOMAIN s = 1..Len(s) /\ Len(s) \in Nat \ {0} /\ Head(s) = s[1]
  OBVIOUS
<1>2. DOMAIN Tail(s) = 1..(Len(s) - 1) /\ \A k \in 1..(Len(s) - 1) : Tail(s)[k] = s[k + 1]
  OBVIOUS
<1>3. ASSUME NEW k \in 1..Len(s) PROVE s[k] \in {Head(s)} \cup Range(Tail(s))
  <2>1. CASE k = 1 BY <1>1, <2>1
  <2>2. CASE k # 1
    <3>1. k - 1 \in 1..(Len(s) - 1) BY <1>1, <2>2
    <3>2. s[k] = Tail(s)[k - 1] BY <1>2, <3>1
    <3> QED BY <1>2, <3>1, <3>2 DEF Range
  <2> QED BY <2>1, <2>2
<1>4. ASSUME NEW k \in 1..(Len(s) - 1) PROVE Tail(s)[k] \in Range(s)
  <2>1. k + 1 \in DOMAIN s BY <1>1
  <2> QED BY <1>2, <2>1 DEF Range
<1> QED BY <1>1, <1>2, <1>3, <1>4 DEF Range

LEMMA RangeJoined ==
  ASSUME NEW S, NEW s \in Seq(S), NEW t \in Seq(S)
  PROVE  Range(s \o t) \subseteq Range(s) \cup Range(t)
<1>1. DOMAIN s = 1..Len(s) /\ DOMAIN t = 1..Len(t) /\ DOMAIN (s \o t) = 1..(Len(s) + Len(t))
  OBVIOUS
<1>2. ASSUME NEW k \in 1..(Len(s) + Len(t)) PROVE (s \o t)[k] \in Range(s) \cup Range(t)
  <2>1. CASE k <= Len(s) BY <1>1, <2>1 DEF Range
  <2>2. CASE k > Len(s)
    <3>1. (s \o t)[k] = t[k - Len(s)] /\ k - Len(s) \in 1..Len(t) BY <2>2
    <3> QED BY <1>1, <3>1 DEF Range
  <2> QED BY <2>1, <2>2
<1> QED BY <1>1, <1>2 DEF Range
-----------------------------------------------------------------------------
LEMMA EventTypes ==
  /\ NoEvent \in Event
  /\ \A subject \in Topics, durable \in BOOLEAN : made < MaxEvents /\ made \in 0..MaxEvents =>
       [id |-> made + 1, subject |-> subject, durable |-> durable] \in Event
  BY BusAssumption DEF NoEvent, Event

\* The types are inductive.
LEMMA TypeStep ==
  /\ BusInit => BusTypeOK
  /\ BusTypeOK /\ [BusNext]_bus => BusTypeOK'
<1> USE DEF BusTypeOK
<1>m. MaxEvents \in Nat BY BusAssumption
<1>1. BusInit => BusTypeOK
  <2> SUFFICES ASSUME BusInit PROVE BusTypeOK OBVIOUS
  <2>1. made \in 0..MaxEvents BY <1>m DEF BusInit
  <2>2. event \in [Publishers -> Event] BY EventTypes DEF BusInit
  <2>3. dropped \in [Subs -> Nat] /\ since \in [Subs -> Nat \cup {-1}] BY DEF BusInit
  <2>4. channel \in [Subs -> Seq(Event)] /\ received \in [Subs -> Seq(Event)] BY DEF BusInit
  <2>5. journal \in Seq(Nat) /\ sent \in Seq(Event) BY DEF BusInit
  <2>6. /\ lock \in Publishers \cup {Nobody}
        /\ stage \in [Publishers -> {"idle", "append", "appended", "fanout"}]
        /\ todo \in [Publishers -> SUBSET Subs]
        /\ closed \in BOOLEAN /\ live \subseteq Subs /\ open \subseteq Subs
    BY DEF BusInit
  <2> QED BY <2>1, <2>2, <2>3, <2>4, <2>5, <2>6
<1>2. BusTypeOK /\ [BusNext]_bus => BusTypeOK'
  <2> SUFFICES ASSUME BusTypeOK, [BusNext]_bus PROVE BusTypeOK' OBVIOUS
  <2> USE DEF subscriptions, log, publishers
  <2>1. ASSUME NEW p \in Publishers, NEW subject \in Topics, Publish(p, subject) PROVE BusTypeOK'
    <3>1. event' \in [Publishers -> Event] BY <2>1, EventTypes DEF Publish, Begin
    <3>2. made' \in 0..MaxEvents BY <2>1, <1>m DEF Publish, Begin
    <3> QED BY <2>1, <3>1, <3>2 DEF Publish, Begin
  <2>2. ASSUME NEW p \in Publishers, NEW subject \in Topics, Stream(p, subject) PROVE BusTypeOK'
    <3>1. event' \in [Publishers -> Event] BY <2>2, EventTypes DEF Stream, Begin
    <3>2. sent' \in Seq(Event) BY <2>2, <3>1, AppendType DEF Stream
    <3>3. todo' \in [Publishers -> SUBSET Subs] BY <2>2 DEF Stream
    <3>4. made' \in 0..MaxEvents BY <2>2, <1>m DEF Stream, Begin
    <3> QED BY <2>2, <3>1, <3>2, <3>3, <3>4 DEF Stream, Begin
  <2>3. ASSUME NEW p \in Publishers, JournalCommit(p) PROVE BusTypeOK'
    <3>1. event[p].id \in Nat BY DEF Event
    <3>2. journal' \in Seq(Nat) BY <2>3, <3>1, AppendType DEF JournalCommit
    <3> QED BY <2>3, <3>2 DEF JournalCommit
  <2>4. ASSUME NEW p \in Publishers, JournalFails(p) PROVE BusTypeOK'
    BY <2>4, EventTypes DEF JournalFails, Nobody
  <2>5. ASSUME NEW p \in Publishers, StartFanOut(p) PROVE BusTypeOK'
    <3>1. sent' \in Seq(Event) BY <2>5, AppendType DEF StartFanOut
    <3>2. todo' \in [Publishers -> SUBSET Subs] BY <2>5 DEF StartFanOut
    <3> QED BY <2>5, <3>1, <3>2 DEF StartFanOut
  <2>6. ASSUME NEW p \in Publishers, Offer(p) PROVE BusTypeOK'
    <3>1. PICK s \in todo[p] :
            /\ todo' = [todo EXCEPT ![p] = @ \ {s}]
            /\ \/ channel' = [channel EXCEPT ![s] = Append(@, event[p])] /\ dropped' = dropped
               \/ dropped' = [dropped EXCEPT ![s] = @ + 1] /\ channel' = channel
      BY <2>6 DEF Offer
    <3>2. s \in Subs OBVIOUS
    <3>3. Append(channel[s], event[p]) \in Seq(Event) BY <3>2, AppendType
    <3>4. dropped[s] + 1 \in Nat BY <3>2
    <3>5. channel' \in [Subs -> Seq(Event)] /\ dropped' \in [Subs -> Nat]
      <4>1. CASE channel' = [channel EXCEPT ![s] = Append(@, event[p])] /\ dropped' = dropped
        BY <3>3, <4>1
      <4>2. CASE dropped' = [dropped EXCEPT ![s] = @ + 1] /\ channel' = channel
        BY <3>4, <4>2
      <4> QED BY <3>1, <4>1, <4>2
    <3>6. todo' \in [Publishers -> SUBSET Subs] BY <3>1
    <3> QED BY <2>6, <3>5, <3>6 DEF Offer
  <2>7. ASSUME NEW p \in Publishers, Return(p) PROVE BusTypeOK'
    BY <2>7, EventTypes DEF Return, Nobody
  <2>8. ASSUME NEW s \in Subs, Subscribe(s) PROVE BusTypeOK'
    <3>1. Len(sent) \in Nat OBVIOUS
    <3> QED BY <2>8, <3>1 DEF Subscribe
  <2>9. ASSUME NEW s \in Subs, Cancel(s) PROVE BusTypeOK'
    BY <2>9 DEF Cancel
  <2>10. ASSUME NEW s \in Subs, Receive(s) PROVE BusTypeOK'
    <3>1. channel[s] \in Seq(Event) /\ channel[s] # <<>> BY <2>10 DEF Receive
    <3>2. Head(channel[s]) \in Event /\ Tail(channel[s]) \in Seq(Event) BY <3>1
    <3>3. Append(received[s], Head(channel[s])) \in Seq(Event) BY <3>2, AppendType
    <3> QED BY <2>10, <3>2, <3>3 DEF Receive
  <2>11. CASE Close BY <2>11 DEF Close
  <2>12. CASE UNCHANGED bus BY <2>12 DEF bus
  <2> QED BY <2>1, <2>2, <2>3, <2>4, <2>5, <2>6, <2>7, <2>8, <2>9, <2>10, <2>11, <2>12
          DEF BusNext, Call, Progress
<1> QED BY <1>1, <1>2

\* Types: every variable of the bus keeps its shape through publications,
\* subscriptions, cancellations and Close.
THEOREM TypeCorrect == BusSpec => []BusTypeOK
  BY TypeStep, PTL DEF BusSpec
-----------------------------------------------------------------------------
\* The discipline of the mutex: a publisher inside a call holds it, what its
\* fan-out still has to visit is live, and what is live is open.
Locked ==
  /\ \A p \in Publishers : stage[p] # "idle" => lock = p
  /\ \A p \in Publishers : todo[p] # {} => stage[p] = "fanout"
  /\ \A p \in Publishers : todo[p] \subseteq live
  /\ live \subseteq open

LEMMA MutexHeld == BusSpec => []Locked
<1> USE DEF Locked
<1>1. BusInit => Locked BY DEF BusInit
<1>2. BusTypeOK /\ Locked /\ [BusNext]_bus => Locked'
  <2> SUFFICES ASSUME BusTypeOK, Locked, [BusNext]_bus PROVE Locked' OBVIOUS
  <2> USE DEF BusTypeOK, subscriptions, log, publishers
  <2>0. lock = Nobody => \A p \in Publishers : stage[p] = "idle" /\ todo[p] = {}
    BY BusAssumption
  <2>1. ASSUME NEW p \in Publishers, NEW subject \in Topics, Publish(p, subject) PROVE Locked'
    BY <2>0, <2>1 DEF Publish, Begin
  <2>2. ASSUME NEW p \in Publishers, NEW subject \in Topics, Stream(p, subject) PROVE Locked'
    BY <2>0, <2>2 DEF Stream, Begin
  <2>3. ASSUME NEW p \in Publishers, JournalCommit(p) PROVE Locked'
    BY <2>3 DEF JournalCommit
  <2>4. ASSUME NEW p \in Publishers, JournalFails(p) PROVE Locked'
    BY <2>4 DEF JournalFails
  <2>5. ASSUME NEW p \in Publishers, StartFanOut(p) PROVE Locked'
    BY <2>5 DEF StartFanOut
  <2>6. ASSUME NEW p \in Publishers, Offer(p) PROVE Locked'
    <3>1. PICK s \in todo[p] : todo' = [todo EXCEPT ![p] = @ \ {s}] BY <2>6 DEF Offer
    <3> QED BY <2>6, <3>1 DEF Offer
  <2>7. ASSUME NEW p \in Publishers, Return(p) PROVE Locked'
    BY <2>7 DEF Return
  <2>8. ASSUME NEW s \in Subs, Subscribe(s) PROVE Locked'
    BY <2>8 DEF Subscribe
  <2>9. ASSUME NEW s \in Subs, Cancel(s) PROVE Locked'
    BY <2>0, <2>9 DEF Cancel
  <2>10. ASSUME NEW s \in Subs, Receive(s) PROVE Locked'
    BY <2>10 DEF Receive
  <2>11. CASE Close BY <2>0, <2>11 DEF Close
  <2>12. CASE UNCHANGED bus BY <2>12 DEF bus
  <2> QED BY <2>1, <2>2, <2>3, <2>4, <2>5, <2>6, <2>7, <2>8, <2>9, <2>10, <2>11, <2>12
          DEF BusNext, Call, Progress
<1> QED BY <1>1, <1>2, TypeCorrect, PTL DEF BusSpec

\* No send meets a closed channel: Cancel and Close take the mutex before they
\* close one.
THEOREM SendsNeverPanic == BusSpec => []NoSendOnClosed
<1>1. Locked => NoSendOnClosed BY DEF Locked, NoSendOnClosed
<1> QED BY <1>1, MutexHeld, PTL
-----------------------------------------------------------------------------
\* What is fanned out was appended first: the event of a publisher past its
\* append, and everything in or out of a channel, is in the journal unless it
\* is a streaming event.
Journaled(e) == e.durable => e.id \in Range(journal)
AppendedFirst ==
  /\ \A p \in Publishers : stage[p] \in {"appended", "fanout"} => Journaled(event[p])
  /\ \A s \in Subs : \A e \in Range(channel[s]) \cup Range(received[s]) : Journaled(e)

LEMMA JournalGrows ==
  ASSUME BusTypeOK, NEW p \in Publishers, JournalCommit(p)
  PROVE  Range(journal') = Range(journal) \cup {event[p].id}
<1>1. journal \in Seq(Nat) BY DEF BusTypeOK
<1> QED BY <1>1, RangeAppend DEF JournalCommit

\* "if the journal returns an error, no subscriber sees the event": no
\* consumer ever holds a durable event the journal does not have.
THEOREM DeliveredAlwaysDurable == BusSpec => []DeliveredDurable
<1>1. BusInit => AppendedFirst
  <2> SUFFICES ASSUME BusInit PROVE AppendedFirst OBVIOUS
  <2>1. \A s \in Subs : Range(channel[s]) = {} /\ Range(received[s]) = {}
    BY DEF BusInit, Range
  <2> QED BY <2>1 DEF BusInit, AppendedFirst
<1>2. BusTypeOK /\ AppendedFirst /\ [BusNext]_bus => AppendedFirst'
  <2> SUFFICES ASSUME BusTypeOK, AppendedFirst, [BusNext]_bus PROVE AppendedFirst' OBVIOUS
  <2> USE DEF AppendedFirst, Journaled, subscriptions, log, publishers
  <2>1. ASSUME NEW p \in Publishers, NEW subject \in Topics, Publish(p, subject)
        PROVE AppendedFirst'
    BY <2>1 DEF Publish, Begin, BusTypeOK
  <2>2. ASSUME NEW p \in Publishers, NEW subject \in Topics, Stream(p, subject)
        PROVE AppendedFirst'
    BY <2>2 DEF Stream, Begin, BusTypeOK
  <2>3. ASSUME NEW p \in Publishers, JournalCommit(p) PROVE AppendedFirst'
    BY <2>3, JournalGrows DEF JournalCommit, BusTypeOK
  <2>4. ASSUME NEW p \in Publishers, JournalFails(p) PROVE AppendedFirst'
    BY <2>4 DEF JournalFails, BusTypeOK
  <2>5. ASSUME NEW p \in Publishers, StartFanOut(p) PROVE AppendedFirst'
    BY <2>5 DEF StartFanOut, BusTypeOK
  <2>6. ASSUME NEW p \in Publishers, Offer(p) PROVE AppendedFirst'
    <3>1. PICK s \in todo[p] :
            \/ channel' = [channel EXCEPT ![s] = Append(channel[s], event[p])]
            \/ channel' = channel
      BY <2>6 DEF Offer
    <3>2. s \in Subs /\ channel[s] \in Seq(Event) BY DEF BusTypeOK
    <3>3. Range(Append(channel[s], event[p])) = Range(channel[s]) \cup {event[p]}
      BY <3>2, RangeAppend
    <3>4. Journaled(event[p]) BY <2>6 DEF Offer
    <3>5. UNCHANGED <<journal, received, event, stage>> BY <2>6 DEF Offer
    <3>6. \A t \in Subs : Range(channel'[t]) \subseteq Range(channel[t]) \cup {event[p]}
      BY <3>1, <3>2, <3>3 DEF BusTypeOK
    <3> QED BY <3>4, <3>5, <3>6
  <2>7. ASSUME NEW p \in Publishers, Return(p) PROVE AppendedFirst'
    BY <2>7 DEF Return, BusTypeOK
  <2>8. ASSUME NEW s \in Subs, Subscribe(s) PROVE AppendedFirst'
    BY <2>8 DEF Subscribe
  <2>9. ASSUME NEW s \in Subs, Cancel(s) PROVE AppendedFirst'
    BY <2>9 DEF Cancel
  <2>10. ASSUME NEW s \in Subs, Receive(s) PROVE AppendedFirst'
    <3>1. channel[s] \in Seq(Event) /\ channel[s] # <<>> /\ received[s] \in Seq(Event)
      BY <2>10 DEF Receive, BusTypeOK
    <3>2. Range(channel[s]) = {Head(channel[s])} \cup Range(Tail(channel[s]))
      BY <3>1, RangeSplit
    <3>3. Range(Append(received[s], Head(channel[s]))) = Range(received[s]) \cup {Head(channel[s])}
      BY <3>1, RangeAppend
    <3>4. \A t \in Subs : Range(channel'[t]) \cup Range(received'[t])
                             = Range(channel[t]) \cup Range(received[t])
      BY <2>10, <3>2, <3>3 DEF Receive, BusTypeOK
    <3>5. UNCHANGED <<journal, event, stage>> BY <2>10 DEF Receive
    <3> QED BY <3>4, <3>5
  <2>11. CASE Close BY <2>11 DEF Close
  <2>12. CASE UNCHANGED bus BY <2>12 DEF bus
  <2> QED BY <2>1, <2>2, <2>3, <2>4, <2>5, <2>6, <2>7, <2>8, <2>9, <2>10, <2>11, <2>12
          DEF BusNext, Call, Progress
<1>3. BusTypeOK /\ AppendedFirst => DeliveredDurable
  <2> SUFFICES ASSUME BusTypeOK, AppendedFirst, NEW s \in Subs,
                      NEW e \in Range(Delivered(s)), e.durable
               PROVE  e.id \in Range(journal)
    BY DEF DeliveredDurable
  <2>1. received[s] \in Seq(Event) /\ channel[s] \in Seq(Event) BY DEF BusTypeOK
  <2>2. e \in Range(received[s]) \cup Range(channel[s])
    BY <2>1, RangeJoined DEF Delivered
  <2> QED BY <2>2 DEF AppendedFirst, Journaled
<1> QED BY <1>1, <1>2, <1>3, TypeCorrect, PTL DEF BusSpec
-----------------------------------------------------------------------------
\* The journal is ahead of the fan-outs: the durable events that were fanned out
\* stand in it in their order, and the event of a publisher past its append is
\* its last record, behind all of them.
Behind(id, n) == \E k \in 1..n : journal[k] = id
JournalAhead ==
  /\ JournalOrder
  /\ \A i \in DOMAIN sent : sent[i].durable =>
       /\ Behind(sent[i].id, Len(journal))
       /\ \A p \in Publishers : stage[p] = "appended" => Behind(sent[i].id, Len(journal) - 1)
  /\ \A p \in Publishers : stage[p] = "appended" =>
       journal # <<>> /\ journal[Len(journal)] = event[p].id

LEMMA SeqAppend ==
  ASSUME NEW S, NEW s \in Seq(S), NEW e
  PROVE  /\ Len(s) \in Nat /\ DOMAIN s = 1..Len(s)
         /\ Len(Append(s, e)) = Len(s) + 1 /\ DOMAIN Append(s, e) = 1..(Len(s) + 1)
         /\ \A k \in 1..Len(s) : Append(s, e)[k] = s[k]
         /\ Append(s, e)[Len(s) + 1] = e
  OBVIOUS

\* One fan-out more: the lists of a live subscriber and of the journal keep
\* step with the events sent.
LEMMA SentGrows ==
  ASSUME BusTypeOK, JournalAhead, NEW e \in Event, sent' = Append(sent, e),
         UNCHANGED journal,
         e.durable => /\ journal # <<>> /\ journal[Len(journal)] = e.id
                      /\ \A i \in DOMAIN sent : sent[i].durable =>
                           Behind(sent[i].id, Len(journal) - 1)
  PROVE  /\ JournalOrder'
         /\ \A i \in DOMAIN sent' : sent'[i].durable => Behind(sent'[i].id, Len(journal))
<1> DEFINE n == Len(sent)
           m == Len(journal)
<1>1. /\ n \in Nat /\ DOMAIN sent = 1..n /\ DOMAIN sent' = 1..(n + 1)
      /\ \A k \in 1..n : sent'[k] = sent[k]
      /\ sent'[n + 1] = e
  BY SeqAppend DEF BusTypeOK
<1>2. m \in Nat /\ DOMAIN journal = 1..m /\ (journal # <<>> => m > 0)
  BY DEF BusTypeOK
<1> HIDE DEF n, m
<1>3. ASSUME NEW i \in DOMAIN sent', NEW j \in DOMAIN sent',
             i < j, sent'[i].durable, sent'[j].durable
      PROVE  \E k, l \in DOMAIN journal :
               k < l /\ journal[k] = sent'[i].id /\ journal[l] = sent'[j].id
  <2>1. i \in DOMAIN sent /\ sent'[i] = sent[i] BY <1>1, <1>3
  <2>2. CASE j \in DOMAIN sent
    BY <1>1, <1>3, <2>1, <2>2 DEF JournalAhead, JournalOrder
  <2>3. CASE j = n + 1
    <3>1. sent'[j] = e /\ m > 0 /\ journal[m] = e.id BY <1>1, <1>2, <1>3, <2>3 DEF m
    <3>2. PICK k \in 1..(m - 1) : journal[k] = sent[i].id
      BY <1>1, <1>3, <2>1, <2>3 DEF Behind, m
    <3>3. k \in DOMAIN journal /\ m \in DOMAIN journal /\ k < m BY <1>2, <3>1
    <3> QED BY <2>1, <3>1, <3>2, <3>3
  <2> QED BY <1>1, <2>2, <2>3
<1>4. ASSUME NEW i \in DOMAIN sent', sent'[i].durable
      PROVE  Behind(sent'[i].id, m)
  <2>1. CASE i \in DOMAIN sent BY <1>1, <1>4, <2>1 DEF JournalAhead, m
  <2>2. CASE i = n + 1
    <3>1. m > 0 /\ journal[m] = e.id BY <1>1, <1>2, <1>4, <2>2 DEF m
    <3> QED BY <1>1, <1>2, <2>2, <3>1 DEF Behind
  <2> QED BY <1>1, <2>1, <2>2
<1>5. JournalOrder' BY <1>3 DEF JournalOrder
<1> QED BY <1>4, <1>5 DEF m

\* Publish and PublishStreaming keep the mutex over append and fan-out, so the
\* subscribers' order is the journal's ("publish order is journal order").
THEOREM OrderIsJournals == BusSpec => []JournalOrder
<1>1. BusInit => JournalAhead
  BY DEF BusInit, JournalAhead, JournalOrder
<1>2. BusTypeOK /\ Locked /\ JournalAhead /\ [BusNext]_bus => JournalAhead'
  <2> SUFFICES ASSUME BusTypeOK, Locked, JournalAhead, [BusNext]_bus PROVE JournalAhead' OBVIOUS
  <2> USE DEF subscriptions, log, publishers
  <2>q. ASSUME UNCHANGED <<journal, sent>>,
               \A p \in Publishers : stage'[p] = "appended" => stage[p] = "appended" /\ event'[p] = event[p]
        PROVE  JournalAhead'
    BY <2>q DEF JournalAhead, JournalOrder, Behind
  <2>1. ASSUME NEW p \in Publishers, NEW subject \in Topics, Publish(p, subject)
        PROVE JournalAhead'
    BY <2>q, <2>1 DEF Publish, Begin, BusTypeOK
  <2>2. ASSUME NEW p \in Publishers, NEW subject \in Topics, Stream(p, subject)
        PROVE JournalAhead'
    <3>1. event'[p] \in Event /\ ~event'[p].durable
      BY <2>2, EventTypes DEF Stream, Begin, BusTypeOK
    <3>2. sent' = Append(sent, event'[p]) /\ UNCHANGED journal BY <2>2 DEF Stream
    <3>3. \A q \in Publishers : stage'[q] # "appended"
      BY <2>2, BusAssumption DEF Stream, Begin, Locked, BusTypeOK
    <3>4. PICK e \in Event : sent' = Append(sent, e) /\ ~e.durable BY <3>1, <3>2
    <3>5. /\ JournalOrder'
          /\ \A i \in DOMAIN sent' : sent'[i].durable => Behind(sent'[i].id, Len(journal))
      BY <3>2, <3>4, SentGrows
    <3> QED BY <3>2, <3>3, <3>5 DEF JournalAhead, Behind
  <2>3. ASSUME NEW p \in Publishers, JournalCommit(p) PROVE JournalAhead'
    <3>1. /\ journal' = Append(journal, event[p].id) /\ sent' = sent /\ event' = event
          /\ \A q \in Publishers : stage'[q] = "appended" => q = p
      BY <2>3 DEF JournalCommit, Locked, BusTypeOK
    <3>2. /\ Len(journal) \in Nat /\ DOMAIN journal = 1..Len(journal)
          /\ Len(journal') = Len(journal) + 1 /\ DOMAIN journal' = 1..(Len(journal) + 1)
          /\ \A k \in 1..Len(journal) : journal'[k] = journal[k]
          /\ journal'[Len(journal) + 1] = event[p].id
      BY <3>1, SeqAppend DEF BusTypeOK
    <3>3. \A i \in DOMAIN sent : sent[i].durable =>
            \E k \in 1..Len(journal) : journal'[k] = sent[i].id
      BY <3>2 DEF JournalAhead, Behind
    <3>4. JournalOrder'
      BY <3>1, <3>2 DEF JournalAhead, JournalOrder
    <3>5. journal' # <<>> BY <3>2
    <3> QED BY <3>1, <3>2, <3>3, <3>4, <3>5 DEF JournalAhead, Behind
  <2>4. ASSUME NEW p \in Publishers, JournalFails(p) PROVE JournalAhead'
    BY <2>q, <2>4 DEF JournalFails, BusTypeOK
  <2>5. ASSUME NEW p \in Publishers, StartFanOut(p) PROVE JournalAhead'
    <3>1. /\ stage[p] = "appended" /\ sent' = Append(sent, event[p]) /\ UNCHANGED journal
          /\ \A q \in Publishers : stage'[q] # "appended"
      BY <2>5 DEF StartFanOut, Locked, BusTypeOK
    <3>2. event[p] \in Event BY DEF BusTypeOK
    <3>3. /\ journal # <<>> /\ journal[Len(journal)] = event[p].id
          /\ \A i \in DOMAIN sent : sent[i].durable => Behind(sent[i].id, Len(journal) - 1)
      BY <3>1 DEF JournalAhead
    <3>4. PICK e \in Event : e = event[p] BY <3>2
    <3>5. /\ JournalOrder'
          /\ \A i \in DOMAIN sent' : sent'[i].durable => Behind(sent'[i].id, Len(journal))
      BY <3>1, <3>3, <3>4, SentGrows
    <3> QED BY <3>1, <3>5 DEF JournalAhead, Behind
  <2>6. ASSUME NEW p \in Publishers, Offer(p) PROVE JournalAhead'
    BY <2>q, <2>6 DEF Offer
  <2>7. ASSUME NEW p \in Publishers, Return(p) PROVE JournalAhead'
    BY <2>q, <2>7 DEF Return, BusTypeOK
  <2>8. ASSUME NEW s \in Subs, Subscribe(s) PROVE JournalAhead'
    BY <2>q, <2>8 DEF Subscribe
  <2>9. ASSUME NEW s \in Subs, Cancel(s) PROVE JournalAhead'
    BY <2>q, <2>9 DEF Cancel
  <2>10. ASSUME NEW s \in Subs, Receive(s) PROVE JournalAhead'
    BY <2>q, <2>10 DEF Receive
  <2>11. CASE Close BY <2>q, <2>11 DEF Close
  <2>12. CASE UNCHANGED bus BY <2>q, <2>12 DEF bus
  <2> QED BY <2>1, <2>2, <2>3, <2>4, <2>5, <2>6, <2>7, <2>8, <2>9, <2>10, <2>11, <2>12
          DEF BusNext, Call, Progress
<1>3. JournalAhead => JournalOrder BY DEF JournalAhead
<1> QED BY <1>1, <1>2, <1>3, TypeCorrect, MutexHeld, PTL DEF BusSpec
-----------------------------------------------------------------------------
\* The account of a subscription: what it took, what waits in its channel and
\* what was dropped is what it was owed, but for the one event a fan-out under
\* way may still have to offer it.
Taken(s) == Len(received[s])
Waiting(s) == Len(channel[s])
InHand(s) == IF \E p \in Publishers : s \in todo[p] THEN 1 ELSE 0
Balanced(s) ==
  /\ since[s] \in 0..Len(sent)
  /\ Taken(s) + Waiting(s) + dropped[s] + InHand(s) = Cardinality(Owed(s))
Untouched(s) == received[s] = <<>> /\ channel[s] = <<>> /\ dropped[s] = 0
Accounts ==
  /\ \A s \in live : Balanced(s)
  /\ \A s \in Subs : since[s] = -1 => s \notin live /\ Untouched(s)

LEMMA Lengths ==
  ASSUME BusTypeOK, NEW s \in Subs
  PROVE  Taken(s) \in Nat /\ Waiting(s) \in Nat /\ dropped[s] \in Nat
<1>1. received[s] \in Seq(Event) /\ channel[s] \in Seq(Event) /\ dropped[s] \in Nat
  BY DEF BusTypeOK
<1> QED BY <1>1 DEF Taken, Waiting

LEMMA OwedFinite ==
  ASSUME BusTypeOK, NEW s \in Subs PROVE IsFiniteSet(Owed(s)) /\ Cardinality(Owed(s)) \in Nat
<1>1. since[s] + 1 \in Int /\ Len(sent) \in Int
  <2>1. since[s] \in Nat \/ since[s] = -1 BY DEF BusTypeOK
  <2>2. Len(sent) \in Nat BY DEF BusTypeOK
  <2> QED BY <2>1, <2>2
<1>2. IsFiniteSet((since[s] + 1)..Len(sent)) BY <1>1, FS_Interval
<1>3. Owed(s) \in SUBSET ((since[s] + 1)..Len(sent)) BY DEF Owed
<1>4. IsFiniteSet(Owed(s)) BY <1>2, <1>3, FS_Subset
<1> QED BY <1>4, FS_CardinalityType

\* An event more is owed to the subscriptions that want it.
LEMMA OwedGrows ==
  ASSUME BusTypeOK, NEW s \in Subs, since[s] \in 0..Len(sent), since'[s] = since[s],
         NEW e \in Event, sent' = Append(sent, e)
  PROVE  Cardinality(Owed(s)') = Cardinality(Owed(s)) + (IF Wants(s, e) THEN 1 ELSE 0)
<1> DEFINE n == Len(sent)
<1>1. /\ n \in Nat /\ Len(sent') = n + 1
      /\ \A k \in 1..n : sent'[k] = sent[k]
      /\ sent'[n + 1] = e
  BY SeqAppend DEF BusTypeOK
<1>2. since[s] \in 0..n OBVIOUS
<1>3. Owed(s)' = {k \in (since[s] + 1)..(n + 1) : Wants(s, sent'[k])}
  BY <1>1 DEF Owed, Wants
<1>4. Owed(s) = {k \in (since[s] + 1)..n : Wants(s, sent[k])}
  BY DEF Owed
<1>5. n + 1 \notin Owed(s) BY <1>1, <1>4
<1> HIDE DEF n
<1>6. Owed(s)' = IF Wants(s, e) THEN Owed(s) \cup {n + 1} ELSE Owed(s)
  <2>1. \A k \in (since[s] + 1)..n : k \in 1..n /\ Wants(s, sent'[k]) = Wants(s, sent[k])
    BY <1>1, <1>2
  <2>2. (since[s] + 1)..(n + 1) = ((since[s] + 1)..n) \cup {n + 1} BY <1>1, <1>2
  <2> QED BY <1>1, <1>3, <1>4, <2>1, <2>2
<1>7. IsFiniteSet(Owed(s)) /\ Cardinality(Owed(s)) \in Nat BY OwedFinite
<1>8. Cardinality(Owed(s) \cup {n + 1}) = Cardinality(Owed(s)) + 1
  BY <1>5, <1>7, FS_AddElement
<1> QED BY <1>6, <1>7, <1>8

\* Steps that neither send nor offer leave every account as it is.
LEMMA AccountsUnchanged ==
  ASSUME Accounts, UNCHANGED <<sent, todo, dropped, received, channel, since>>,
         live' \subseteq live
  PROVE  Accounts'
<1>1. \A s : Owed(s)' = Owed(s) BY DEF Owed, Wants
<1> QED BY <1>1 DEF Accounts, Balanced, Taken, Waiting, Untouched, InHand

\* A fan-out that starts gives every live subscriber that wants its event one
\* more to be owed, and has it in hand.
LEMMA AccountsSend ==
  ASSUME BusTypeOK, Accounts, NEW p \in Publishers, NEW e \in Event,
         \A q \in Publishers : todo[q] = {},
         sent' = Append(sent, e),
         todo' = [todo EXCEPT ![p] = {s \in live : Wants(s, e)}],
         UNCHANGED <<live, dropped, received, channel, since>>
  PROVE  Accounts'
<1>1. ASSUME NEW s \in live PROVE Balanced(s)'
  <2>1. s \in Subs /\ Balanced(s) BY DEF BusTypeOK, Accounts
  <2>2. Cardinality(Owed(s)') = Cardinality(Owed(s)) + (IF Wants(s, e) THEN 1 ELSE 0)
    BY <2>1, OwedGrows DEF Balanced
  <2>3. InHand(s) = 0 BY DEF InHand
  <2>4. InHand(s)' = IF Wants(s, e) THEN 1 ELSE 0
    <3>1. \A q \in Publishers : todo'[q] = IF q = p THEN {t \in live : Wants(t, e)} ELSE {}
      BY DEF BusTypeOK
    <3>2. CASE Wants(s, e) 
      <4>1. s \in {t \in live : Wants(t, e)} BY <3>2, Zenon
      <4>2. s \in todo'[p] BY <3>1, <4>1
      <4> QED BY <3>2, <4>2 DEF InHand
    <3>3. CASE ~Wants(s, e)
      <4>1. \A q \in Publishers : s \notin todo'[q] BY <3>1, <3>3
      <4> QED BY <3>3, <4>1 DEF InHand
    <3> QED BY <3>2, <3>3
  <2>5. Len(sent) \in Nat /\ Len(sent') = Len(sent) + 1 BY SeqAppend DEF BusTypeOK
  <2>6. Taken(s) \in Nat /\ Waiting(s) \in Nat /\ dropped[s] \in Nat
    BY <2>1, Lengths
  <2>7. Cardinality(Owed(s)) \in Nat BY <2>1, OwedFinite
  <2>8. since'[s] \in 0..Len(sent') BY <2>1, <2>5 DEF Balanced
  <2>9. Taken(s) + Waiting(s) + dropped[s] + 0 = Cardinality(Owed(s))
    BY <2>1, <2>3 DEF Balanced
  <2>10. Taken(s)' = Taken(s) /\ Waiting(s)' = Waiting(s) BY DEF Taken, Waiting
  <2>11. Taken(s)' + Waiting(s)' + dropped'[s] + InHand(s)' = Cardinality(Owed(s)')
    BY <2>2, <2>4, <2>6, <2>7, <2>9, <2>10
  <2> QED BY <2>8, <2>11 DEF Balanced
<1>2. \A s \in Subs : since'[s] = -1 => s \notin live' /\ Untouched(s)'
  BY DEF Accounts, Untouched
<1> QED BY <1>1, <1>2 DEF Accounts

\* Every event a live subscription was owed is delivered, waiting or counted.
THEOREM DropsAlwaysAccounted == BusSpec => []DropsAccounted
<1>1. BusInit => Accounts
  BY DEF BusInit, Accounts, Untouched
<1>2. BusTypeOK /\ Locked /\ Accounts /\ [BusNext]_bus => Accounts'
  <2> SUFFICES ASSUME BusTypeOK, Locked, Accounts, [BusNext]_bus PROVE Accounts' OBVIOUS
  <2> USE DEF subscriptions, log, publishers
  <2>0. ASSUME lock = Nobody PROVE \A p \in Publishers : todo[p] = {}
    BY <2>0, BusAssumption DEF Locked
  <2>1. ASSUME NEW p \in Publishers, NEW subject \in Topics, Publish(p, subject)
        PROVE Accounts'
    BY <2>1, AccountsUnchanged DEF Publish, Begin
  <2>2. ASSUME NEW p \in Publishers, NEW subject \in Topics, Stream(p, subject)
        PROVE Accounts'
    <3>1. event'[p] \in Event BY <2>2, EventTypes DEF Stream, Begin, BusTypeOK
    <3>2. PICK e \in Event : e = event'[p] BY <3>1
    <3>3. /\ \A q \in Publishers : todo[q] = {}
          /\ sent' = Append(sent, e)
          /\ todo' = [todo EXCEPT ![p] = {s \in live : Wants(s, e)}]
          /\ UNCHANGED <<live, dropped, received, channel, since>>
      BY <2>0, <2>2, <3>2 DEF Stream, Begin
    <3> QED BY <3>3, AccountsSend
  <2>3. ASSUME NEW p \in Publishers, JournalCommit(p) PROVE Accounts'
    BY <2>3, AccountsUnchanged DEF JournalCommit
  <2>4. ASSUME NEW p \in Publishers, JournalFails(p) PROVE Accounts'
    BY <2>4, AccountsUnchanged DEF JournalFails
  <2>5. ASSUME NEW p \in Publishers, StartFanOut(p) PROVE Accounts'
    <3>1. event[p] \in Event BY DEF BusTypeOK
    <3>2. PICK e \in Event : e = event[p] BY <3>1
    <3>3. \A q \in Publishers : todo[q] = {} BY <2>5 DEF StartFanOut, Locked
    <3>4. /\ sent' = Append(sent, e)
          /\ todo' = [todo EXCEPT ![p] = {s \in live : Wants(s, e)}]
          /\ UNCHANGED <<live, dropped, received, channel, since>>
      BY <2>5, <3>2 DEF StartFanOut
    <3> QED BY <3>3, <3>4, AccountsSend
  <2>6. ASSUME NEW p \in Publishers, Offer(p) PROVE Accounts'
    <3>1. PICK s \in todo[p] :
            /\ todo' = [todo EXCEPT ![p] = @ \ {s}]
            /\ \/ /\ channel' = [channel EXCEPT ![s] = Append(@, event[p])]
                  /\ dropped' = dropped
               \/ dropped' = [dropped EXCEPT ![s] = @ + 1] /\ channel' = channel
      BY <2>6 DEF Offer
    <3>2. UNCHANGED <<sent, received, since, live>> BY <2>6 DEF Offer
    <3>3. s \in live /\ s \in Subs BY DEF Locked, BusTypeOK
    <3>4. \A t : Owed(t)' = Owed(t) BY <3>2 DEF Owed, Wants
    <3>5. \A q \in Publishers : q # p => todo[q] = {} BY <2>6 DEF Offer, Locked
    <3>6. \A q \in Publishers : todo'[q] = IF q = p THEN todo[p] \ {s} ELSE {}
      BY <3>1, <3>5 DEF BusTypeOK
    <3>7. InHand(s) = 1 /\ InHand(s)' = 0 BY <3>6 DEF InHand
    <3>8. \A t : t # s => InHand(t)' = InHand(t) BY <3>5, <3>6 DEF InHand
    <3>9. \A t \in live : t # s => Balanced(t)'
      <4>1. \A t \in live : t # s => channel'[t] = channel[t] /\ dropped'[t] = dropped[t]
        BY <3>1, <3>3 DEF BusTypeOK
      <4> QED BY <3>2, <3>4, <3>8, <4>1 DEF Accounts, Balanced, Taken, Waiting
    <3>10. Balanced(s)'
      <4>1. Balanced(s) BY <3>3 DEF Accounts
      <4>2. Taken(s) \in Nat /\ Waiting(s) \in Nat /\ dropped[s] \in Nat
        BY <3>3, Lengths
      <4>3. Taken(s)' = Taken(s) BY <3>2 DEF Taken
      <4>4. Waiting(s)' + dropped'[s] = Waiting(s) + dropped[s] + 1
        <5>1. CASE channel' = [channel EXCEPT ![s] = Append(@, event[p])] /\ dropped' = dropped
          <6>1. channel'[s] = Append(channel[s], event[p]) BY <3>3, <5>1 DEF BusTypeOK
          <6>2. Waiting(s)' = Waiting(s) + 1
            BY <3>3, <6>1, SeqAppend DEF BusTypeOK, Waiting
          <6> QED BY <4>2, <5>1, <6>2
        <5>2. CASE dropped' = [dropped EXCEPT ![s] = @ + 1] /\ channel' = channel
          <6>1. dropped'[s] = dropped[s] + 1 BY <3>3, <5>2 DEF BusTypeOK
          <6>2. Waiting(s)' = Waiting(s) BY <5>2 DEF Waiting
          <6> QED BY <4>2, <6>1, <6>2
        <5> QED BY <3>1, <5>1, <5>2
      <4>5. Waiting(s)' \in Nat /\ dropped'[s] \in Nat
        <5>1. BusTypeOK' BY <2>6, TypeStep
        <5>2. channel'[s] \in Seq(Event) /\ dropped'[s] \in Nat BY <3>3, <5>1 DEF BusTypeOK
        <5> QED BY <5>2 DEF Waiting
      <4>6. Taken(s) + Waiting(s) + dropped[s] + 1 = Cardinality(Owed(s))
        BY <3>7, <4>1 DEF Balanced
      <4>7. Taken(s)' + Waiting(s)' + dropped'[s] + InHand(s)' = Cardinality(Owed(s)')
        BY <3>4, <3>7, <4>2, <4>3, <4>4, <4>5, <4>6
      <4> QED BY <3>2, <4>1, <4>7 DEF Balanced
    <3>11. \A t \in Subs : since'[t] = -1 => t \notin live' /\ Untouched(t)'
      <4>1. \A t \in Subs : since[t] = -1 => t # s BY <3>3 DEF Accounts
      <4> QED BY <3>1, <3>2, <3>3, <4>1 DEF Accounts, Untouched, BusTypeOK
    <3> QED BY <3>2, <3>9, <3>10, <3>11 DEF Accounts
  <2>7. ASSUME NEW p \in Publishers, Return(p) PROVE Accounts'
    BY <2>7, AccountsUnchanged DEF Return
  <2>8. ASSUME NEW s \in Subs, Subscribe(s) PROVE Accounts'
    <3>1. /\ since' = [since EXCEPT ![s] = Len(sent)] /\ live' = live \cup {s}
          /\ UNCHANGED <<sent, todo, dropped, received, channel>>
          /\ \A q \in Publishers : todo[q] = {}
      BY <2>0, <2>8 DEF Subscribe
    <3>2. Len(sent) \in Nat BY DEF BusTypeOK
    <3>3. \A t \in Subs : since'[t] = IF t = s THEN Len(sent) ELSE since[t]
      BY <3>1 DEF BusTypeOK
    <3>4. s \notin live /\ Untouched(s) BY <2>8 DEF Subscribe, Accounts
    <3>5. ASSUME NEW t \in live PROVE Balanced(t)'
      <4>1. t # s /\ t \in Subs BY <3>4 DEF BusTypeOK
      <4>2. Owed(t)' = Owed(t) /\ InHand(t)' = InHand(t)
        BY <3>1, <3>3, <4>1 DEF Owed, Wants, InHand
      <4> QED BY <3>1, <3>3, <4>1, <4>2 DEF Accounts, Balanced, Taken, Waiting
    <3>6. Balanced(s)'
      <4>1. Owed(s)' = {} BY <3>1, <3>2, <3>3 DEF Owed
      <4>2. InHand(s)' = 0 BY <3>1 DEF InHand
      <4>3. received'[s] = <<>> /\ channel'[s] = <<>> /\ dropped'[s] = 0
        BY <3>1, <3>4 DEF Untouched
      <4>4. Taken(s)' = 0 /\ Waiting(s)' = 0 BY <4>3 DEF Taken, Waiting
      <4>5. Cardinality(Owed(s)') = 0 BY <4>1, FS_EmptySet
      <4> QED BY <3>1, <3>2, <3>3, <4>2, <4>3, <4>4, <4>5 DEF Balanced
    <3>7. \A t \in Subs : since'[t] = -1 => t \notin live' /\ Untouched(t)'
      BY <3>1, <3>2, <3>3 DEF Accounts, Untouched
    <3> QED BY <3>1, <3>5, <3>6, <3>7 DEF Accounts
  <2>9. ASSUME NEW s \in Subs, Cancel(s) PROVE Accounts'
    BY <2>9, AccountsUnchanged DEF Cancel
  <2>10. ASSUME NEW s \in Subs, Receive(s) PROVE Accounts'
    <3>1. /\ channel[s] # <<>> /\ UNCHANGED <<sent, todo, dropped, since, live>>
          /\ received' = [received EXCEPT ![s] = Append(@, Head(channel[s]))]
          /\ channel' = [channel EXCEPT ![s] = Tail(@)]
      BY <2>10 DEF Receive
    <3>2. \A t : Owed(t)' = Owed(t) /\ InHand(t)' = InHand(t)
      BY <3>1 DEF Owed, Wants, InHand
    <3>3. \A t \in Subs : t # s => received'[t] = received[t] /\ channel'[t] = channel[t]
      BY <3>1 DEF BusTypeOK
    <3>4. Taken(s)' = Taken(s) + 1 /\ Waiting(s)' = Waiting(s) - 1
      <4>1. received'[s] = Append(received[s], Head(channel[s])) /\ channel'[s] = Tail(channel[s])
        BY <3>1 DEF BusTypeOK
      <4>2. channel[s] \in Seq(Event) /\ received[s] \in Seq(Event) BY DEF BusTypeOK
      <4>3. Len(Tail(channel[s])) = Len(channel[s]) - 1 BY <3>1, <4>2
      <4>4. Len(Append(received[s], Head(channel[s]))) = Len(received[s]) + 1
        BY <4>2, SeqAppend
      <4> QED BY <4>1, <4>3, <4>4 DEF Taken, Waiting
    <3>5. ASSUME NEW t \in live PROVE Balanced(t)'
      <4>1. CASE t = s
        <5>1. Balanced(s) BY <4>1 DEF Accounts
        <5>2. Taken(s) \in Nat /\ Waiting(s) \in Nat /\ dropped[s] \in Nat /\ InHand(s) \in Nat
          BY Lengths DEF InHand
        <5> QED BY <3>1, <3>2, <3>4, <4>1, <5>1, <5>2 DEF Balanced
      <4>2. CASE t # s
        <5>1. Taken(t)' = Taken(t) /\ Waiting(t)' = Waiting(t)
          BY <3>3, <4>2 DEF Taken, Waiting, BusTypeOK
        <5> QED BY <3>1, <3>2, <5>1 DEF Accounts, Balanced
      <4> QED BY <4>1, <4>2
    <3>6. \A t \in Subs : since'[t] = -1 => t \notin live' /\ Untouched(t)'
      BY <3>1, <3>3 DEF Accounts, Untouched
    <3> QED BY <3>1, <3>5, <3>6 DEF Accounts
  <2>11. CASE Close BY <2>11, AccountsUnchanged DEF Close
  <2>12. CASE UNCHANGED bus BY <2>12, AccountsUnchanged DEF bus
  <2> QED BY <2>1, <2>2, <2>3, <2>4, <2>5, <2>6, <2>7, <2>8, <2>9, <2>10, <2>11, <2>12
          DEF BusNext, Call, Progress
<1>3. BusTypeOK /\ Locked /\ Accounts => DropsAccounted
  <2> SUFFICES ASSUME BusTypeOK, Locked, Accounts, lock = Nobody, NEW s \in live
               PROVE  Len(Delivered(s)) + dropped[s] = Cardinality(Owed(s))
    BY DEF DropsAccounted
  <2>1. s \in Subs /\ Balanced(s) BY DEF BusTypeOK, Accounts
  <2>2. \A p \in Publishers : todo[p] = {} BY BusAssumption DEF Locked
  <2>3. InHand(s) = 0 BY <2>2 DEF InHand
  <2>4. Taken(s) \in Nat /\ Waiting(s) \in Nat /\ dropped[s] \in Nat BY <2>1, Lengths
  <2>5. Len(Delivered(s)) = Taken(s) + Waiting(s)
    <3>1. received[s] \in Seq(Event) /\ channel[s] \in Seq(Event) BY <2>1 DEF BusTypeOK
    <3> QED BY <3>1 DEF Delivered, Taken, Waiting
  <2> QED BY <2>1, <2>3, <2>4, <2>5 DEF Balanced
<1> QED BY <1>1, <1>2, <1>3, TypeCorrect, MutexHeld, PTL DEF BusSpec
============================================================================
