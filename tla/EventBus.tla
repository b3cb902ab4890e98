------------------------------ MODULE EventBus ------------------------------
(***************************************************************************)
(* kernel/bus: publishers append to the journal and then fan out to the    *)
(* matching subscriptions, all under the bus mutex; a subscription is a    *)
(* bounded channel that its consumer drains without the mutex.  Of the     *)
(* journal only what it promises (DurableLog) is kept: the sequence of the *)
(* events it made durable.                                                 *)
(***************************************************************************)
EXTENDS Integers, Sequences, FiniteSets, Functions, SubjectPattern

CONSTANTS
  Publishers, Subs, Topics,
  Pattern,       \* subscription -> its pattern
  BufferSize,    \* capacity of a subscription's channel
  MaxEvents      \* bound: events published

Nobody == "nobody"

ASSUME BusAssumption ==
  /\ Nobody \notin Publishers
  /\ \A s \in Subs : WellFormed(Pattern[s])
  /\ BufferSize \in Nat \ {0} /\ MaxEvents \in Nat

VARIABLES
  lock,       \* holder of the bus mutex while it publishes
  stage,      \* publisher -> "idle", "append", "appended" or "fanout"
  event,      \* publisher -> the event it publishes
  todo,       \* publisher -> subscriptions its fan-out has not visited
  closed,     \* Close has run
  live,       \* subscriptions in b.subs
  open,       \* subscriptions whose channel is not closed
  channel,    \* subscription -> buffered events
  received,   \* subscription -> events its consumer took (history)
  dropped,    \* subscription -> its Dropped counter
  since,      \* subscription -> Len(sent) when it subscribed, -1 before (history)
  journal,    \* ids of the events durable in the journal
  sent,       \* events fanned out, in order (history)
  made        \* events created

publishers == <<lock, stage, event, todo>>
subscriptions == <<closed, live, open, channel, received, dropped, since>>
log == <<journal, sent, made>>
bus == <<publishers, subscriptions, log>>

Event == [id : 0..MaxEvents, subject : Topics \cup {<<>>}, durable : BOOLEAN]
NoEvent == [id |-> 0, subject |-> <<>>, durable |-> FALSE]
Wants(s, e) == Matches(Pattern[s], e.subject)

BusInit ==
  /\ lock = Nobody
  /\ stage = [p \in Publishers |-> "idle"]
  /\ event = [p \in Publishers |-> NoEvent]
  /\ todo = [p \in Publishers |-> {}]
  /\ closed = FALSE
  /\ live = {} /\ open = {}
  /\ channel = [s \in Subs |-> <<>>]
  /\ received = [s \in Subs |-> <<>>]
  /\ dropped = [s \in Subs |-> 0]
  /\ since = [s \in Subs |-> -1]
  /\ journal = <<>> /\ sent = <<>>
  /\ made = 0
--------------------------------------------------------------------------
\* Publish and PublishStreaming.

Begin(p, subject, durable) ==
  /\ lock = Nobody /\ ~closed
  /\ made < MaxEvents
  /\ made' = made + 1
  /\ lock' = p
  /\ event' = [event EXCEPT ![p] = [id |-> made + 1, subject |-> subject, durable |-> durable]]

\* Publish holds the mutex and calls journal.Append.
Publish(p, subject) ==
  /\ Begin(p, subject, TRUE)
  /\ stage' = [stage EXCEPT ![p] = "append"]
  /\ UNCHANGED <<todo, subscriptions, journal, sent>>

\* Mutant: the bus mutex is released while the journal syncs.
JournalCommitUnlocked(p) ==
  /\ stage[p] = "append"
  /\ journal' = Append(journal, event[p].id)
  /\ stage' = [stage EXCEPT ![p] = "appended"]
  /\ lock' = Nobody
  /\ UNCHANGED <<event, todo, subscriptions, sent, made>>

\* The event is on stable storage.
JournalCommit(p) ==
  /\ stage[p] = "append"
  /\ journal' = Append(journal, event[p].id)
  /\ stage' = [stage EXCEPT ![p] = "appended"]
  /\ UNCHANGED <<lock, event, todo, subscriptions, sent, made>>

\* Mutant: subscribers hear of the event though the append failed.
JournalFailureFannedOut(p) ==
  /\ stage[p] = "append"
  /\ stage' = [stage EXCEPT ![p] = "appended"]
  /\ UNCHANGED <<lock, event, todo, subscriptions, log>>

\* The append failed: the error is returned and nobody is notified.
JournalFails(p) ==
  /\ stage[p] = "append"
  /\ stage' = [stage EXCEPT ![p] = "idle"]
  /\ event' = [event EXCEPT ![p] = NoEvent]
  /\ lock' = Nobody
  /\ UNCHANGED <<todo, subscriptions, log>>

\* Append returns; the fan-out visits the subscriptions of b.subs that match.
StartFanOut(p) ==
  /\ stage[p] = "appended"
  /\ sent' = Append(sent, event[p])
  /\ todo' = [todo EXCEPT ![p] = {s \in live : Wants(s, event[p])}]
  /\ stage' = [stage EXCEPT ![p] = "fanout"]
  /\ UNCHANGED <<lock, event, subscriptions, journal, made>>

\* PublishStreaming fans out without the journal.
Stream(p, subject) ==
  /\ Begin(p, subject, FALSE)
  /\ sent' = Append(sent, event'[p])
  /\ todo' = [todo EXCEPT ![p] = {s \in live : Wants(s, event'[p])}]
  /\ stage' = [stage EXCEPT ![p] = "fanout"]
  /\ UNCHANGED <<subscriptions, journal>>

\* Mutants: a drop is not counted; the send blocks on a full channel.
OfferUncounted(p) ==
  /\ stage[p] = "fanout"
  /\ \E s \in todo[p] :
       /\ todo' = [todo EXCEPT ![p] = @ \ {s}]
       /\ channel' = IF Len(channel[s]) < BufferSize
                       THEN [channel EXCEPT ![s] = Append(@, event[p])] ELSE channel
  /\ UNCHANGED <<lock, stage, event, closed, live, open, received, dropped, since, log>>
OfferBlocking(p) ==
  /\ stage[p] = "fanout"
  /\ \E s \in todo[p] :
       /\ Len(channel[s]) < BufferSize
       /\ todo' = [todo EXCEPT ![p] = @ \ {s}]
       /\ channel' = [channel EXCEPT ![s] = Append(@, event[p])]
  /\ UNCHANGED <<lock, stage, event, closed, live, open, received, dropped, since, log>>

\* One turn of the fan-out: a non-blocking send.
Offer(p) ==
  /\ stage[p] = "fanout"
  /\ \E s \in todo[p] :
       /\ todo' = [todo EXCEPT ![p] = @ \ {s}]
       /\ IF Len(channel[s]) < BufferSize
            THEN /\ channel' = [channel EXCEPT ![s] = Append(@, event[p])]
                 /\ UNCHANGED dropped
            ELSE /\ dropped' = [dropped EXCEPT ![s] = @ + 1]
                 /\ UNCHANGED channel
  /\ UNCHANGED <<lock, stage, event, closed, live, open, received, since, log>>

Return(p) ==
  /\ stage[p] = "fanout" /\ todo[p] = {}
  /\ stage' = [stage EXCEPT ![p] = "idle"]
  /\ event' = [event EXCEPT ![p] = NoEvent]
  /\ lock' = Nobody
  /\ UNCHANGED <<todo, subscriptions, log>>
--------------------------------------------------------------------------
\* Subscriptions.

Subscribe(s) ==
  /\ lock = Nobody /\ ~closed /\ since[s] = -1
  /\ live' = live \cup {s}
  /\ open' = open \cup {s}
  /\ since' = [since EXCEPT ![s] = Len(sent)]
  /\ UNCHANGED <<publishers, closed, channel, received, dropped, log>>

\* Mutant: Cancel closes the channel without the bus mutex.
CancelUnlocked(s) ==
  /\ s \in live
  /\ live' = live \ {s}
  /\ open' = open \ {s}
  /\ UNCHANGED <<publishers, closed, channel, received, dropped, since, log>>

\* Cancel: safe to call several times, and after Close.
Cancel(s) ==
  /\ lock = Nobody /\ s \in live
  /\ live' = live \ {s}
  /\ open' = open \ {s}
  /\ UNCHANGED <<publishers, closed, channel, received, dropped, since, log>>

Close ==
  /\ lock = Nobody /\ ~closed
  /\ closed' = TRUE
  /\ live' = {}
  /\ open' = open \ live
  /\ UNCHANGED <<publishers, channel, received, dropped, since, log>>

\* The consumer takes an event; a closed channel still yields its buffer.
Receive(s) ==
  /\ channel[s] # <<>>
  /\ received' = [received EXCEPT ![s] = Append(@, Head(channel[s]))]
  /\ channel' = [channel EXCEPT ![s] = Tail(@)]
  /\ UNCHANGED <<publishers, closed, live, open, dropped, since, log>>
--------------------------------------------------------------------------
Call(p) == \E subject \in Topics : Publish(p, subject) \/ Stream(p, subject)
Progress(p) == \/ JournalCommit(p) \/ JournalFails(p)
               \/ StartFanOut(p) \/ Offer(p) \/ Return(p)

BusNext == \/ \E p \in Publishers : Call(p) \/ Progress(p)
        \/ \E s \in Subs : Subscribe(s) \/ Cancel(s) \/ Receive(s)
        \/ Close

BusSpec == BusInit /\ [][BusNext]_bus

\* A publisher inside a call keeps running.  Consumers owe nothing.
FairBus == BusSpec /\ \A p \in Publishers : WF_bus(Progress(p))
--------------------------------------------------------------------------
BusTypeOK ==
  /\ lock \in Publishers \cup {Nobody}
  /\ stage \in [Publishers -> {"idle", "append", "appended", "fanout"}]
  /\ event \in [Publishers -> Event]
  /\ todo \in [Publishers -> SUBSET Subs]
  /\ closed \in BOOLEAN
  /\ live \subseteq Subs /\ open \subseteq Subs
  /\ channel \in [Subs -> Seq(Event)] /\ received \in [Subs -> Seq(Event)]
  /\ dropped \in [Subs -> Nat] /\ since \in [Subs -> Nat \cup {-1}]
  /\ journal \in Seq(Nat) /\ sent \in Seq(Event)
  /\ made \in 0..MaxEvents

Delivered(s) == received[s] \o channel[s]

\* "No subscriber ever sees an event that is not in the chain": whatever a
\* consumer took or could take is durable, streaming events excepted.
DeliveredDurable ==
  \A s \in Subs : \A e \in Range(Delivered(s)) :
    e.durable => e.id \in Range(journal)

\* The order of the events on the bus is the order of the journal: of two
\* durable events that were fanned out, the earlier one was appended earlier.
JournalOrder ==
  \A i, j \in DOMAIN sent :
    i < j /\ sent[i].durable /\ sent[j].durable =>
      \E k, l \in DOMAIN journal :
        k < l /\ journal[k] = sent[i].id /\ journal[l] = sent[j].id

\* The publications a subscription wants since it subscribed.
Owed(s) == {k \in (since[s] + 1)..Len(sent) : Wants(s, sent[k])}

\* Nothing is lost silently: between two publications, what a live
\* subscription was owed since it subscribed was delivered or counted in
\* Dropped ("Subscribers must monitor Dropped").
DropsAccounted ==
  lock = Nobody =>
    \A s \in live : Len(Delivered(s)) + dropped[s] = Cardinality(Owed(s))

\* A send on a closed channel panics: the fan-out only ever visits open ones.
NoSendOnClosed == \A p \in Publishers : todo[p] \subseteq open

\* A publisher never waits for a slow consumer.
PublishReturns == \A p \in Publishers : stage[p] # "idle" ~> stage[p] = "idle"
==========================================================================
