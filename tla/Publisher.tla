------------------------------ MODULE Publisher -------------------------------
(***************************************************************************)
(* The event publisher (internal/adapters/websocket/publisher.go): the     *)
(* workers of the dispatcher publish each stored event to the buffer of    *)
(* every subscription that wants it, and never wait for a monitor.         *)
(*                                                                         *)
(* Publish holds the read lock while it goes over the map, so that several *)
(* workers publish at the same time.  Subscribe and Close hold the write   *)
(* lock: each is one step, taken while no worker is inside Publish.        *)
(***************************************************************************)
EXTENDS Naturals, Sequences

CONSTANTS
    Events,         \* the stored events; each is published once
    Workers,        \* the goroutines that call Publish
    Subscriptions,  \* one for each monitor
    Wants,          \* the events each subscription's filter matches
    BufferSize,     \* the capacity of a subscription's channel
    NoEvent         \* what a worker outside Publish publishes

\* NewEventPublisher replaces a buffer size that is not positive.
ASSUME PublisherAssumption ==
    /\ BufferSize \in Nat \ {0}
    /\ Wants \in [Subscriptions -> SUBSET Events]
    /\ NoEvent \notin Events

VARIABLES
    subscriptions, \* the map of the publisher
    events,        \* the buffer of each subscription's channel
    closed,        \* the subscriptions whose channel is closed
    publishing,    \* the event each worker is publishing
    remaining,     \* the subscriptions its loop has not reached
    panicked,      \* an event was sent on a closed channel
    \* History:
    began,         \* the events whose Publish has begun
    earlier,       \* the events whose Publish had returned when that began
    due,           \* the open subscriptions it found that want the event
    received,      \* what was received from each subscription's channel
    dropped        \* the events each subscription had no room for

publisherVars == <<subscriptions, events, closed, publishing, remaining,
                   panicked, began, earlier, due, received, dropped>>
historyVars == <<began, earlier, due, received>>

PublisherInit ==
    /\ subscriptions = {} /\ closed = {}
    /\ events = [s \in Subscriptions |-> <<>>]
    /\ publishing = [w \in Workers |-> NoEvent]
    /\ remaining = [w \in Workers |-> {}]
    /\ panicked = FALSE
    /\ began = {}
    /\ earlier = [e \in Events |-> {}] /\ due = [e \in Events |-> {}]
    /\ received = [s \in Subscriptions |-> <<>>]
    /\ dropped = [s \in Subscriptions |-> {}]

\* matchesFilter: the level, the service and the type are in lists of the
\* filter, of which an empty one matches everything.
Matches(e, s) == e \in Wants[s]

\* The write lock can be taken: no worker holds the read lock.
Unread == \A w \in Workers : publishing[w] = NoEvent
-------------------------------------------------------------------------------
\* Subscribe registers a new subscription.
Subscribe(s) ==
    /\ s \notin subscriptions \union closed
    /\ Unread
    /\ subscriptions' = subscriptions \union {s}
    /\ UNCHANGED <<events, closed, publishing, remaining, panicked, historyVars,
                   dropped>>

\* Faulty variant: the write lock is not taken.
CloseUnlocked(s) ==
    /\ s \in subscriptions
    /\ subscriptions' = subscriptions \ {s}
    /\ closed' = closed \union {s}
    /\ UNCHANGED <<events, publishing, remaining, panicked, historyVars, dropped>>

\* Close removes the subscription and closes its channel; the Once makes a
\* second Close return at once.  What is buffered can still be received.
CloseSubscription(s) ==
    /\ s \in subscriptions
    /\ Unread
    /\ subscriptions' = subscriptions \ {s}
    /\ closed' = closed \union {s}
    /\ UNCHANGED <<events, publishing, remaining, panicked, historyVars, dropped>>

\* The range over the channel receives the next event.
Receive(s) ==
    /\ events[s] # <<>>
    /\ events' = [events EXCEPT ![s] = Tail(@)]
    /\ received' = [received EXCEPT ![s] = Append(@, Head(events[s]))]
    /\ UNCHANGED <<subscriptions, closed, publishing, remaining, panicked, began,
                   earlier, due, dropped>>

\* Publish takes the read lock and begins its loop.
BeginPublish(w, e) ==
    /\ publishing[w] = NoEvent
    /\ e \notin began
    /\ publishing' = [publishing EXCEPT ![w] = e]
    /\ remaining' = [remaining EXCEPT ![w] = subscriptions]
    /\ began' = began \union {e}
    /\ earlier' = [earlier EXCEPT ![e] =
                      began \ {publishing[v] : v \in Workers}]
    /\ due' = [due EXCEPT ![e] = {s \in subscriptions : Matches(e, s)}]
    /\ UNCHANGED <<subscriptions, events, closed, panicked, received, dropped>>

\* Faulty variant: the send waits for room in the buffer.
OfferBlocks(w, s) ==
    /\ s \in remaining[w]
    /\ Matches(publishing[w], s) => Len(events[s]) < BufferSize
    /\ remaining' = [remaining EXCEPT ![w] = @ \ {s}]
    /\ events' = IF Matches(publishing[w], s)
                   THEN [events EXCEPT ![s] = Append(@, publishing[w])]
                   ELSE events
    /\ UNCHANGED <<subscriptions, closed, publishing, panicked, historyVars,
                   dropped>>

\* Faulty variant: a full buffer ends the loop.
OfferGivesUp(w, s) ==
    /\ s \in remaining[w]
    /\ LET full == Len(events[s]) >= BufferSize
           sent == Matches(publishing[w], s) /\ ~full
           lost == Matches(publishing[w], s) /\ full
       IN  /\ remaining' = [remaining EXCEPT ![w] =
                               IF lost THEN {} ELSE @ \ {s}]
           /\ events' = IF sent THEN [events EXCEPT ![s] = Append(@, publishing[w])]
                                ELSE events
           /\ dropped' = IF lost
                           THEN [dropped EXCEPT ![s] = @ \union {publishing[w]}]
                           ELSE dropped
    /\ UNCHANGED <<subscriptions, closed, publishing, panicked, historyVars>>

\* Faulty variant: a list in place of the map may hold a subscription twice.
OfferAgain(w, s) ==
    /\ s \in remaining[w]
    /\ remaining' \in {remaining, [remaining EXCEPT ![w] = @ \ {s}]}
    /\ LET sends == Matches(publishing[w], s) /\ Len(events[s]) < BufferSize
       IN  events' = IF sends THEN [events EXCEPT ![s] = Append(@, publishing[w])]
                              ELSE events
    /\ UNCHANGED <<subscriptions, closed, publishing, panicked, historyVars,
                   dropped>>

\* One pass of the loop, for any subscription it has not reached: Go goes over
\* a map in any order.  A full buffer drops the event.
Offer(w, s) ==
    /\ s \in remaining[w]
    /\ remaining' = [remaining EXCEPT ![w] = @ \ {s}]
    /\ LET e == publishing[w]
           sends == Matches(e, s) /\ (s \in closed \/ Len(events[s]) < BufferSize)
       IN  /\ panicked' = (panicked \/ (sends /\ s \in closed))
           /\ events' = IF sends THEN [events EXCEPT ![s] = Append(@, e)]
                                 ELSE events
           /\ dropped' = IF Matches(e, s) /\ ~sends
                           THEN [dropped EXCEPT ![s] = @ \union {e}]
                           ELSE dropped
    /\ UNCHANGED <<subscriptions, closed, publishing, historyVars>>

\* The deferred unlock.
EndPublish(w) ==
    /\ publishing[w] # NoEvent
    /\ remaining[w] = {}
    /\ publishing' = [publishing EXCEPT ![w] = NoEvent]
    /\ UNCHANGED <<subscriptions, events, closed, remaining, panicked,
                   historyVars, dropped>>

PublishStep(w) ==
    \/ \E e \in Events : BeginPublish(w, e)
    \/ \E s \in Subscriptions : Offer(w, s)
    \/ EndPublish(w)
-------------------------------------------------------------------------------
(***************************************************************************)
(* Properties.                                                             *)
(***************************************************************************)
\* What a subscription got: what was received and what waits in its channel.
Got(s) == received[s] \o events[s]

Elements(q) == {q[i] : i \in DOMAIN q}

\* The publisher's part of the type invariant.
PublisherTypeOK ==
    /\ subscriptions \subseteq Subscriptions /\ closed \subseteq Subscriptions
    /\ events \in [Subscriptions -> Seq(Events)]
    /\ received \in [Subscriptions -> Seq(Events)]
    /\ dropped \in [Subscriptions -> SUBSET Events]
    /\ publishing \in [Workers -> Events \union {NoEvent}]
    /\ remaining \in [Workers -> SUBSET Subscriptions]
    /\ \A s \in Subscriptions : Len(events[s]) <= BufferSize

\* No worker sends an event on a channel that Close has closed
\* (publisher.go:60, 75).
NeverSendsOnClosed == ~panicked

\* A subscription gets an event at most once, and two events of which one was
\* published before the other in that order, whichever workers published them.
DeliveredInOrder ==
    \A s \in Subscriptions : \A i, j \in DOMAIN Got(s) :
       /\ i # j => Got(s)[i] # Got(s)[j]
       /\ Got(s)[i] \in earlier[Got(s)[j]] => i < j

\* When Publish has returned, every subscription that was open and wants the
\* event has it in its channel, has received it, or had no room for it: a slow
\* monitor takes nothing away from the others.
PublishedToAll ==
    \A e \in began \ {publishing[w] : w \in Workers} : \A s \in due[e] :
       e \in Elements(Got(s)) \union dropped[s]

\* "monitor publication must not block producer persistence" (developer/
\* BLUEPRINT.md:375): Publish returns even if every monitor stands still.
PublishReturns ==
    \A w \in Workers : publishing[w] # NoEvent ~> publishing[w] = NoEvent
===============================================================================
