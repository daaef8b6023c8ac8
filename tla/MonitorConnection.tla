-------------------------- MODULE MonitorConnection ---------------------------
(***************************************************************************)
(* Connections in monitor mode (internal/adapters/websocket/connection.go: *)
(* readMonitorMessages, handleSubscribe) and the publisher that feeds them.*)
(*                                                                         *)
(* After its subscribe message a monitor's reading goroutine reads no      *)
(* more: it moves events from its subscription to the outbound queue until *)
(* that queue is full.  It then sends a close frame, closes the            *)
(* subscription and ends the connection.                                   *)
(***************************************************************************)
EXTENDS Publisher, Connection

\* Each monitor has one subscription, known by the name of its connection.
ASSUME MonitorAssumption ==
    /\ Subscriptions = Connections
    /\ NoMessage \notin Events /\ ErrorMessage \notin Events

VARIABLE holding  \* the event the reader has received and not sent yet

vars == <<publisherVars, connectionVars, holding>>

Init == PublisherInit /\ ConnectionInit /\ holding = [c \in Connections |-> NoEvent]
-------------------------------------------------------------------------------
\* handleSubscribe registers the subscription; the lock makes it wait.
SubscribeMessage(c) ==
    /\ ReaderGoes(c, "reading", "forward")
    /\ Subscribe(c)
    /\ UNCHANGED <<outbound, outboundClosed, pumpVars, socket, gone, holding>>

\* The range over the subscription's channel.
ForwardReceives(c) ==
    /\ ReaderGoes(c, "forward", "send")
    /\ Receive(c)
    /\ holding' = [holding EXCEPT ![c] = Head(events[c])]
    /\ UNCHANGED <<outbound, outboundClosed, pumpVars, socket, gone>>

\* Faulty variant: what send returns is not looked at.
ForwardIgnoresFull(c) ==
    /\ reader[c] = "send"
    /\ Send(c, holding[c], "forward", "forward")
    /\ holding' = [holding EXCEPT ![c] = NoEvent]
    /\ UNCHANGED publisherVars

\* Faulty variant: with the queue full, the reader writes the event itself.
ForwardWritesItself(c) ==
    /\ ReaderGoes(c, "send", "forward")
    /\ IF HasRoom(c)
         THEN /\ outbound' = [outbound EXCEPT ![c] = Append(@, holding[c])]
              /\ UNCHANGED wire
         ELSE /\ wire' = [wire EXCEPT ![c] = Append(@, holding[c])]
              /\ UNCHANGED outbound
    /\ holding' = [holding EXCEPT ![c] = NoEvent]
    /\ UNCHANGED <<publisherVars, outboundClosed, pump, writing, socket, gone>>

\* handleSubscribe passes the event to send.
ForwardSends(c) ==
    /\ reader[c] = "send"
    /\ Send(c, holding[c], "forward", "control")
    /\ holding' = [holding EXCEPT ![c] = NoEvent]
    /\ UNCHANGED publisherVars

\* The close frame: "outbound queue is full".
ForwardControl(c) ==
    /\ WriteControl(c, "control", "unsubscribe")
    /\ UNCHANGED <<publisherVars, holding>>

\* Faulty variant: the subscription is not closed.
UnsubscribeForgotten(c) ==
    /\ ReaderGoes(c, "unsubscribe", "returning")
    /\ UNCHANGED <<publisherVars, outbound, outboundClosed, pumpVars, socket, gone,
                   holding>>

\* Faulty variant: Close waits until the channel has been drained.
UnsubscribeWhenDrained(c) ==
    /\ events[c] = <<>>
    /\ ReaderGoes(c, "unsubscribe", "returning")
    /\ CloseSubscription(c)
    /\ UNCHANGED <<outbound, outboundClosed, pumpVars, socket, gone, holding>>

\* The deferred Close of the subscription, before the one of the queue.
Unsubscribe(c) ==
    /\ ReaderGoes(c, "unsubscribe", "returning")
    /\ CloseSubscription(c)
    /\ UNCHANGED <<outbound, outboundClosed, pumpVars, socket, gone, holding>>

ForwardStep(c) ==
    \/ ForwardReceives(c) \/ ForwardSends(c) \/ ForwardControl(c) \/ Unsubscribe(c)

\* The steps of the two components that are not joined.
ConnectionStep(c) ==
    /\ Handshake(c) \/ ReadFails(c) \/ ReturnStep(c) \/ PumpStep(c) \/ ClientLeaves(c)
    /\ UNCHANGED <<publisherVars, holding>>

WorkerStep(w) == PublishStep(w) /\ UNCHANGED <<connectionVars, holding>>

Next ==
    \/ \E w \in Workers : WorkerStep(w)
    \/ \E c \in Connections : SubscribeMessage(c) \/ ForwardStep(c) \/ ConnectionStep(c)

Spec == Init /\ [][Next]_vars

\* A worker inside Publish goes on.
PublishFairness ==
    \A w \in Workers :
       WF_vars(/\ EndPublish(w) \/ \E s \in Subscriptions : Offer(w, s)
               /\ UNCHANGED <<connectionVars, holding>>)

\* The reader goes on as well.  The write lock of a RWMutex keeps new readers
\* out while it is waited for, so that whoever closes a subscription gets it.
ReaderFairness ==
    \A c \in Connections :
       /\ WF_vars(ForwardReceives(c) \/ ForwardSends(c) \/ ForwardControl(c))
       /\ SF_vars(Unsubscribe(c))
       /\ WF_vars(ReturnStep(c) /\ UNCHANGED <<publisherVars, holding>>)

FairSpec == Spec /\ PublishFairness /\ ReaderFairness /\ PumpFairness
-------------------------------------------------------------------------------
(***************************************************************************)
(* Properties.                                                             *)
(***************************************************************************)
Message == Events \union {ErrorMessage}

\* The connections' part of the type invariant.
ConnectionTypeOK ==
    /\ reader \in [Connections -> {"handshake", "reading", "forward", "send",
                                   "control", "unsubscribe", "lastControl",
                                   "returning", "closeSocket", "ended"}]
    /\ holding \in [Connections -> Events \union {NoEvent}]
    /\ outbound \in [Connections -> Seq(Message)]
    /\ outboundClosed \in [Connections -> BOOLEAN]
    /\ pump \in [Connections -> {"off", "waiting", "writing", "stopped"}]
    /\ writing \in [Connections -> Message \union {NoMessage}]
    /\ wire \in [Connections -> Seq(Message)]
    /\ socket \in [Connections -> {"open", "closeSent", "closed"}]
    /\ gone \in [Connections -> BOOLEAN]
    /\ \A c \in Connections :
          /\ Len(outbound[c]) <= OutboundSize
          /\ holding[c] # NoEvent <=> reader[c] = "send"
          /\ writing[c] # NoMessage <=> pump[c] = "writing"
          /\ outboundClosed[c] => reader[c] \in {"closeSocket", "ended"}

\* Every variable has its type, and the goroutines agree on what they share.
TypeOK ==
    /\ PublisherTypeOK /\ ConnectionTypeOK
    /\ \A c \in Connections :
          c \in subscriptions <=>
             reader[c] \in {"forward", "send", "control", "unsubscribe"}

OrNothing(m, nothing) == IF m = nothing THEN <<>> ELSE <<m>>

\* Everything that is on its way to the client, or there.
Pipeline(c) == wire[c] \o OrNothing(writing[c], NoMessage) \o outbound[c]
                 \o OrNothing(holding[c], NoEvent)

\* As long as the client is there, each event taken from the subscription is
\* on its way to it, in the order of the subscription: the only place where a
\* monitor can lose one is the publisher's full buffer.
NothingLostOnTheWay ==
    \A c \in Connections :
       reader[c] \in {"forward", "send"} /\ ~gone[c] => Pipeline(c) = received[c]

\* What reaches the client has no holes and no events out of order, whatever
\* happens to the connection: event n there is event n of the subscription.
\* The error that ends the reading comes last.
WireHasNoHoles ==
    \A c \in Connections : \A k \in DOMAIN wire[c] :
       \/ k <= Len(received[c]) /\ wire[c][k] = received[c][k]
       \/ wire[c][k] = ErrorMessage /\ k = Len(wire[c])

\* "For slow monitor clients, the initial policy is to disconnect the client
\* with an explicit reason after its outbound queue is full" (developer/
\* BLUEPRINT.md:375): the monitor whose queue was full when an event came is
\* disconnected, and both its goroutines end.
SlowMonitorEnds ==
    \A c \in Connections : reader[c] = "control" ~> Over(c)
===============================================================================
