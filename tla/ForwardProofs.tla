---------------------------- MODULE ForwardProofs -----------------------------
(***************************************************************************)
(* What a monitor reads off its connection, for any numbers of workers,    *)
(* connections and events and any sizes of the buffers and queues: what    *)
(* its subscription gave, in that order and without holes, and as long as  *)
(* the events are forwarded and the client is there, all of it.            *)
(***************************************************************************)
EXTENDS MonitorProofs

\* The reader is done with its subscription.
Leaving == {"returning", "closeSocket", "ended"}

\* No close frame has been sent.
Early == {"handshake", "reading", "forward", "send", "control", "lastControl"}

\* The reader holds no event that it has taken and not passed on.
Even == {"handshake", "reading", "forward", "lastControl"}

\* What is queued can still reach the client.
Live(c) == pump[c] # "stopped" /\ socket[c] = "open" /\ ~gone[c]

\* The messages that have left the queue and reached the client or the pump, and
\* with them those in the queue.
Taken(c) == IF pump[c] = "writing" THEN Len(wire[c]) + 1 ELSE Len(wire[c])
Total(c) == Taken(c) + Len(outbound[c])

\* What message number k of a connection may be.
Right(c, m, k) ==
    \/ m = ErrorMessage /\ reader[c] \in Leaving
    \/ k \in 1..Len(received[c]) /\ m = received[c][k]

\* Where the goroutines are.
PlaceInv(c) ==
    /\ reader[c] = "handshake" => pump[c] = "off"
    /\ reader[c] \in Early => socket[c] = "open" /\ (pump[c] = "stopped" => gone[c])
    /\ reader[c] = "send" =>
          received[c] # <<>> /\ holding[c] = received[c][Len(received[c])]

\* What reached the client, and nothing follows an error.
WireInv(c) ==
    \A k \in 1..Len(wire[c]) :
       /\ Right(c, wire[c][k], k)
       /\ wire[c][k] = ErrorMessage =>
             k = Len(wire[c]) /\ (Live(c) => Total(c) = k)

\* What is on its way while it can reach the client: each event at its number, an
\* error at the end, and none left out.
QueueInv(c) ==
    Live(c) =>
       /\ pump[c] = "writing" =>
             /\ Right(c, writing[c], Taken(c))
             /\ writing[c] = ErrorMessage => Total(c) = Taken(c)
       /\ \A i \in 1..Len(outbound[c]) :
             /\ Right(c, outbound[c][i], Taken(c) + i)
             /\ outbound[c][i] = ErrorMessage => i = Len(outbound[c])
       /\ reader[c] \in Even => Total(c) = Len(received[c])
       /\ reader[c] = "send" => Total(c) + 1 = Len(received[c])

PathInv(c) == PlaceInv(c) /\ WireInv(c) /\ QueueInv(c)

MonitorInv == PublisherInv /\ TypeOK /\ \A c \in Connections : PathInv(c)
-------------------------------------------------------------------------------
(***************************************************************************)
(* Types.                                                                  *)
(***************************************************************************)
LEMMA MessageTypes ==
    /\ NoMessage \notin Message /\ ErrorMessage \in Message
    /\ Events \subseteq Message /\ ErrorMessage \notin Events
BY MonitorAssumption, ConnectionAssumption DEF Message

LEMMA SendTypes ==
    ASSUME ConnectionTypeOK, NEW c \in Connections, NEW m \in Message, NEW sent, NEW full,
           Send(c, m, sent, full)
    PROVE  /\ outbound' \in [Connections -> Seq(Message)]
           /\ \A d \in Connections : Len(outbound'[d]) <= OutboundSize
<1>1. /\ Append(outbound[c], m) \in Seq(Message) /\ outbound[c] \in Seq(Message)
      /\ Len(Append(outbound[c], m)) = Len(outbound[c]) + 1 /\ Len(outbound[c]) \in Nat
  BY DEF ConnectionTypeOK
<1> QED
  BY <1>1, ConnectionAssumption DEF Send, HasRoom, ConnectionTypeOK

LEMMA ForwardTypes ==
    ASSUME PublisherTypes, ConnectionTypeOK, NEW c \in Connections,
           SubscribeMessage(c) \/ ForwardStep(c)
    PROVE  ConnectionTypeOK'
<1> USE MessageTypes, ConnectionAssumption, PublisherAssumption DEF ConnectionTypeOK
<1>1. CASE SubscribeMessage(c)
  BY <1>1 DEF SubscribeMessage, ReaderGoes, pumpVars
<1>2. CASE ForwardReceives(c)
  <2>1. events[c] \in Seq(Events) /\ events[c] # <<>>
    BY <1>2, MonitorAssumption DEF ForwardReceives, Receive, PublisherTypes
  <2>2. Head(events[c]) \in Events
    BY <2>1
  <2> QED
    BY <1>2, <2>2 DEF ForwardReceives, ReaderGoes, pumpVars
<1>3. CASE ForwardSends(c)
  <2>1. holding[c] \in Message
    BY <1>3 DEF ForwardSends
  <2> QED
    BY <1>3, <2>1, SendTypes DEF ForwardSends, Send
<1>4. CASE ForwardControl(c)
  BY <1>4 DEF ForwardControl, WriteControl, ReaderGoes
<1>5. CASE Unsubscribe(c)
  BY <1>5 DEF Unsubscribe, ReaderGoes, pumpVars
<1> QED
  BY <1>1, <1>2, <1>3, <1>4, <1>5 DEF ForwardStep

LEMMA SharedTypes ==
    ASSUME ConnectionTypeOK, NEW c \in Connections, PlaceInv(c), ConnectionStep(c)
    PROVE  ConnectionTypeOK'
<1> USE MessageTypes, ConnectionAssumption, PublisherAssumption
    DEF ConnectionTypeOK, ConnectionStep
<1>1. CASE Handshake(c)
  <2>1. /\ reader[c] = "handshake" /\ pump[c] = "off" /\ writing[c] = NoMessage
        /\ UNCHANGED <<outbound, outboundClosed, writing, socket, gone, wire, holding>>
    BY <1>1 DEF Handshake, ReaderGoes, PlaceInv
  <2>2. \E to \in {"reading", "closeSocket"} : reader' = [reader EXCEPT ![c] = to]
    BY <1>1 DEF Handshake, ReaderGoes
  <2>3. \E place \in {"waiting", "off"} : pump' = [pump EXCEPT ![c] = place]
    BY <1>1, <2>1 DEF Handshake
  <2> QED
    BY <2>1, <2>2, <2>3
<1>2. CASE LastControl(c)
  BY <1>2 DEF LastControl, WriteControl, ReaderGoes
<1>3. CASE CloseOutbound(c)
  BY <1>3 DEF CloseOutbound, ReaderGoes
<1>4. CASE CloseSocket(c)
  BY <1>4 DEF CloseSocket, ReaderGoes
<1>5. CASE ReadFails(c)
  BY <1>5, SendTypes DEF ReadFails, Send
<1>6. CASE PumpTakes(c)
  <2>1. /\ outbound[c] \in Seq(Message) /\ outbound[c] # <<>>
        /\ Head(outbound[c]) \in Message /\ Tail(outbound[c]) \in Seq(Message)
        /\ Len(Tail(outbound[c])) = Len(outbound[c]) - 1 /\ Len(outbound[c]) \in Nat
    BY <1>6 DEF PumpTakes
  <2> QED
    BY <1>6, <2>1 DEF PumpTakes
<1>7. CASE PumpWrites(c)
  <2>1. writing[c] \in Message
    BY <1>7 DEF PumpWrites
  <2>2. Append(wire[c], writing[c]) \in Seq(Message)
    BY <2>1
  <2> QED
    BY <1>7, <2>2 DEF PumpWrites
<1>8. CASE PumpReturns(c)
  BY <1>8 DEF PumpReturns
<1>9. CASE PumpFails(c)
  BY <1>9 DEF PumpFails
<1>10. CASE ClientLeaves(c)
  BY <1>10 DEF ClientLeaves
<1> QED
  BY <1>1, <1>5, <1>6, <1>7, <1>8, <1>2, <1>3, <1>4, <1>9, <1>10 DEF ReturnStep, PumpStep

\* A loop reaches open channels only, so that no buffer has more than it holds.
LEMMA BuffersStep ==
    ASSUME PublisherTypes, LoopInv, \A s \in Subscriptions : Len(events[s]) <= BufferSize,
           closed \subseteq Subscriptions, [Next]_vars
    PROVE  /\ \A s \in Subscriptions : Len(events'[s]) <= BufferSize
           /\ closed' \subseteq Subscriptions
<1> USE PublisherAssumption DEF PublisherTypes
<1>1. ASSUME NEW w \in Workers, NEW t \in Subscriptions, Offer(w, t), NEW s \in Subscriptions
      PROVE  Len(events'[s]) <= BufferSize
  <2>1. t \notin closed
    BY <1>1 DEF Offer, LoopInv
  <2>2. \/ events'[s] = events[s]
        \/ /\ publishing[w] \in Events /\ Len(events[s]) < BufferSize
           /\ events'[s] = Append(events[s], publishing[w])
    BY <1>1, <2>1 DEF Offer, Matches
  <2>3. events[s] \in Seq(Events) /\ Len(events[s]) \in Nat
    OBVIOUS
  <2>4. publishing[w] \in Events =>
           Len(Append(events[s], publishing[w])) = Len(events[s]) + 1
    BY <2>3, AppendFacts
  <2> QED
    BY <2>2, <2>3, <2>4
<1>2. ASSUME NEW t \in Subscriptions, Receive(t), NEW s \in Subscriptions
      PROVE  Len(events'[s]) <= BufferSize
  <2>1. events[t] \in Seq(Events) /\ events[t] # <<>> /\ events' = [events EXCEPT ![t] = Tail(@)]
    BY <1>2 DEF Receive
  <2>2. Len(Tail(events[t])) = Len(events[t]) - 1 /\ Len(events[t]) \in Nat
    BY <2>1
  <2> QED
    BY <2>1, <2>2
<1>3. ASSUME \/ UNCHANGED publisherVars
             \/ \E t \in Subscriptions : Subscribe(t) \/ CloseSubscription(t)
             \/ \E w \in Workers : EndPublish(w) \/ \E f \in Events : BeginPublish(w, f)
      PROVE  events' = events
  BY <1>3 DEF publisherVars, Subscribe, CloseSubscription, EndPublish, BeginPublish
<1>4. closed' = closed \/ \E t \in Subscriptions : closed' = closed \union {t}
  BY PublisherSteps DEF PublishStep, publisherVars, Subscribe, Receive, CloseSubscription,
     BeginPublish, EndPublish, Offer
<1> QED
  BY PublisherSteps, <1>1, <1>2, <1>3, <1>4 DEF PublishStep

LEMMA MonitorTypesStep ==
    ASSUME PublisherInv, TypeOK, \A c \in Connections : PlaceInv(c), [Next]_vars
    PROVE  TypeOK'
<1>1. PublisherTypes'
  BY TypesStep DEF PublisherInv
<1>2. PublisherTypeOK'
  BY <1>1, BuffersStep DEF PublisherInv, PublisherTypes, PublisherTypeOK, TypeOK
<1>3. ASSUME UNCHANGED <<connectionVars, holding>>
      PROVE  ConnectionTypeOK'
  BY <1>3 DEF connectionVars, ConnectionTypeOK, TypeOK
<1>4. ConnectionTypeOK'
  BY <1>3, ForwardTypes, SharedTypes DEF TypeOK, PublisherInv, Next, vars, WorkerStep
<1>5. \A c \in Connections :
         c \in subscriptions' <=>
            reader'[c] \in {"forward", "send", "control", "unsubscribe"}
  <2> USE MonitorAssumption DEF TypeOK, ConnectionTypeOK
  <2>1. CASE UNCHANGED vars
    BY <2>1 DEF vars, publisherVars, connectionVars
  <2>2. ASSUME NEW w \in Workers, WorkerStep(w)
        PROVE  subscriptions' = subscriptions /\ reader' = reader
    BY <2>2 DEF WorkerStep, PublishStep, BeginPublish, Offer, EndPublish, connectionVars
  <2>3. ASSUME NEW c \in Connections, SubscribeMessage(c)
        PROVE  subscriptions' = subscriptions \union {c} /\ reader' = [reader EXCEPT ![c] = "forward"]
    BY <2>3 DEF SubscribeMessage, Subscribe, ReaderGoes
  <2>4. ASSUME NEW c \in Connections, Unsubscribe(c)
        PROVE  subscriptions' = subscriptions \ {c} /\ reader' = [reader EXCEPT ![c] = "returning"]
    BY <2>4 DEF Unsubscribe, CloseSubscription, ReaderGoes
  <2>5. ASSUME NEW c \in Connections, ForwardReceives(c) \/ ForwardSends(c) \/ ForwardControl(c)
        PROVE  /\ subscriptions' = subscriptions
               /\ reader[c] \in {"forward", "send", "control"}
               /\ \E to \in {"forward", "send", "control", "unsubscribe"} :
                     reader' = [reader EXCEPT ![c] = to]
    BY <2>5 DEF ForwardReceives, ForwardSends, ForwardControl, ReaderGoes, Receive, Send,
                WriteControl, publisherVars
  <2>6. ASSUME NEW c \in Connections, ConnectionStep(c)
        PROVE  /\ subscriptions' = subscriptions
               /\ \/ reader' = reader
                  \/ /\ reader[c] \notin {"forward", "send", "control", "unsubscribe"}
                     /\ \E to \in {"reading", "lastControl"} \union Leaving :
                           reader' = [reader EXCEPT ![c] = to]
    <3>1. subscriptions' = subscriptions
      BY <2>6 DEF ConnectionStep, publisherVars
    <3>2. CASE Handshake(c) \/ ReadFails(c)
      BY <3>1, <3>2 DEF Handshake, ReadFails, ReaderGoes, Send, Leaving
    <3>3. CASE ReturnStep(c)
      BY <3>1, <3>3 DEF ReturnStep, LastControl, CloseOutbound, CloseSocket, WriteControl,
         ReaderGoes, Leaving
    <3>4. CASE PumpStep(c) \/ ClientLeaves(c)
      BY <3>1, <3>4 DEF PumpStep, PumpTakes, PumpReturns, PumpWrites, PumpFails, ClientLeaves
    <3> QED
      BY <2>6, <3>2, <3>3, <3>4 DEF ConnectionStep
  <2> QED
    BY <2>1, <2>2, <2>3, <2>4, <2>5, <2>6 DEF Next, ForwardStep, Leaving
<1> QED
  BY <1>2, <1>4, <1>5 DEF TypeOK
-------------------------------------------------------------------------------
(***************************************************************************)
(* One connection.                                                         *)
(***************************************************************************)
LEMMA PathTypes ==
    ASSUME TypeOK, NEW c \in Connections
    PROVE  /\ c \in DOMAIN reader /\ c \in DOMAIN pump /\ c \in DOMAIN writing
           /\ c \in DOMAIN outbound /\ c \in DOMAIN wire /\ c \in DOMAIN socket
           /\ c \in DOMAIN gone /\ c \in DOMAIN holding
           /\ c \in DOMAIN received /\ c \in DOMAIN events
           /\ received[c] \in Seq(Events) /\ Len(received[c]) \in Nat
           /\ events[c] \in Seq(Events)
           /\ outbound[c] \in Seq(Message) /\ Len(outbound[c]) \in Nat
           /\ wire[c] \in Seq(Message) /\ Len(wire[c]) \in Nat
           /\ pump[c] = "writing" => writing[c] \in Message
           /\ reader[c] = "send" => holding[c] \in Events
BY MonitorAssumption, MessageTypes DEF TypeOK, PublisherTypeOK, ConnectionTypeOK

\* What makes an event the right one stays: what was received, and that the reader
\* leaves.
Onward(c) ==
    /\ reader[c] \in Leaving => reader'[c] \in Leaving
    /\ Len(received[c]) <= Len(received'[c])
    /\ \A i \in 1..Len(received[c]) : received'[c][i] = received[c][i]

LEMMA RightStays ==
    ASSUME TypeOK, TypeOK', NEW c \in Connections, Onward(c), NEW m, NEW k, Right(c, m, k)
    PROVE  Right(c, m, k)'
<1>1. Len(received[c]) \in Nat /\ Len(received'[c]) \in Nat
  BY MonitorAssumption DEF TypeOK, PublisherTypeOK
<1> QED
  BY <1>1 DEF Onward, Right

\* A step that leaves the messages alone and keeps the count.
LEMMA QuietStep ==
    ASSUME TypeOK, TypeOK', NEW c \in Connections, PathInv(c), Onward(c),
           UNCHANGED <<outbound[c], writing[c], wire[c]>>,
           Live(c)' => Live(c) /\ (pump'[c] = "writing" <=> pump[c] = "writing"),
           PlaceInv(c)',
           Live(c)' => /\ reader'[c] \in Even => Total(c) = Len(received'[c])
                       /\ reader'[c] = "send" => Total(c) + 1 = Len(received'[c])
    PROVE  PathInv(c)'
<1>1. \A m, k : Right(c, m, k) => Right(c, m, k)'
  BY RightStays
<1>2. Live(c)' => Taken(c)' = Taken(c) /\ Total(c)' = Total(c)
  BY DEF Taken, Total
<1>3. WireInv(c)'
  BY <1>1, <1>2 DEF PathInv, WireInv
<1>4. QueueInv(c)'
  BY <1>1, <1>2 DEF PathInv, QueueInv
<1> QED
  BY <1>3, <1>4 DEF PathInv

\* A connection that no step touches.
LEMMA UntouchedStep ==
    ASSUME TypeOK, TypeOK', NEW c \in Connections, PathInv(c),
           UNCHANGED <<reader[c], outbound[c], pump[c], writing[c], wire[c], socket[c],
                       gone[c], holding[c], received[c]>>
    PROVE  PathInv(c)'
<1>1. Onward(c)
  BY PathTypes DEF Onward
<1>2. PlaceInv(c)'
  BY DEF PathInv, PlaceInv
<1>3. Live(c)' <=> Live(c)
  BY DEF Live
<1> QED
  BY <1>1, <1>2, <1>3, QuietStep DEF PathInv, QueueInv

\* Send, by a reader that has put no error into the queue.
LEMMA SendStep ==
    ASSUME TypeOK, TypeOK', NEW c \in Connections, PathInv(c),
           NEW m \in Message, NEW sent, NEW full, Send(c, m, sent, full), HasRoom(c),
           reader[c] \notin Leaving, UNCHANGED received, PlaceInv(c)',
           Live(c) => Right(c, m, Total(c))',
           reader'[c] \in Even /\ Live(c) => Total(c) + 1 = Len(received[c]),
           reader'[c] # "send"
    PROVE  PathInv(c)'
<1> DEFINE q == outbound[c]
<1>1. /\ q \in Seq(Message) /\ Len(q) \in Nat /\ Len(wire[c]) \in Nat
      /\ outbound'[c] = Append(q, m)
      /\ UNCHANGED <<pump, writing, wire, socket, gone>>
  BY DEF TypeOK, ConnectionTypeOK, Send
<1>2. /\ Len(Append(q, m)) = Len(q) + 1
      /\ \A i \in 1..Len(q) : Append(q, m)[i] = q[i]
      /\ Append(q, m)[Len(q) + 1] = m
  BY <1>1
<1>3. Onward(c)
  BY PathTypes DEF Onward
<1>4. \A x, k : Right(c, x, k) => Right(c, x, k)' /\ x # ErrorMessage
  <2>1. \A k : Right(c, ErrorMessage, k) => FALSE
    <3> SUFFICES ASSUME NEW k, Right(c, ErrorMessage, k)  PROVE FALSE
      OBVIOUS
    <3>1. k \in 1..Len(received[c]) /\ ErrorMessage = received[c][k]
      BY DEF Right
    <3>2. received[c][k] \in Events
      BY <3>1, PathTypes
    <3> QED
      BY <3>1, <3>2, MessageTypes
  <2> QED
    BY <1>3, <2>1, RightStays
<1>5. /\ Live(c)' <=> Live(c)
      /\ Taken(c)' = Taken(c) /\ Taken(c) \in Nat
      /\ Total(c)' = Total(c) + 1 /\ Total(c) = Taken(c) + Len(q)
  <2>1. Live(c)' <=> Live(c)
    BY <1>1 DEF Live
  <2>2. Taken(c)' = Taken(c)
    BY <1>1 DEF Taken
  <2>3. Taken(c) \in Nat
    <3>1. Len(wire[c]) \in Nat /\ Len(wire[c]) + 1 \in Nat
      BY <1>1
    <3> QED
      BY <3>1 DEF Taken
  <2>4. Total(c)' = Taken(c)' + Len(outbound'[c])
    BY DEF Total
  <2> QED
    BY <1>1, <1>2, <2>1, <2>2, <2>3, <2>4 DEF Total
<1>6. WireInv(c)'
  BY <1>1, <1>4 DEF PathInv, WireInv
<1>7. QueueInv(c)'
  <2> SUFFICES ASSUME Live(c)  PROVE QueueInv(c)'
    BY <1>5 DEF QueueInv
  <2>1. QueueInv(c)!2
    BY DEF PathInv, QueueInv
  <2>2. pump'[c] = "writing" => Right(c, writing[c], Taken(c))' /\ writing'[c] # ErrorMessage
    BY <1>1, <1>4, <1>5, <2>1
  <2>3. ASSUME NEW i \in 1..Len(outbound'[c])
        PROVE  /\ Right(c, outbound[c][i], Taken(c) + i)'
               /\ outbound'[c][i] = ErrorMessage => i = Len(outbound'[c])
    <3>1. CASE i \in 1..Len(q)
      <4>1. PICK x, k : x = q[i] /\ k = Taken(c) + i
        OBVIOUS
      <4>2. outbound'[c][i] = x /\ Right(c, x, k)
        BY <1>1, <1>2, <2>1, <3>1, <4>1
      <4>3. x # ErrorMessage /\ Right(c, x, k)'
        BY <1>4, <4>2
      <4>4. k = Taken(c)' + i
        BY <1>5, <4>1
      <4> QED
        BY <4>2, <4>3, <4>4
    <3>2. CASE i = Len(q) + 1
      <4>1. outbound'[c][i] = m /\ Total(c)' = Taken(c)' + i /\ i = Len(outbound'[c])
        BY <1>1, <1>2, <1>5, <3>2
      <4> QED
        BY <4>1
    <3> QED
      BY <1>1, <1>2, <2>3, <3>1, <3>2
  <2> QED
    BY <1>3, <1>5, <2>2, <2>3 DEF QueueInv
<1> QED
  BY <1>6, <1>7 DEF PathInv
\* Once the pump cannot write any more, what it was to write does not matter.
LEMMA DeadStep ==
    ASSUME TypeOK, TypeOK', NEW c \in Connections, PathInv(c), Onward(c),
           UNCHANGED wire[c], ~Live(c)', PlaceInv(c)'
    PROVE  PathInv(c)'
<1>1. \A m, k : Right(c, m, k) => Right(c, m, k)'
  BY RightStays
<1>2. WireInv(c)'
  BY <1>1 DEF PathInv, WireInv
<1>3. QueueInv(c)'
  BY DEF QueueInv
<1> QED
  BY <1>2, <1>3 DEF PathInv

\* Steps of the pump leave the reader where it is.
LEMMA PlaceOfPump ==
    ASSUME TypeOK, TypeOK', NEW c \in Connections, PlaceInv(c), pump[c] # "off",
           pump'[c] # "stopped", UNCHANGED <<reader, socket, publisherVars, holding>>
    PROVE  PlaceInv(c)' /\ Onward(c) /\ received' = received
<1>1. received' = received
  BY DEF publisherVars
<1> QED
  BY <1>1, PathTypes DEF PlaceInv, Onward

LEMMA PumpTakesStep ==
    ASSUME TypeOK, TypeOK', NEW c \in Connections, PathInv(c),
           PumpTakes(c), UNCHANGED <<publisherVars, holding>>
    PROVE  PathInv(c)'
<1> DEFINE q == outbound[c]
<1>1. /\ q \in Seq(Message) /\ q # <<>> /\ Len(q) \in Nat /\ Len(wire[c]) \in Nat
      /\ pump[c] = "waiting" /\ pump'[c] = "writing"
      /\ outbound'[c] = Tail(q) /\ writing'[c] = Head(q)
      /\ UNCHANGED <<reader, wire, socket, gone>>
  BY DEF TypeOK, ConnectionTypeOK, PumpTakes
<1>2. /\ Len(q) > 0 /\ Len(Tail(q)) = Len(q) - 1 /\ Head(q) = q[1]
      /\ \A i \in 1..Len(Tail(q)) : i + 1 \in 1..Len(q) /\ Tail(q)[i] = q[i + 1]
  BY <1>1
<1>3. PlaceInv(c)' /\ Onward(c) /\ received' = received
  BY <1>1, PlaceOfPump DEF PathInv
<1>4. \A m, k : Right(c, m, k) => Right(c, m, k)'
  BY <1>3, RightStays
<1>5. /\ Live(c)' <=> Live(c)
      /\ Taken(c) \in Nat /\ Taken(c)' = Taken(c) + 1
      /\ Total(c)' = Total(c) /\ Total(c) = Taken(c) + Len(q)
  <2>1. Live(c)' <=> Live(c)
    BY <1>1 DEF Live
  <2>2. Taken(c) = Len(wire[c]) /\ Taken(c)' = Len(wire[c]) + 1
    BY <1>1 DEF Taken
  <2>3. Total(c)' = Taken(c)' + Len(Tail(q)) /\ Total(c) = Taken(c) + Len(q)
    BY <1>1 DEF Total
  <2>4. Taken(c) \in Nat /\ Taken(c)' = Taken(c) + 1
    BY <1>1, <2>2
  <2>5. Total(c)' = Total(c)
    BY <1>1, <1>2, <2>3, <2>4
  <2> QED
    BY <2>1, <2>3, <2>4, <2>5
<1>6. WireInv(c)'
  BY <1>1, <1>4, <1>5 DEF PathInv, WireInv
<1>7. QueueInv(c)'
  <2> SUFFICES ASSUME Live(c)  PROVE QueueInv(c)'
    BY <1>5 DEF QueueInv
  <2>1. QueueInv(c)!2
    BY DEF PathInv, QueueInv
  <2>2. ASSUME NEW j \in 1..Len(q)
        PROVE  /\ \E m, k : m = q[j] /\ k = Taken(c) + j /\ Right(c, m, k)'
               /\ q[j] = ErrorMessage => j = Len(q)
    <3>1. PICK m, k : m = q[j] /\ k = Taken(c) + j
      OBVIOUS
    <3>2. Right(c, m, k) /\ (q[j] = ErrorMessage => j = Len(q))
      BY <2>1, <3>1
    <3>3. Right(c, m, k)'
      BY <1>4, <3>2
    <3> QED
      BY <3>1, <3>2, <3>3
  <2>3. Right(c, writing[c], Taken(c))' /\ (writing'[c] = ErrorMessage => Total(c)' = Taken(c)')
    <3>1. 1 \in 1..Len(q)
      BY <1>1, <1>2
    <3>2. PICK m, k : m = q[1] /\ k = Taken(c) + 1 /\ Right(c, m, k)'
      BY <2>2, <3>1
    <3>3. m = writing'[c] /\ k = Taken(c)'
      BY <1>1, <1>2, <1>5, <3>2
    <3>4. m = ErrorMessage => Total(c)' = Taken(c)'
      BY <1>1, <1>2, <1>5, <2>2, <3>1, <3>2
    <3> QED
      BY <3>2, <3>3, <3>4
  <2>4. ASSUME NEW i \in 1..Len(outbound'[c])
        PROVE  /\ Right(c, outbound[c][i], Taken(c) + i)'
               /\ outbound'[c][i] = ErrorMessage => i = Len(outbound'[c])
    <3>1. i + 1 \in 1..Len(q) /\ outbound'[c][i] = q[i + 1]
      BY <1>1, <1>2
    <3>2. PICK m, k : m = q[i + 1] /\ k = Taken(c) + (i + 1) /\ Right(c, m, k)'
      BY <2>2, <3>1
    <3>3. i \in Nat
      BY <1>1, <1>2
    <3>4. m = outbound'[c][i] /\ k = Taken(c)' + i
      BY <1>5, <3>1, <3>2, <3>3
    <3>5. q[i + 1] = ErrorMessage => i + 1 = Len(q)
      BY <2>2, <3>1
    <3>6. q[i + 1] = ErrorMessage => i = Len(outbound'[c])
      BY <1>1, <1>2, <3>3, <3>5
    <3> QED
      BY <3>1, <3>2, <3>4, <3>6
  <2> QED
    BY <1>1, <1>3, <1>5, <2>1, <2>3, <2>4 DEF QueueInv
<1> QED
  BY <1>3, <1>6, <1>7 DEF PathInv

LEMMA PumpWritesStep ==
    ASSUME TypeOK, TypeOK', NEW c \in Connections, PathInv(c),
           PumpWrites(c), UNCHANGED <<publisherVars, holding>>
    PROVE  PathInv(c)'
<1>1. /\ pump[c] = "writing" /\ pump'[c] = "waiting" /\ socket[c] = "open"
      /\ UNCHANGED <<reader, outbound, socket, gone>>
  BY DEF TypeOK, ConnectionTypeOK, PumpWrites
<1>2. PlaceInv(c)' /\ Onward(c) /\ received' = received
  BY <1>1, PlaceOfPump DEF PathInv
<1>3. CASE gone[c]
  <2>1. ~Live(c)' /\ wire' = wire
    BY <1>1, <1>3 DEF Live, PumpWrites
  <2> QED
    BY <1>2, <2>1, DeadStep
<1>4. CASE ~gone[c]
  <2> DEFINE w == wire[c]
  <2>1. /\ w \in Seq(Message) /\ writing[c] \in Message /\ Len(w) \in Nat
        /\ Len(outbound[c]) \in Nat
        /\ wire'[c] = Append(w, writing[c])
    BY <1>1, <1>4 DEF TypeOK, ConnectionTypeOK, PumpWrites
  <2>2. /\ Len(Append(w, writing[c])) = Len(w) + 1
        /\ \A k \in 1..Len(w) : Append(w, writing[c])[k] = w[k]
        /\ Append(w, writing[c])[Len(w) + 1] = writing[c]
    BY <2>1
  <2>3. \A m, k : Right(c, m, k) => Right(c, m, k)'
    BY <1>2, RightStays
  <2>4. /\ Live(c) /\ Live(c)'
        /\ Taken(c) = Len(w) + 1 /\ Taken(c)' = Taken(c)
        /\ Total(c)' = Total(c) /\ Total(c) = Taken(c) + Len(outbound[c])
        /\ Taken(c) \in Nat
    <3>1. Live(c) /\ Live(c)'
      BY <1>1, <1>4 DEF Live
    <3>2. Taken(c) = Len(w) + 1 /\ Taken(c)' = Len(w) + 1
      BY <1>1, <2>1, <2>2 DEF Taken
    <3>3. Total(c)' = Taken(c)' + Len(outbound[c]) /\ Total(c) = Taken(c) + Len(outbound[c])
      BY <1>1 DEF Total
    <3> QED
      BY <3>1, <3>2, <3>3
  <2>5. QueueInv(c)!2 /\ Right(c, writing[c], Taken(c))
    BY <1>1, <2>4 DEF PathInv, QueueInv
  <2>6. WireInv(c)'
    <3> SUFFICES ASSUME NEW k \in 1..Len(wire'[c])
                 PROVE  /\ Right(c, wire[c][k], k)'
                        /\ wire'[c][k] = ErrorMessage =>
                              k = Len(wire'[c]) /\ Total(c)' = k
      BY DEF WireInv
    <3>1. CASE k \in 1..Len(w)
      <4>1. PICK m : m = w[k]
        OBVIOUS
      <4>2. /\ wire'[c][k] = m /\ Right(c, m, k)
            /\ m = ErrorMessage => k = Len(w) /\ Total(c) = k
        BY <2>1, <2>2, <2>4, <3>1, <4>1 DEF PathInv, WireInv
      <4>3. m # ErrorMessage
        <5>1. Len(w) \in Nat /\ Len(outbound[c]) \in Nat
          BY <2>1
        <5>2. Total(c) = Len(w) + 1 + Len(outbound[c])
          BY <2>4
        <5>3. \A a, b \in Nat : a + 1 + b # a
          OBVIOUS
        <5>4. Total(c) # Len(w)
          BY <5>1, <5>2, <5>3, Zenon
        <5> QED
          BY <4>2, <5>4
      <4> QED
        BY <2>3, <4>2, <4>3
    <3>2. CASE k = Len(w) + 1
      <4>1. PICK m : m = writing[c]
        OBVIOUS
      <4>2. wire'[c][k] = m /\ k = Taken(c) /\ k = Len(wire'[c])
        BY <2>1, <2>2, <2>4, <3>2, <4>1
      <4>3. Right(c, m, k)
        BY <2>5, <4>1, <4>2
      <4>4. m = ErrorMessage => Total(c)' = k
        BY <1>1, <2>4, <2>5, <4>1, <4>2
      <4> QED
        BY <2>3, <4>2, <4>3, <4>4
    <3> QED
      BY <2>1, <2>2, <3>1, <3>2
  <2>7. QueueInv(c)'
    <3>1. ASSUME NEW i \in 1..Len(outbound[c])
          PROVE  /\ \E m, k : m = outbound[c][i] /\ k = Taken(c)' + i /\ Right(c, m, k)'
                 /\ outbound[c][i] = ErrorMessage => i = Len(outbound[c])
      <4>1. PICK m, k : m = outbound[c][i] /\ k = Taken(c)' + i
        OBVIOUS
      <4>2. Right(c, m, k) /\ (m = ErrorMessage => i = Len(outbound[c]))
        BY <2>4, <2>5, <4>1
      <4> QED
        BY <2>3, <4>1, <4>2
    <3> QED
      BY <1>1, <1>2, <2>4, <2>5, <3>1 DEF QueueInv
  <2> QED
    BY <1>2, <2>6, <2>7 DEF PathInv
<1> QED
  BY <1>3, <1>4
-------------------------------------------------------------------------------
(***************************************************************************)
(* The steps of the reader.                                                *)
(***************************************************************************)
\* Steps of the reader alone, other than Send and the close frames.
LEMMA MovingStep ==
    ASSUME TypeOK, TypeOK', NEW c \in Connections, PathInv(c),
           \/ SubscribeMessage(c) \/ Unsubscribe(c)
           \/ (CloseOutbound(c) \/ CloseSocket(c)) /\ UNCHANGED <<publisherVars, holding>>
    PROVE  PathInv(c)'
<1>1. /\ UNCHANGED <<outbound, pump, writing, wire, gone, received>>
      /\ socket'[c] = socket[c] \/ socket'[c] = "closed"
      /\ \/ reader[c] = "reading" /\ reader'[c] = "forward" /\ socket' = socket
         \/ /\ reader[c] \in {"unsubscribe", "returning", "closeSocket"}
            /\ reader'[c] \in Leaving
  <2>1. CASE SubscribeMessage(c)
    BY <2>1, PathTypes DEF SubscribeMessage, Subscribe, ReaderGoes, pumpVars, historyVars
  <2>2. CASE Unsubscribe(c)
    BY <2>2, PathTypes
    DEF Unsubscribe, CloseSubscription, ReaderGoes, pumpVars, historyVars, Leaving
  <2>3. CASE (CloseOutbound(c) \/ CloseSocket(c)) /\ UNCHANGED <<publisherVars, holding>>
    BY <2>3, PathTypes DEF CloseOutbound, CloseSocket, ReaderGoes, publisherVars, Leaving
  <2> QED
    BY <2>1, <2>2, <2>3
<1>2. Onward(c)
  BY <1>1, PathTypes DEF Onward, Leaving
<1>3. PlaceInv(c)'
  BY <1>1 DEF PathInv, PlaceInv, Early, Leaving
<1>4. Live(c)' => Live(c)
  BY <1>1 DEF Live
<1>5. Live(c) /\ reader[c] = "reading" => Total(c) = Len(received[c])
  BY DEF PathInv, QueueInv, Even
<1> QED
  BY <1>1, <1>2, <1>3, <1>4, <1>5, QuietStep DEF Leaving, Even

LEMMA ForwardReceivesStep ==
    ASSUME TypeOK, TypeOK', NEW c \in Connections, PathInv(c), ForwardReceives(c)
    PROVE  PathInv(c)'
<1>1. PICK h \in Events : h = Head(events[c])
  <2>1. events[c] \in Seq(Events) /\ events[c] # <<>>
    BY PathTypes DEF ForwardReceives, Receive
  <2>2. Head(events[c]) \in Events
    BY <2>1
  <2> QED
    BY <2>2, Zenon
<1>2. /\ reader[c] = "forward" /\ reader'[c] = "send" /\ holding'[c] = h
      /\ received'[c] = Append(received[c], h)
      /\ UNCHANGED <<outbound, pump, writing, wire, socket, gone>>
  BY <1>1, PathTypes DEF ForwardReceives, Receive, ReaderGoes, pumpVars
<1>3. /\ received[c] \in Seq(Events) /\ Len(received[c]) \in Nat
      /\ Len(received'[c]) = Len(received[c]) + 1
      /\ received'[c][Len(received[c]) + 1] = h
      /\ \A i \in 1..Len(received[c]) : received'[c][i] = received[c][i]
  BY <1>2, PathTypes, AppendFacts
<1>4. Onward(c)
  BY <1>2, <1>3 DEF Onward, Leaving
<1>5. PlaceInv(c)'
  <2>1. received'[c] # <<>>
    BY <1>2, <1>3
  <2> QED
    BY <1>2, <1>3, <2>1 DEF PathInv, PlaceInv, Early
<1>6. Live(c)' <=> Live(c)
  BY <1>2 DEF Live
<1>7. Live(c) => Total(c) = Len(received[c])
  BY <1>2 DEF PathInv, QueueInv, Even
<1> QED
  BY <1>2, <1>3, <1>4, <1>5, <1>6, <1>7, QuietStep DEF Even

\* What Send does when the queue has no room.
LEMMA FullStep ==
    ASSUME TypeOK, NEW c \in Connections, NEW m, NEW sent, NEW full,
           Send(c, m, sent, full), ~HasRoom(c)
    PROVE  /\ reader'[c] = full
           /\ UNCHANGED <<outbound, pump, writing, wire, socket, gone>>
           /\ Live(c)' <=> Live(c)
<1>1. reader'[c] = full /\ UNCHANGED <<outbound, pump, writing, wire, socket, gone>>
  BY PathTypes DEF Send
<1> QED
  BY <1>1 DEF Live

\* What Send counts when it has.
LEMMA RoomStep ==
    ASSUME TypeOK, NEW c \in Connections, NEW m \in Message, NEW sent, NEW full,
           Send(c, m, sent, full), HasRoom(c)
    PROVE  reader'[c] = sent /\ Total(c)' = Total(c) + 1
<1>1. /\ reader'[c] = sent /\ outbound'[c] = Append(outbound[c], m)
      /\ UNCHANGED <<pump, wire>>
  BY PathTypes DEF Send
<1>2. Len(outbound'[c]) = Len(outbound[c]) + 1 /\ Len(outbound[c]) \in Nat
  BY <1>1, PathTypes, AppendFacts
<1>3. Taken(c)' = Taken(c) /\ Taken(c) \in Nat
  <2>1. Len(wire[c]) \in Nat /\ Len(wire[c]) + 1 \in Nat
    BY PathTypes
  <2> QED
    BY <1>1, <2>1 DEF Taken
<1> QED
  BY <1>1, <1>2, <1>3 DEF Total

LEMMA ForwardSendsStep ==
    ASSUME TypeOK, TypeOK', NEW c \in Connections, PathInv(c), ForwardSends(c)
    PROVE  PathInv(c)'
<1>1. PICK m \in Events : m = holding[c]
  <2>1. holding[c] \in Events
    BY PathTypes DEF ForwardSends
  <2> QED
    BY <2>1, Zenon
<1>2. /\ reader[c] = "send" /\ Send(c, m, "forward", "control") /\ m \in Message
      /\ UNCHANGED <<received, socket, pump, gone>>
  BY <1>1, MessageTypes DEF ForwardSends, publisherVars, Send
<1>3. /\ Len(received[c]) \in Nat /\ Len(received[c]) \in 1..Len(received[c])
      /\ m = received[c][Len(received[c])]
  <2>1. received[c] # <<>> /\ received[c] \in Seq(Events)
    BY <1>2, PathTypes DEF PathInv, PlaceInv
  <2>2. Len(received[c]) \in Nat /\ Len(received[c]) > 0
    BY <2>1
  <2> QED
    BY <1>1, <1>2, <2>2 DEF PathInv, PlaceInv
<1>4. Live(c) => Total(c) + 1 = Len(received[c])
  BY <1>2 DEF PathInv, QueueInv
<1>5. reader'[c] \in {"forward", "control"}
  BY <1>2, PathTypes DEF Send
<1>6. PlaceInv(c)'
  BY <1>2, <1>5 DEF PathInv, PlaceInv, Early
<1>7. CASE HasRoom(c)
  <2>1. Total(c)' = Total(c) + 1 /\ reader'[c] = "forward"
    BY <1>2, <1>7, RoomStep
  <2>2. PICK k : k = Len(received[c])
    OBVIOUS
  <2>3. Right(c, m, k)'
    BY <1>2, <1>3, <2>2 DEF Right
  <2>4. Live(c) => Right(c, m, Total(c))'
    BY <1>4, <2>1, <2>2, <2>3
  <2> QED
    BY <1>2, <1>4, <1>6, <1>7, <2>1, <2>4, SendStep DEF Leaving
<1>8. CASE ~HasRoom(c)
  <2>1. /\ reader'[c] = "control"
        /\ UNCHANGED <<outbound, pump, writing, wire, socket, gone>>
        /\ Live(c)' <=> Live(c)
    BY <1>2, <1>8, FullStep
  <2>2. Onward(c)
    BY <1>2, <1>3 DEF Onward, Leaving
  <2> QED
    BY <1>6, <2>1, <2>2, QuietStep DEF Even
<1> QED
  BY <1>7, <1>8

LEMMA ReadFailsStep ==
    ASSUME TypeOK, TypeOK', NEW c \in Connections, PathInv(c),
           ReadFails(c), UNCHANGED <<publisherVars, holding>>
    PROVE  PathInv(c)'
<1>1. /\ reader[c] = "reading" /\ Send(c, ErrorMessage, "returning", "lastControl")
      /\ UNCHANGED <<received, socket, pump, gone>>
  BY DEF ReadFails, publisherVars, Send
<1>2. reader'[c] \in {"returning", "lastControl"}
  BY <1>1, PathTypes DEF Send
<1>3. PlaceInv(c)'
  BY <1>1, <1>2 DEF PathInv, PlaceInv, Early
<1>4. Live(c) => Total(c) = Len(received[c])
  BY <1>1 DEF PathInv, QueueInv, Even
<1>5. CASE HasRoom(c)
  <2>1. reader'[c] = "returning"
    BY <1>1, <1>5, MessageTypes, RoomStep
  <2>2. Right(c, ErrorMessage, Total(c))'
    BY <2>1 DEF Right, Leaving
  <2> QED
    BY <1>1, <1>3, <1>5, <2>1, <2>2, MessageTypes, SendStep DEF Leaving, Even
<1>6. CASE ~HasRoom(c)
  <2>1. /\ reader'[c] = "lastControl"
        /\ UNCHANGED <<outbound, pump, writing, wire, socket, gone>>
        /\ Live(c)' <=> Live(c)
    BY <1>1, <1>6, FullStep
  <2>2. Onward(c)
    BY <1>1, PathTypes DEF Onward, Leaving
  <2> QED
    BY <1>1, <1>3, <1>4, <2>1, <2>2, QuietStep
<1> QED
  BY <1>5, <1>6

\* After a close frame the pump writes nothing more.
LEMMA WriteControlStep ==
    ASSUME TypeOK, TypeOK', NEW c \in Connections, PathInv(c),
           NEW from, NEW to \in {"unsubscribe", "returning"}, WriteControl(c, from, to),
           from \in {"control", "lastControl"}, UNCHANGED <<publisherVars, holding>>
    PROVE  PathInv(c)'
<1>1. /\ reader[c] = from /\ reader'[c] = to
      /\ UNCHANGED <<pump, wire, received>>
      /\ socket'[c] = IF socket[c] = "open" /\ pump[c] # "stopped" THEN "closeSent" ELSE socket[c]
  BY PathTypes DEF WriteControl, ReaderGoes, publisherVars
<1>2. PlaceInv(c)'
  BY <1>1 DEF PlaceInv, Early
<1>3. ~Live(c)'
  BY <1>1 DEF Live
<1>4. Onward(c)
  BY <1>1, PathTypes DEF Onward, Leaving
<1> QED
  BY <1>1, <1>2, <1>3, <1>4, DeadStep

LEMMA HandshakeStep ==
    ASSUME TypeOK, TypeOK', NEW c \in Connections, PathInv(c),
           Handshake(c), UNCHANGED <<publisherVars, holding>>
    PROVE  PathInv(c)'
<1>1. /\ reader[c] = "handshake" /\ pump[c] = "off"
      /\ reader'[c] \in {"reading", "closeSocket"} /\ pump'[c] \in {"waiting", "off"}
      /\ UNCHANGED <<outbound, writing, wire, socket, gone, received>>
  BY PathTypes DEF Handshake, ReaderGoes, publisherVars, PathInv, PlaceInv
<1>2. PlaceInv(c)'
  BY <1>1 DEF PathInv, PlaceInv, Early
<1>3. Live(c)' <=> Live(c)
  BY <1>1 DEF Live
<1>4. Onward(c)
  BY <1>1, PathTypes DEF Onward, Leaving
<1>5. Live(c) => Total(c) = Len(received[c])
  BY <1>1 DEF PathInv, QueueInv, Even
<1> QED
  BY <1>1, <1>2, <1>3, <1>4, <1>5, QuietStep

\* The pump stops, or the client leaves.
LEMMA StoppingStep ==
    ASSUME TypeOK, TypeOK', NEW c \in Connections, PathInv(c),
           PumpReturns(c) \/ PumpFails(c) \/ ClientLeaves(c),
           UNCHANGED <<publisherVars, holding>>
    PROVE  PathInv(c)'
<1>1. /\ UNCHANGED <<reader, wire, socket, received, holding>>
      /\ pump[c] = "off" => pump'[c] = "off"
  <2>1. CASE PumpReturns(c) \/ PumpFails(c)
    BY <2>1 DEF PumpReturns, PumpFails, publisherVars
  <2>2. CASE ClientLeaves(c)
    BY <2>2 DEF ClientLeaves, publisherVars
  <2> QED
    BY <2>1, <2>2
<1>2. ~Live(c)' /\ (reader[c] \in Early => gone'[c])
  <2>1. CASE PumpReturns(c)
    <3>1. pump' = [pump EXCEPT ![c] = "stopped"] /\ outboundClosed[c]
      BY <2>1 DEF PumpReturns
    <3>2. reader[c] \notin Early
      BY <3>1 DEF TypeOK, ConnectionTypeOK, Early
    <3> QED
      BY <3>1, <3>2, PathTypes DEF Live
  <2>2. CASE PumpFails(c)
    <3>1. /\ pump' = [pump EXCEPT ![c] = "stopped"] /\ gone' = gone
          /\ socket[c] # "open" \/ gone[c]
      BY <2>2 DEF PumpFails
    <3>2. reader[c] \in Early => gone'[c]
      BY <3>1, Zenon DEF PathInv, PlaceInv
    <3> QED
      BY <3>1, <3>2, PathTypes DEF Live
  <2>3. CASE ClientLeaves(c)
    <3>1. gone' = [gone EXCEPT ![c] = TRUE] /\ c \in DOMAIN gone
      BY <2>3, PathTypes DEF ClientLeaves
    <3>2. gone'[c]
      BY <3>1, Zenon
    <3> QED
      BY <3>2, Zenon DEF Live
  <2> QED
    BY <2>1, <2>2, <2>3
<1>3. PlaceInv(c)'
  BY <1>1, <1>2, Zenon DEF PathInv, PlaceInv
<1>4. Onward(c)
  BY <1>1, PathTypes DEF Onward
<1> QED
  BY <1>1, <1>2, <1>3, <1>4, DeadStep
-------------------------------------------------------------------------------
(***************************************************************************)
(* The specification.                                                      *)
(***************************************************************************)
LEMMA MonitorInit == Init => TypeOK /\ \A c \in Connections : PathInv(c)
<1> SUFFICES ASSUME Init  PROVE TypeOK /\ \A c \in Connections : PathInv(c)
  OBVIOUS
<1> USE PublisherAssumption, ConnectionAssumption, MonitorAssumption, MessageTypes
    DEF Init, ConnectionInit, PublisherInit
<1>1. <<>> \in Seq(Events) /\ <<>> \in Seq(Message) /\ Len(<<>>) = 0
  OBVIOUS
<1>2. PublisherTypeOK
  BY <1>1 DEF PublisherTypeOK
<1>3. ConnectionTypeOK
  BY <1>1 DEF ConnectionTypeOK
<1>4. ASSUME NEW c \in Connections
      PROVE  PathInv(c)
  <2>1. PlaceInv(c)
    BY DEF PlaceInv
  <2>2. WireInv(c)
    BY DEF WireInv
  <2>3. Taken(c) = 0 /\ Total(c) = 0
    BY DEF Taken, Total
  <2>4. QueueInv(c)
    BY <1>1, <2>3 DEF QueueInv
  <2> QED
    BY <2>1, <2>2, <2>4 DEF PathInv
<1> QED
  BY <1>2, <1>3, <1>4 DEF TypeOK

\* A step of one connection, or of a worker, does not touch another connection.
LEMMA OtherConnection ==
    ASSUME TypeOK, TypeOK', NEW d \in Connections, PathInv(d),
           \/ UNCHANGED vars
           \/ \E w \in Workers : WorkerStep(w)
           \/ \E c \in Connections \ {d} :
                 SubscribeMessage(c) \/ ForwardStep(c) \/ ConnectionStep(c)
    PROVE  PathInv(d)'
<1> SUFFICES UNCHANGED <<reader[d], outbound[d], pump[d], writing[d], wire[d], socket[d],
                         gone[d], holding[d], received[d]>>
  BY UntouchedStep
<1> USE MonitorAssumption
    DEF TypeOK, ConnectionTypeOK, PublisherTypeOK, pumpVars, ReaderGoes
<1>1. CASE UNCHANGED vars
  BY <1>1 DEF vars, connectionVars, publisherVars
<1>2. ASSUME NEW w \in Workers, WorkerStep(w)
      PROVE  UNCHANGED <<connectionVars, holding, received>>
  BY <1>2 DEF WorkerStep, PublishStep, BeginPublish, Offer, EndPublish, historyVars
<1>3. ASSUME NEW c \in Connections \ {d}, SubscribeMessage(c) \/ Unsubscribe(c)
      PROVE  UNCHANGED <<reader[d], outbound, pumpVars, socket, gone, holding, received>>
  BY <1>3 DEF SubscribeMessage, Unsubscribe, Subscribe, CloseSubscription, historyVars
<1>4. ASSUME NEW c \in Connections \ {d}, ForwardReceives(c)
      PROVE  UNCHANGED <<reader[d], outbound, pumpVars, socket, gone, holding[d], received[d]>>
  BY <1>4 DEF ForwardReceives, Receive
<1>5. ASSUME NEW c \in Connections \ {d}, ForwardSends(c) \/ ForwardControl(c)
      PROVE  UNCHANGED <<reader[d], outbound[d], pumpVars, socket[d], gone, holding[d],
                         received>>
  BY <1>5 DEF ForwardSends, ForwardControl, Send, WriteControl, publisherVars
<1>6. ASSUME NEW c \in Connections \ {d}, ConnectionStep(c)
      PROVE  UNCHANGED <<reader[d], outbound[d], pump[d], writing[d], wire[d], socket[d],
                         gone[d], holding, received>>
  <2>1. UNCHANGED <<holding, received>>
    BY <1>6 DEF ConnectionStep, publisherVars
  <2>2. CASE Handshake(c) \/ ReadFails(c) \/ ClientLeaves(c)
    BY <2>1, <2>2 DEF Handshake, ReadFails, Send, ClientLeaves
  <2>3. CASE ReturnStep(c)
    BY <2>1, <2>3 DEF ReturnStep, LastControl, WriteControl, CloseOutbound, CloseSocket
  <2>4. CASE PumpStep(c)
    BY <2>1, <2>4 DEF PumpStep, PumpTakes, PumpReturns, PumpWrites, PumpFails
  <2> QED
    BY <1>6, <2>2, <2>3, <2>4 DEF ConnectionStep
<1>7. ASSUME UNCHANGED <<connectionVars, holding, received>>
      PROVE  UNCHANGED <<reader[d], outbound[d], pump[d], writing[d], wire[d], socket[d],
                         gone[d], holding[d], received[d]>>
  BY <1>7 DEF connectionVars
<1> QED
  BY <1>1, <1>2, <1>3, <1>4, <1>5, <1>6, <1>7 DEF ForwardStep

LEMMA OwnConnection ==
    ASSUME TypeOK, TypeOK', NEW c \in Connections, PathInv(c),
           SubscribeMessage(c) \/ ForwardStep(c) \/ ConnectionStep(c)
    PROVE  PathInv(c)'
<1>1. CASE SubscribeMessage(c) \/ Unsubscribe(c)
  BY <1>1, MovingStep
<1>2. CASE ForwardReceives(c)
  BY <1>2, ForwardReceivesStep
<1>3. CASE ForwardSends(c)
  BY <1>3, ForwardSendsStep
<1>4. CASE ForwardControl(c)
  BY <1>4, WriteControlStep DEF ForwardControl
<1>5. CASE ConnectionStep(c)
  <2> USE <1>5 DEF ConnectionStep
  <2>1. CASE Handshake(c)
    BY <2>1, HandshakeStep
  <2>2. CASE ReadFails(c)
    BY <2>2, ReadFailsStep
  <2>3. CASE LastControl(c)
    BY <2>3, WriteControlStep DEF LastControl
  <2>4. CASE CloseOutbound(c) \/ CloseSocket(c)
    BY <2>4, MovingStep
  <2>5. CASE PumpTakes(c)
    BY <2>5, PumpTakesStep
  <2>6. CASE PumpWrites(c)
    BY <2>6, PumpWritesStep
  <2>7. CASE PumpReturns(c) \/ PumpFails(c) \/ ClientLeaves(c)
    BY <2>7, StoppingStep
  <2> QED
    BY <2>1, <2>2, <2>3, <2>4, <2>5, <2>6, <2>7 DEF ReturnStep, PumpStep
<1> QED
  BY <1>1, <1>2, <1>3, <1>4, <1>5 DEF ForwardStep

LEMMA MonitorNext ==
    PublisherInv /\ TypeOK /\ (\A c \in Connections : PathInv(c)) /\ [Next]_vars
    => TypeOK' /\ \A c \in Connections : PathInv(c)'
<1> SUFFICES ASSUME PublisherInv, TypeOK, \A c \in Connections : PathInv(c), [Next]_vars
             PROVE  TypeOK' /\ \A c \in Connections : PathInv(c)'
  OBVIOUS
<1>1. TypeOK'
  BY MonitorTypesStep DEF PathInv
<1>2. ASSUME NEW d \in Connections
      PROVE  PathInv(d)'
  <2>1. CASE SubscribeMessage(d) \/ ForwardStep(d) \/ ConnectionStep(d)
    BY <1>1, <2>1, OwnConnection
  <2>2. CASE ~(SubscribeMessage(d) \/ ForwardStep(d) \/ ConnectionStep(d))
    BY <1>1, <2>2, OtherConnection DEF Next
  <2> QED
    BY <2>1, <2>2
<1> QED
  BY <1>1, <1>2

\* The inductive invariant of monitors: that of the publisher, the types, and where
\* each event is that a reader has taken.
THEOREM MonitorInductive == Spec => []MonitorInv
<1>1. Init => TypeOK /\ \A c \in Connections : PathInv(c)
  BY MonitorInit
<1>2. PublisherInv /\ (TypeOK /\ \A c \in Connections : PathInv(c)) /\ [Next]_vars
      => (TypeOK /\ \A c \in Connections : PathInv(c))'
  BY MonitorNext
<1>3. PublisherInv /\ (TypeOK /\ \A c \in Connections : PathInv(c)) => MonitorInv
  BY DEF MonitorInv
<1> QED
  BY <1>1, <1>2, <1>3, PublisherInductive, PTL DEF Spec

\* Every variable keeps its type, and the map of the publisher has the subscriptions
\* of the readers that have one.
THEOREM MonitorTypeCorrect == Spec => []TypeOK
<1>1. MonitorInv => TypeOK
  BY DEF MonitorInv
<1> QED
  BY <1>1, MonitorInductive, PTL

\* Event number n that reaches a monitor is event number n of its subscription, and
\* an error message is the last (connection.go:269-285).
THEOREM WireInOrder == Spec => []WireHasNoHoles
<1>1. MonitorInv => WireHasNoHoles
  <2> SUFFICES ASSUME MonitorInv, NEW c \in Connections, NEW k \in DOMAIN wire[c]
               PROVE  \/ k <= Len(received[c]) /\ wire[c][k] = received[c][k]
                      \/ wire[c][k] = ErrorMessage /\ k = Len(wire[c])
    BY DEF WireHasNoHoles
  <2>1. k \in 1..Len(wire[c]) /\ Len(received[c]) \in Nat
    BY PathTypes DEF MonitorInv
  <2> QED
    BY <2>1 DEF MonitorInv, PathInv, WireInv, Right
<1> QED
  BY <1>1, MonitorInductive, PTL
-------------------------------------------------------------------------------
(***************************************************************************)
(* Nothing is lost on the way.                                             *)
(***************************************************************************)
\* Sequence q is the part of sequence r that follows its first n elements.
Part(q, r, n) ==
    /\ n + Len(q) <= Len(r)
    /\ \A i \in 1..Len(q) : q[i] = r[n + i]

\* A first part of a sequence with the next part after it is a longer first part.
LEMMA ConcatPart ==
    ASSUME NEW S, NEW p \in Seq(S), NEW q \in Seq(S), NEW r \in Seq(S),
           Part(p, r, 0), Part(q, r, Len(p))
    PROVE  p \o q \in Seq(S) /\ Part(p \o q, r, 0) /\ Len(p \o q) = Len(p) + Len(q)
<1>1. PICK a : a = p \o q
  OBVIOUS
<1>2. /\ a \in Seq(S) /\ Len(a) = Len(p) + Len(q) /\ Len(p) \in Nat /\ Len(q) \in Nat
      /\ Len(r) \in Nat
      /\ \A i \in 1..Len(p) : a[i] = p[i]
      /\ \A i \in 1..Len(q) : a[Len(p) + i] = q[i]
  BY <1>1, ConcatFacts
<1>3. ASSUME NEW i \in 1..Len(a)
      PROVE  a[i] = r[0 + i]
  <2>1. CASE i \in 1..Len(p)
    BY <1>2, <2>1 DEF Part
  <2>2. ASSUME NEW j \in 1..Len(q), i = Len(p) + j
        PROVE  a[i] = r[0 + i]
    BY <1>2, <2>2 DEF Part
  <2>3. i \in 1..Len(p) \/ i - Len(p) \in 1..Len(q)
    BY <1>2
  <2>4. i = Len(p) + (i - Len(p))
    BY <1>2
  <2> QED
    BY <2>1, <2>2, <2>3, <2>4
<1>4. Part(a, r, 0)
  BY <1>2, <1>3 DEF Part
<1> QED
  BY <1>1, <1>2, <1>4

\* A first part that is as long as the sequence is the sequence.
LEMMA WholePart ==
    ASSUME NEW S, NEW p \in Seq(S), NEW r \in Seq(S), Part(p, r, 0), Len(p) = Len(r)
    PROVE  p = r
BY SameSequence DEF Part

\* Four parts that follow each other and leave nothing over make up the sequence.
LEMMA FourParts ==
    ASSUME NEW S, NEW w \in Seq(S), NEW x \in Seq(S), NEW q \in Seq(S), NEW h \in Seq(S),
           NEW r \in Seq(S), Part(w, r, 0), Part(x, r, Len(w)), Part(q, r, Len(w) + Len(x)),
           Part(h, r, Len(w) + Len(x) + Len(q)),
           Len(w) + Len(x) + Len(q) + Len(h) = Len(r)
    PROVE  w \o x \o q \o h = r
<1>1. w \o x \in Seq(S) /\ Part(w \o x, r, 0) /\ Len(w \o x) = Len(w) + Len(x)
  BY ConcatPart, Zenon
<1>2. PICK a \in Seq(S) : a = w \o x
  BY <1>1, Zenon
<1>3. a \o q \in Seq(S) /\ Part(a \o q, r, 0) /\ Len(a \o q) = Len(a) + Len(q)
  <2>1. Part(a, r, 0) /\ Part(q, r, Len(a)) /\ Len(a) = Len(w) + Len(x)
    BY <1>1, <1>2
  <2> QED
    BY <2>1, ConcatPart, Zenon
<1>4. PICK b \in Seq(S) : b = a \o q
  BY <1>3, Zenon
<1>5. b \o h \in Seq(S) /\ Part(b \o h, r, 0) /\ Len(b \o h) = Len(b) + Len(h)
  <2>1. Part(b, r, 0) /\ Len(b) = Len(w) + Len(x) + Len(q)
    BY <1>1, <1>2, <1>3, <1>4
  <2>2. Part(h, r, Len(b))
    BY <2>1
  <2> QED
    BY <2>1, <2>2, ConcatPart, Zenon
<1>6. Len(b \o h) = Len(r)
  BY <1>1, <1>2, <1>3, <1>4, <1>5
<1>7. b \o h = r
  BY <1>5, <1>6, WholePart, Zenon
<1> QED
  BY <1>2, <1>4, <1>7
\* As long as a monitor gets its events, each that its reader has taken from the
\* subscription is on its way to the client or there, in order: the only place where
\* one is lost is the full buffer of the publisher (connection.go:273-280).
THEOREM ForwardsAll == Spec => []NothingLostOnTheWay
<1>1. ASSUME MonitorInv, NEW c \in Connections, reader[c] \in {"forward", "send"}, ~gone[c]
      PROVE  Pipeline(c) = received[c]
  <2> DEFINE x == OrNothing(writing[c], NoMessage)
             h == OrNothing(holding[c], NoEvent)
             r == received[c]
  <2>1. TypeOK /\ PathInv(c) /\ Live(c) /\ reader[c] \notin Leaving
    BY <1>1 DEF MonitorInv, PathInv, PlaceInv, Live, Early, Leaving
  <2>2. /\ wire[c] \in Seq(Message) /\ Len(wire[c]) \in Nat
        /\ outbound[c] \in Seq(Message) /\ Len(outbound[c]) \in Nat
        /\ r \in Seq(Message) /\ Len(r) \in Nat
    <3>1. \A s \in Seq(Events) : s \in Seq(Message)
      BY MessageTypes
    <3> QED
      BY <2>1, <3>1, PathTypes
  <2>3. /\ x \in Seq(Message) /\ Taken(c) = Len(wire[c]) + Len(x)
        /\ \A i \in 1..Len(x) : x[i] = writing[c] /\ i = 1 /\ pump[c] = "writing"
    <3>1. CASE pump[c] = "writing"
      <4>1. writing[c] \in Message
        BY <2>1, <3>1, PathTypes
      <4>2. x = <<writing[c]>>
        BY <4>1, MessageTypes DEF OrNothing
      <4>3. x \in Seq(Message) /\ Len(x) = 1 /\ \A i \in 1..1 : x[i] = writing[c] /\ i = 1
        BY <4>1, <4>2
      <4> QED
        BY <2>2, <3>1, <4>3 DEF Taken
    <3>2. CASE pump[c] # "writing"
      <4>1. x = <<>>
        BY <2>1, <3>2 DEF TypeOK, ConnectionTypeOK, OrNothing
      <4> QED
        BY <2>2, <3>2, <4>1 DEF Taken
    <3> QED
      BY <3>1, <3>2
  <2>4. /\ h \in Seq(Message)
        /\ Total(c) + Len(h) = Len(r)
        /\ \A i \in 1..Len(h) : h[i] = r[Total(c) + i]
    <3>1. CASE reader[c] = "send"
      <4>1. holding[c] \in Events /\ holding[c] = r[Len(r)] /\ Total(c) + 1 = Len(r)
        BY <2>1, <3>1, PathTypes DEF PathInv, PlaceInv, QueueInv
      <4>2. h = <<holding[c]>> /\ holding[c] \in Message
        BY <4>1, MessageTypes, PublisherAssumption DEF OrNothing
      <4>3. h \in Seq(Message) /\ Len(h) = 1 /\ \A i \in 1..1 : h[i] = holding[c] /\ i = 1
        BY <4>2
      <4> QED
        BY <4>1, <4>3
    <3>2. CASE reader[c] = "forward"
      <4>1. h = <<>>
        BY <2>1, <3>2 DEF TypeOK, ConnectionTypeOK, OrNothing
      <4>2. Total(c) = Len(r)
        BY <2>1, <3>2 DEF PathInv, QueueInv, Even
      <4> QED
        BY <2>2, <4>1, <4>2
    <3> QED
      BY <1>1, <3>1, <3>2
  <2>5. \A m, k : Right(c, m, k) => m = r[k]
    BY <2>1 DEF Right
  <2>6. \A i \in 1..Len(wire[c]) : wire[c][i] = r[i]
    BY <2>1, <2>5 DEF PathInv, WireInv
  <2>7. \A i \in 1..Len(x) : x[i] = r[Len(wire[c]) + i]
    <3>1. pump[c] = "writing" => writing[c] = r[Taken(c)]
      BY <2>1, <2>5 DEF PathInv, QueueInv
    <3> QED
      BY <2>3, <3>1 DEF Taken
  <2>8. \A i \in 1..Len(outbound[c]) : outbound[c][i] = r[Taken(c) + i]
    BY <2>1, <2>5 DEF PathInv, QueueInv
  <2> HIDE DEF x, h, r
  <2>9. Len(x) \in Nat /\ Len(h) \in Nat /\ Total(c) = Taken(c) + Len(outbound[c])
    BY <2>3, <2>4 DEF Total
  <2>10. /\ 0 + Len(wire[c]) <= Len(r) /\ Len(wire[c]) + Len(x) <= Len(r)
         /\ Len(wire[c]) + Len(x) + Len(outbound[c]) <= Len(r)
         /\ Len(wire[c]) + Len(x) + Len(outbound[c]) + Len(h) = Len(r)
         /\ Taken(c) = Len(wire[c]) + Len(x)
         /\ Total(c) = Len(wire[c]) + Len(x) + Len(outbound[c])
         /\ Len(wire[c]) + Len(x) + Len(outbound[c]) + Len(h) <= Len(r)
    <3>1. /\ Taken(c) = Len(wire[c]) + Len(x)
          /\ Total(c) = Taken(c) + Len(outbound[c])
          /\ Total(c) + Len(h) = Len(r)
      BY <2>3, <2>4, <2>9, Zenon
    <3>2. /\ Len(wire[c]) \in Nat /\ Len(x) \in Nat /\ Len(outbound[c]) \in Nat
          /\ Len(h) \in Nat /\ Len(r) \in Nat
      BY <2>2, <2>9, Zenon
    <3>3. PICK t, u : t = Taken(c) /\ u = Total(c)
      OBVIOUS
    <3>4. /\ t = Len(wire[c]) + Len(x)
          /\ u = t + Len(outbound[c])
          /\ u + Len(h) = Len(r)
      BY <3>1, <3>3, Zenon
    <3>5. PICK w \in Nat, y \in Nat, q \in Nat, k \in Nat, n \in Nat :
             /\ w = Len(wire[c]) /\ y = Len(x) /\ q = Len(outbound[c])
             /\ k = Len(h) /\ n = Len(r)
      BY <3>2, Zenon
    <3>6. t = w + y /\ u = t + q /\ u + k = n
      BY <3>4, <3>5, Zenon
    <3>7. /\ 0 + w <= n /\ w + y <= n /\ w + y + q <= n /\ w + y + q + k = n
          /\ u = w + y + q /\ w + y + q + k <= n
      BY <3>6
    <3> QED
      BY <3>3, <3>5, <3>6, <3>7, Zenon
  <2>11. Part(wire[c], r, 0)
    <3>1. \A i \in 1..Len(wire[c]) : wire[c][i] = r[0 + i]
      BY <2>2, <2>6
    <3> QED
      BY <2>10, <3>1, Zenon DEF Part
  <2>12. /\ Part(x, r, Len(wire[c]))
         /\ Part(outbound[c], r, Len(wire[c]) + Len(x))
         /\ Part(h, r, Len(wire[c]) + Len(x) + Len(outbound[c]))
    <3>1. Part(x, r, Len(wire[c]))
      BY <2>7, <2>10, Zenon DEF Part
    <3>2. Part(outbound[c], r, Len(wire[c]) + Len(x))
      BY <2>8, <2>10, Zenon DEF Part
    <3>3. Part(h, r, Len(wire[c]) + Len(x) + Len(outbound[c]))
      BY <2>4, <2>10, Zenon DEF Part
    <3> QED
      BY <3>1, <3>2, <3>3
  <2>13. wire[c] \o x \o outbound[c] \o h = r
    BY <2>2, <2>3, <2>4, <2>10, <2>11, <2>12, FourParts, Zenon
  <2> QED
    BY <2>13 DEF Pipeline, x, h, r
<1>2. MonitorInv => NothingLostOnTheWay
  BY <1>1 DEF NothingLostOnTheWay
<1> QED
  BY <1>2, MonitorInductive, PTL
===============================================================================
