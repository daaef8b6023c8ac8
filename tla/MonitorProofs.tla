---------------------------- MODULE MonitorProofs -----------------------------
(***************************************************************************)
(* The publisher among its monitors, for any numbers of workers, monitors  *)
(* and events and any sizes of the buffers: no event is sent on a closed   *)
(* channel, a slow monitor takes no event away from another one, and each  *)
(* subscription gets its events once and in their order.                   *)
(***************************************************************************)
EXTENDS MonitorConnection, TLAPS

\* The types of the publisher's state.
PublisherTypes ==
    /\ subscriptions \subseteq Subscriptions
    /\ events \in [Subscriptions -> Seq(Events)]
    /\ received \in [Subscriptions -> Seq(Events)]
    /\ dropped \in [Subscriptions -> SUBSET Events]
    /\ publishing \in [Workers -> Events \union {NoEvent}]
    /\ remaining \in [Workers -> SUBSET Subscriptions]
    /\ began \subseteq Events
    /\ earlier \in [Events -> SUBSET Events]
    /\ due \in [Events -> SUBSET Subscriptions]

\* A loop reaches only subscriptions that are registered, because the map does
\* not change under the read lock; and those are open.
LoopInv ==
    /\ ~panicked
    /\ subscriptions \intersect closed = {}
    /\ \A w \in Workers :
          /\ remaining[w] \subseteq subscriptions
          /\ publishing[w] = NoEvent => remaining[w] = {}

Reached(e, s) == e \in Elements(Got(s)) \union dropped[s]

\* A subscription to which an event is due has it or is still to be reached by
\* the worker that publishes the event.
DueInv ==
    /\ \A w \in Workers : publishing[w] # NoEvent => publishing[w] \in began
    /\ \A e \in began : \A s \in due[e] :
          /\ Matches(e, s)
          /\ \/ Reached(e, s)
             \/ \E w \in Workers : publishing[w] = e /\ s \in remaining[w]

\* An event is published by one worker only, and never again.  What came before
\* another event is not being published when that is.
PublishedOnce ==
    /\ \A v, w \in Workers :
          publishing[v] = publishing[w] /\ publishing[w] # NoEvent => v = w
    /\ \A f \in Events :
          /\ earlier[f] \subseteq began
          /\ \A w \in Workers : publishing[w] \notin earlier[f]

\* A subscription got what was published, and not yet what a loop still has to
\* offer to it.
OrderInv ==
    /\ PublishedOnce
    /\ \A s \in Subscriptions : Elements(Got(s)) \subseteq began
    /\ \A w \in Workers : \A s \in remaining[w] :
          publishing[w] \notin Elements(Got(s))
    /\ DeliveredInOrder

PublisherInv == PublisherTypes /\ LoopInv /\ DueInv /\ OrderInv
-------------------------------------------------------------------------------
\* What a sequence with one more element holds.
LEMMA ElementsOfAppend ==
    ASSUME NEW S, NEW q \in Seq(S), NEW x \in S
    PROVE  Elements(Append(q, x)) = Elements(q) \union {x}
<1>1. Append(q, x) \in Seq(S) /\ Len(Append(q, x)) = Len(q) + 1
  OBVIOUS
<1>2. DOMAIN Append(q, x) = 1..(Len(q) + 1) /\ DOMAIN q = 1..Len(q)
  BY <1>1
<1>3. \A i \in 1..Len(q) : Append(q, x)[i] = q[i]
  OBVIOUS
<1>4. Append(q, x)[Len(q) + 1] = x
  OBVIOUS
<1>5. Len(q) \in Nat
  OBVIOUS
<1>6. 1..(Len(q) + 1) = 1..Len(q) \union {Len(q) + 1}
  BY <1>5
<1> QED
  BY <1>2, <1>3, <1>4, <1>6, Zenon DEF Elements

\* What two sequences in a row hold.
LEMMA ElementsOfConcat ==
    ASSUME NEW S, NEW q \in Seq(S), NEW r \in Seq(S)
    PROVE  Elements(q \o r) = Elements(q) \union Elements(r)
<1>1. /\ DOMAIN (q \o r) = 1..(Len(q) + Len(r))
      /\ DOMAIN q = 1..Len(q) /\ DOMAIN r = 1..Len(r)
      /\ Len(q) \in Nat /\ Len(r) \in Nat
  OBVIOUS
<1>2. \A i \in 1..Len(q) : i \in 1..(Len(q) + Len(r)) /\ (q \o r)[i] = q[i]
  BY <1>1
<1>3. \A i \in 1..Len(r) :
         Len(q) + i \in 1..(Len(q) + Len(r)) /\ (q \o r)[Len(q) + i] = r[i]
  BY <1>1
<1>4. \A i \in 1..(Len(q) + Len(r)) :
         i \in 1..Len(q) \/ (i - Len(q) \in 1..Len(r) /\ (q \o r)[i] = r[i - Len(q)])
  BY <1>1
<1>5. Elements(q \o r) \subseteq Elements(q) \union Elements(r)
  BY <1>1, <1>2, <1>4 DEF Elements
<1>6. Elements(q) \subseteq Elements(q \o r)
  BY <1>1, <1>2 DEF Elements
<1>7. Elements(r) \subseteq Elements(q \o r)
  BY <1>1, <1>3 DEF Elements
<1> QED
  BY <1>5, <1>6, <1>7

\* A sequence holds its head and what its tail holds.
LEMMA ElementsOfTail ==
    ASSUME NEW S, NEW q \in Seq(S), q # <<>>
    PROVE  Elements(q) = {Head(q)} \union Elements(Tail(q))
<1>1. /\ Len(q) \in Nat /\ Len(q) > 0 /\ DOMAIN q = 1..Len(q)
      /\ DOMAIN Tail(q) = 1..(Len(q) - 1)
  OBVIOUS
<1>2. Head(q) = q[1] /\ 1 \in 1..Len(q)
  BY <1>1
<1>3. \A i \in 1..(Len(q) - 1) : i + 1 \in 1..Len(q) /\ Tail(q)[i] = q[i + 1]
  BY <1>1
<1>4. \A i \in 1..Len(q) :
         i = 1 \/ (i - 1 \in 1..(Len(q) - 1) /\ q[i] = Tail(q)[i - 1])
  BY <1>1
<1>5. Elements(q) \subseteq {Head(q)} \union Elements(Tail(q))
  BY <1>1, <1>2, <1>4 DEF Elements
<1>6. {Head(q)} \union Elements(Tail(q)) \subseteq Elements(q)
  BY <1>1, <1>2, <1>3 DEF Elements
<1> QED
  BY <1>5, <1>6

\* What is where in two sequences in a row, and in one with one more element.
LEMMA ConcatFacts ==
    ASSUME NEW S, NEW r \in Seq(S), NEW q \in Seq(S)
    PROVE  /\ r \o q \in Seq(S) /\ Len(r \o q) = Len(r) + Len(q)
           /\ Len(r) \in Nat /\ Len(q) \in Nat
           /\ \A i \in 1..Len(r) : (r \o q)[i] = r[i]
           /\ \A i \in 1..Len(q) : (r \o q)[Len(r) + i] = q[i]
OBVIOUS

LEMMA AppendFacts ==
    ASSUME NEW S, NEW q \in Seq(S), NEW x \in S
    PROVE  /\ Append(q, x) \in Seq(S) /\ Len(Append(q, x)) = Len(q) + 1
           /\ \A i \in 1..Len(q) : Append(q, x)[i] = q[i]
           /\ Append(q, x)[Len(q) + 1] = x
OBVIOUS

LEMMA SameSequence ==
    ASSUME NEW S, NEW r \in Seq(S), NEW q \in Seq(S), Len(r) = Len(q),
           \A i \in 1..Len(r) : r[i] = q[i]
    PROVE  r = q
OBVIOUS

\* An element at the end of the second of two sequences is at the end of both.
LEMMA ConcatAppend ==
    ASSUME NEW S, NEW r \in Seq(S), NEW q \in Seq(S), NEW x \in S
    PROVE  r \o Append(q, x) = Append(r \o q, x)
<1>0. Append(q, x) \in Seq(S) /\ r \o q \in Seq(S)
  OBVIOUS
<1>1. PICK y \in Seq(S) : y = Append(q, x)
  BY <1>0, Zenon
<1>2. PICK p \in Seq(S) : p = r \o q
  BY <1>0, Zenon
<1>3. /\ y \in Seq(S) /\ Len(y) = Len(q) + 1
      /\ \A i \in 1..Len(q) : y[i] = q[i]
      /\ y[Len(q) + 1] = x
  BY <1>1, AppendFacts
<1>4. /\ p \in Seq(S) /\ Len(p) = Len(r) + Len(q) /\ Len(r) \in Nat /\ Len(q) \in Nat
      /\ \A i \in 1..Len(r) : p[i] = r[i]
      /\ \A i \in 1..Len(q) : p[Len(r) + i] = q[i]
  BY <1>2, ConcatFacts
<1>5. PICK a : a = r \o y
  OBVIOUS
<1>6. PICK b : b = Append(p, x)
  OBVIOUS
<1>7. /\ a \in Seq(S) /\ Len(a) = Len(r) + Len(y)
      /\ \A i \in 1..Len(r) : a[i] = r[i]
      /\ \A i \in 1..Len(y) : a[Len(r) + i] = y[i]
  BY <1>5, ConcatFacts
<1>8. /\ b \in Seq(S) /\ Len(b) = Len(p) + 1
      /\ \A i \in 1..Len(p) : b[i] = p[i]
      /\ b[Len(p) + 1] = x
  BY <1>4, <1>6, AppendFacts
<1>9. ASSUME NEW i \in 1..Len(a)
      PROVE  a[i] = b[i]
  <2>1. CASE i \in 1..Len(r)
    BY <1>4, <1>7, <1>8, <2>1
  <2>2. ASSUME NEW j \in 1..Len(q), i = Len(r) + j
        PROVE  a[i] = b[i]
    BY <1>3, <1>4, <1>7, <1>8, <2>2
  <2>3. CASE i = Len(r) + (Len(q) + 1)
    BY <1>3, <1>4, <1>7, <1>8, <2>3
  <2>4. Len(a) = Len(r) + (Len(q) + 1)
    BY <1>3, <1>7
  <2>5. \A m, n \in Nat : \A k \in 1..(m + (n + 1)) :
           /\ k \in 1..m \/ k - m \in 1..n \/ k = m + (n + 1)
           /\ k = m + (k - m)
    OBVIOUS
  <2>6. /\ i \in 1..Len(r) \/ i - Len(r) \in 1..Len(q) \/ i = Len(r) + (Len(q) + 1)
        /\ i = Len(r) + (i - Len(r))
    BY <1>4, <2>4, <2>5, Zenon
  <2> QED
    BY <2>1, <2>2, <2>3, <2>6
<1> QED
  BY <1>1, <1>2, <1>3, <1>4, <1>5, <1>6, <1>7, <1>8, <1>9, SameSequence

\* Two sequences in a row stay what they are when the head of the second goes to
\* the end of the first.
LEMMA ConcatMove ==
    ASSUME NEW S, NEW r \in Seq(S), NEW q \in Seq(S), q # <<>>
    PROVE  Append(r, Head(q)) \o Tail(q) = r \o q
<1>0. Head(q) \in S /\ Tail(q) \in Seq(S) /\ Append(r, Head(q)) \in Seq(S)
  OBVIOUS
<1>1. PICK h \in S, t \in Seq(S) : h = Head(q) /\ t = Tail(q)
  BY <1>0, Zenon
<1>2. /\ Len(q) \in Nat /\ Len(q) > 0 /\ h \in S /\ h = q[1]
      /\ t \in Seq(S) /\ Len(t) = Len(q) - 1
      /\ \A i \in 1..Len(t) : t[i] = q[i + 1]
  BY <1>1
<1>3. PICK y \in Seq(S) : y = Append(r, h)
  BY <1>0, <1>1, Zenon
<1>4. /\ y \in Seq(S) /\ Len(y) = Len(r) + 1
      /\ \A i \in 1..Len(r) : y[i] = r[i]
      /\ y[Len(r) + 1] = h
  BY <1>2, <1>3, AppendFacts
<1>5. PICK a, b : a = y \o t /\ b = r \o q
  OBVIOUS
<1>6. /\ a \in Seq(S) /\ Len(a) = Len(y) + Len(t)
      /\ \A i \in 1..Len(y) : a[i] = y[i]
      /\ \A i \in 1..Len(t) : a[Len(y) + i] = t[i]
  BY <1>5, ConcatFacts
<1>7. /\ b \in Seq(S) /\ Len(b) = Len(r) + Len(q) /\ Len(r) \in Nat
      /\ \A i \in 1..Len(r) : b[i] = r[i]
      /\ \A i \in 1..Len(q) : b[Len(r) + i] = q[i]
  BY <1>5, ConcatFacts
<1>8. ASSUME NEW i \in 1..Len(a)
      PROVE  a[i] = b[i]
  <2>1. CASE i \in 1..Len(r)
    BY <1>4, <1>6, <1>7, <2>1
  <2>2. CASE i = Len(r) + 1
    BY <1>2, <1>4, <1>6, <1>7, <2>2
  <2>3. ASSUME NEW j \in 1..Len(t), i = Len(y) + j
        PROVE  a[i] = b[i]
    <3>1. a[i] = q[j + 1] /\ j + 1 \in 1..Len(q)
      BY <1>2, <1>6, <2>3
    <3>2. i = Len(r) + (j + 1)
      BY <1>2, <1>4, <1>7, <2>3
    <3> QED
      BY <1>7, <3>1, <3>2
  <2>4. i \in 1..Len(r) \/ i = Len(r) + 1 \/ i - Len(y) \in 1..Len(t)
    BY <1>2, <1>4, <1>6, <1>7
  <2>5. i = Len(y) + (i - Len(y))
    BY <1>4, <1>6, <1>7
  <2> QED
    BY <2>1, <2>2, <2>3, <2>4, <2>5
<1>9. Len(a) = Len(b)
  BY <1>2, <1>4, <1>6, <1>7
<1> QED
  BY <1>1, <1>3, <1>5, <1>6, <1>7, <1>8, <1>9, SameSequence
-------------------------------------------------------------------------------
\* What the connections do to the publisher: one of its operations or nothing.
LEMMA PublisherSteps ==
    ASSUME [Next]_vars
    PROVE  \/ UNCHANGED publisherVars
           \/ \E s \in Subscriptions :
                 Subscribe(s) \/ Receive(s) \/ CloseSubscription(s)
           \/ \E w \in Workers : PublishStep(w)
<1>1. ASSUME NEW w \in Workers, WorkerStep(w) PROVE PublishStep(w)
  BY <1>1 DEF WorkerStep
<1>2. ASSUME NEW c \in Connections, SubscribeMessage(c) PROVE Subscribe(c)
  BY <1>2 DEF SubscribeMessage
<1>3. ASSUME NEW c \in Connections, ForwardStep(c)
      PROVE  UNCHANGED publisherVars \/ Receive(c) \/ CloseSubscription(c)
  BY <1>3 DEF ForwardStep, ForwardReceives, ForwardSends, ForwardControl,
              Unsubscribe
<1>4. ASSUME NEW c \in Connections, ConnectionStep(c)
      PROVE  UNCHANGED publisherVars
  BY <1>4 DEF ConnectionStep
<1>5. CASE UNCHANGED vars
  BY <1>5 DEF vars
<1> QED
  BY <1>1, <1>2, <1>3, <1>4, <1>5, MonitorAssumption DEF Next

\* Every operation of the publisher keeps the types.
LEMMA TypesStep ==
    ASSUME PublisherTypes, [Next]_vars
    PROVE  PublisherTypes'
<1> USE PublisherAssumption DEF PublisherTypes, Matches
<1>1. CASE UNCHANGED publisherVars
  BY <1>1 DEF publisherVars
<1>2. ASSUME NEW s \in Subscriptions, Subscribe(s) PROVE PublisherTypes'
  BY <1>2 DEF Subscribe, historyVars
<1>3. ASSUME NEW s \in Subscriptions, CloseSubscription(s) PROVE PublisherTypes'
  BY <1>3 DEF CloseSubscription, historyVars
<1>4. ASSUME NEW s \in Subscriptions, Receive(s) PROVE PublisherTypes'
  <2>1. events[s] \in Seq(Events) /\ events[s] # <<>>
    BY <1>4 DEF Receive
  <2>2. Head(events[s]) \in Events /\ Tail(events[s]) \in Seq(Events)
    BY <2>1
  <2>3. Append(received[s], Head(events[s])) \in Seq(Events)
    BY <2>2
  <2> QED
    BY <1>4, <2>2, <2>3 DEF Receive
<1>5. ASSUME NEW w \in Workers, NEW e \in Events, BeginPublish(w, e)
      PROVE  PublisherTypes'
  BY <1>5 DEF BeginPublish
<1>6. ASSUME NEW w \in Workers, NEW s \in Subscriptions, Offer(w, s)
      PROVE  PublisherTypes'
  <2>1. Matches(publishing[w], s) => publishing[w] \in Events
    OBVIOUS
  <2>2. Matches(publishing[w], s) => Append(events[s], publishing[w]) \in Seq(Events)
    BY <2>1
  <2>3. events' \in [Subscriptions -> Seq(Events)]
    BY <1>6, <2>2 DEF Offer
  <2>4. dropped' \in [Subscriptions -> SUBSET Events]
    BY <1>6, <2>1 DEF Offer
  <2> QED
    BY <1>6, <2>3, <2>4 DEF Offer, historyVars
<1>7. ASSUME NEW w \in Workers, EndPublish(w) PROVE PublisherTypes'
  BY <1>7 DEF EndPublish, historyVars
<1> QED
  BY PublisherSteps, <1>1, <1>2, <1>3, <1>4, <1>5, <1>6, <1>7 DEF PublishStep

\* The map and the channels change only while no loop runs.
LEMMA LoopStep ==
    ASSUME PublisherTypes, LoopInv, [Next]_vars
    PROVE  LoopInv'
<1> USE PublisherAssumption DEF PublisherTypes, LoopInv, Matches
<1>1. CASE UNCHANGED publisherVars
  BY <1>1 DEF publisherVars
<1>2. ASSUME NEW s \in Subscriptions, Subscribe(s) PROVE LoopInv'
  BY <1>2 DEF Subscribe, historyVars
<1>3. ASSUME NEW s \in Subscriptions, CloseSubscription(s) PROVE LoopInv'
  BY <1>3 DEF CloseSubscription, Unread, historyVars
<1>4. ASSUME NEW s \in Subscriptions, Receive(s) PROVE LoopInv'
  BY <1>4 DEF Receive
<1>5. ASSUME NEW w \in Workers, NEW e \in Events, BeginPublish(w, e)
      PROVE  LoopInv'
  BY <1>5 DEF BeginPublish
<1>6. ASSUME NEW w \in Workers, NEW s \in Subscriptions, Offer(w, s)
      PROVE  LoopInv'
  BY <1>6 DEF Offer, historyVars
<1>7. ASSUME NEW w \in Workers, EndPublish(w) PROVE LoopInv'
  BY <1>7 DEF EndPublish, historyVars
<1> QED
  BY PublisherSteps, <1>1, <1>2, <1>3, <1>4, <1>5, <1>6, <1>7 DEF PublishStep

\* What a subscription has reached it keeps, and Offer adds the event or notes
\* that it was dropped.
LEMMA ReachedStep ==
    ASSUME PublisherTypes, [Next]_vars, NEW e \in Events, NEW s \in Subscriptions,
           Reached(e, s)
    PROVE  Reached(e, s)'
<1> USE PublisherAssumption DEF PublisherTypes, Matches
<1> DEFINE all == Elements(received[s]) \union Elements(events[s])
<1>0. PublisherTypes'
  BY TypesStep
<1>1. Elements(Got(s)) = all
  BY ElementsOfConcat DEF Got
<1>2. Elements(Got(s))' = all'
  BY <1>0, ElementsOfConcat DEF Got
<1>3. ASSUME NEW t \in Subscriptions, Receive(t)
      PROVE  all \subseteq all' /\ dropped' = dropped
  <2>1. CASE t = s
    <3>1. /\ events[s] \in Seq(Events) /\ events[s] # <<>>
          /\ events'[s] = Tail(events[s])
          /\ received'[s] = Append(received[s], Head(events[s]))
      BY <1>3, <2>1 DEF Receive
    <3>2. Elements(events[s]) = {Head(events[s])} \union Elements(Tail(events[s]))
      BY <3>1, ElementsOfTail
    <3>3. Head(events[s]) \in Events
      BY <3>1
    <3>4. Elements(Append(received[s], Head(events[s])))
             = Elements(received[s]) \union {Head(events[s])}
      BY <3>3, ElementsOfAppend
    <3> QED
      BY <1>3, <3>1, <3>2, <3>4 DEF Receive
  <2>2. CASE t # s
    BY <1>3, <2>2 DEF Receive
  <2> QED
    BY <2>1, <2>2
<1>4. ASSUME NEW w \in Workers, NEW t \in Subscriptions, Offer(w, t)
      PROVE  all \subseteq all' /\ dropped[s] \subseteq dropped'[s]
  <2>1. received' = received
    BY <1>4 DEF Offer, historyVars
  <2>2. dropped[s] \subseteq dropped'[s]
    BY <1>4 DEF Offer
  <2>3. \/ events'[s] = events[s]
        \/ /\ publishing[w] \in Events
           /\ events'[s] = Append(events[s], publishing[w])
    BY <1>4 DEF Offer
  <2>4. CASE events'[s] = events[s]
    BY <2>1, <2>2, <2>4
  <2>5. CASE /\ publishing[w] \in Events
             /\ events'[s] = Append(events[s], publishing[w])
    <3>1. events[s] \in Seq(Events)
      OBVIOUS
    <3>2. Elements(events'[s]) = Elements(events[s]) \union {publishing[w]}
      BY <2>5, <3>1, ElementsOfAppend
    <3> QED
      BY <2>1, <2>2, <3>2
  <2> QED
    BY <2>3, <2>4, <2>5
<1>5. ASSUME \/ UNCHANGED publisherVars
             \/ \E t \in Subscriptions : Subscribe(t) \/ CloseSubscription(t)
             \/ \E w \in Workers : EndPublish(w) \/ \E f \in Events : BeginPublish(w, f)
      PROVE  events' = events /\ received' = received /\ dropped' = dropped
  BY <1>5 DEF publisherVars, historyVars, Subscribe, CloseSubscription, EndPublish,
              BeginPublish
<1>6. all \subseteq all' /\ dropped[s] \subseteq dropped'[s]
  BY PublisherSteps, <1>3, <1>4, <1>5 DEF PublishStep
<1> QED
  BY <1>1, <1>2, <1>6 DEF Reached

\* The worker whose loop reaches the subscription settles what is due to it.
LEMMA OfferReaches ==
    ASSUME PublisherTypes, LoopInv, [Next]_vars,
           NEW w \in Workers, NEW s \in Subscriptions, Offer(w, s),
           publishing[w] \in Events, Matches(publishing[w], s)
    PROVE  Reached(publishing[w], s)'
<1> USE DEF PublisherTypes, Matches
<1>1. s \notin closed
  BY DEF LoopInv, Offer
<1>2. PublisherTypes'
  BY TypesStep
<1>3. Elements(Got(s))' = Elements(received'[s]) \union Elements(events'[s])
  BY <1>2, ElementsOfConcat DEF Got
<1>4. publishing' = publishing
  BY DEF Offer
<1>5. CASE Len(events[s]) < BufferSize
  <2>1. events'[s] = Append(events[s], publishing[w]) /\ events[s] \in Seq(Events)
    BY <1>1, <1>5 DEF Offer
  <2>2. Elements(events'[s]) = Elements(events[s]) \union {publishing[w]}
    BY <2>1, ElementsOfAppend
  <2> QED
    BY <1>3, <1>4, <2>2 DEF Reached
<1>6. CASE ~(Len(events[s]) < BufferSize)
  <2>1. dropped'[s] = dropped[s] \union {publishing[w]}
    BY <1>1, <1>6 DEF Offer
  <2> QED
    BY <1>4, <2>1 DEF Reached
<1> QED
  BY <1>5, <1>6

\* What was due stays due until it is reached, and a new event is due to
\* subscriptions that the loop of its worker still has to reach.
LEMMA DueStep ==
    ASSUME PublisherTypes, LoopInv, DueInv, [Next]_vars
    PROVE  DueInv'
<1> USE PublisherAssumption DEF PublisherTypes, Matches
<1> DEFINE Coming(e, s) == \E v \in Workers : publishing[v] = e /\ s \in remaining[v]
<1>1. ASSUME UNCHANGED <<publishing, remaining, began, due>>
      PROVE  DueInv'
  <2>1. ASSUME NEW e \in began, NEW s \in due[e]
        PROVE  Matches(e, s) /\ (Reached(e, s)' \/ Coming(e, s)')
    BY <1>1, <2>1, ReachedStep DEF DueInv
  <2> QED
    BY <1>1, <2>1 DEF DueInv
<1>2. ASSUME NEW w \in Workers, NEW f \in Events, BeginPublish(w, f)
      PROVE  DueInv'
  <2>1. ASSUME NEW e \in began', NEW s \in due'[e], e = f
        PROVE  Matches(e, s) /\ Coming(e, s)'
    BY <1>2, <2>1 DEF BeginPublish
  <2>2. ASSUME NEW e \in began', NEW s \in due'[e], e # f
        PROVE  Matches(e, s) /\ (Reached(e, s)' \/ Coming(e, s)')
    <3>1. e \in began /\ s \in due[e] /\ s \in Subscriptions
      BY <1>2, <2>2 DEF BeginPublish
    <3>2. CASE Reached(e, s)
      BY <3>1, <3>2, ReachedStep DEF DueInv
    <3>3. ASSUME NEW v \in Workers, publishing[v] = e, s \in remaining[v]
          PROVE  Coming(e, s)'
      <4>1. v # w
        BY <1>2, <3>1, <3>3 DEF BeginPublish
      <4> QED
        BY <1>2, <3>3, <4>1 DEF BeginPublish
    <3> QED
      BY <3>1, <3>2, <3>3 DEF DueInv
  <2>3. \A v \in Workers : publishing'[v] # NoEvent => publishing'[v] \in began'
    BY <1>2 DEF BeginPublish, DueInv
  <2>4. ASSUME NEW e \in began', NEW s \in due'[e]
        PROVE  Matches(e, s) /\ (Reached(e, s)' \/ Coming(e, s)')
    BY <2>1, <2>2
  <2> QED
    BY <2>3, <2>4 DEF DueInv
<1>3. ASSUME NEW w \in Workers, NEW t \in Subscriptions, Offer(w, t)
      PROVE  DueInv'
  <2>1. began' = began /\ due' = due /\ publishing' = publishing
    BY <1>3 DEF Offer, historyVars
  <2>2. ASSUME NEW e \in began, NEW s \in due[e]
        PROVE  Matches(e, s) /\ (Reached(e, s)' \/ Coming(e, s)')
    <3>1. Matches(e, s) /\ s \in Subscriptions /\ e \in Events
      BY <2>2 DEF DueInv
    <3>2. CASE Reached(e, s)
      BY <3>1, <3>2, ReachedStep
    <3>3. ASSUME NEW v \in Workers, publishing[v] = e, s \in remaining[v]
          PROVE  Reached(e, s)' \/ Coming(e, s)'
      <4>1. CASE v = w /\ s = t
        <5>1. Reached(publishing[w], s)'
          BY <1>3, <3>1, <3>3, <4>1, OfferReaches
        <5> QED
          BY <2>1, <3>3, <4>1, <5>1 DEF Reached
      <4>2. CASE ~(v = w /\ s = t)
        BY <1>3, <2>1, <3>3, <4>2 DEF Offer
      <4> QED
        BY <4>1, <4>2
    <3> QED
      BY <2>2, <3>1, <3>2, <3>3 DEF DueInv
  <2> QED
    BY <2>1, <2>2 DEF DueInv
<1>4. ASSUME NEW w \in Workers, EndPublish(w)
      PROVE  DueInv'
  <2>1. began' = began /\ due' = due /\ remaining' = remaining
    BY <1>4 DEF EndPublish, historyVars
  <2>2. ASSUME NEW e \in began, NEW s \in due[e]
        PROVE  Matches(e, s) /\ (Reached(e, s)' \/ Coming(e, s)')
    <3>1. Matches(e, s) /\ s \in Subscriptions /\ e \in Events
      BY <2>2 DEF DueInv
    <3>2. CASE Reached(e, s)
      BY <3>1, <3>2, ReachedStep
    <3>3. ASSUME NEW v \in Workers, publishing[v] = e, s \in remaining[v]
          PROVE  Coming(e, s)'
      BY <1>4, <3>3 DEF EndPublish
    <3> QED
      BY <2>2, <3>1, <3>2, <3>3 DEF DueInv
  <2>3. \A v \in Workers : publishing'[v] # NoEvent => publishing'[v] \in began'
    BY <1>4, <2>1 DEF EndPublish, DueInv
  <2> QED
    BY <2>1, <2>2, <2>3 DEF DueInv
<1>5. ASSUME \/ UNCHANGED publisherVars
             \/ \E s \in Subscriptions :
                   Subscribe(s) \/ Receive(s) \/ CloseSubscription(s)
      PROVE  UNCHANGED <<publishing, remaining, began, due>>
  BY <1>5 DEF publisherVars, historyVars, Subscribe, Receive, CloseSubscription
<1> QED
  BY PublisherSteps, <1>1, <1>2, <1>3, <1>4, <1>5 DEF PublishStep

\* What the operations do to what a subscription got.
LEMMA GotOffer ==
    ASSUME PublisherTypes, NEW w \in Workers, NEW t \in Subscriptions, Offer(w, t),
           NEW s \in Subscriptions
    PROVE  \/ Got(s)' = Got(s)
           \/ t = s /\ publishing[w] \in Events /\ Got(s)' = Append(Got(s), publishing[w])
<1> USE PublisherAssumption DEF PublisherTypes, Matches
<1> SUFFICES ASSUME Got(s)' # Got(s)
             PROVE  /\ t = s /\ publishing[w] \in Events
                    /\ Got(s)' = Append(Got(s), publishing[w])
  OBVIOUS
<1>1. received' = received
  BY DEF Offer, historyVars
<1>2. t = s /\ publishing[w] \in Events /\ events'[s] = Append(events[s], publishing[w])
  BY <1>1 DEF Offer, Got
<1>3. received[s] \in Seq(Events) /\ events[s] \in Seq(Events)
  OBVIOUS
<1>4. received[s] \o Append(events[s], publishing[w])
        = Append(received[s] \o events[s], publishing[w])
  BY <1>2, <1>3, ConcatAppend
<1> QED
  BY <1>1, <1>2, <1>4 DEF Got

LEMMA GotOther ==
    ASSUME PublisherTypes, NEW s \in Subscriptions,
           \/ UNCHANGED publisherVars
           \/ \E t \in Subscriptions : Subscribe(t) \/ CloseSubscription(t) \/ Receive(t)
    PROVE  Got(s)' = Got(s)
<1>1. ASSUME NEW t \in Subscriptions, Receive(t)
      PROVE  Got(s)' = Got(s)
  <2>1. CASE t = s
    <3>1. /\ events[s] \in Seq(Events) /\ events[s] # <<>> /\ received[s] \in Seq(Events)
          /\ events'[s] = Tail(events[s])
          /\ received'[s] = Append(received[s], Head(events[s]))
      BY <1>1, <2>1 DEF Receive, PublisherTypes
    <3> QED
      BY <3>1, ConcatMove DEF Got
  <2>2. CASE t # s
    BY <1>1, <2>2 DEF Receive, Got, PublisherTypes
  <2> QED
    BY <2>1, <2>2
<1> QED
  BY <1>1 DEF publisherVars, historyVars, Subscribe, CloseSubscription, Got

LEMMA PublishedOnceStep ==
    ASSUME PublisherTypes, DueInv, PublishedOnce, [Next]_vars
    PROVE  PublishedOnce'
<1> USE PublisherAssumption DEF PublisherTypes, PublishedOnce
<1>1. ASSUME NEW w \in Workers, NEW f \in Events, BeginPublish(w, f)
      PROVE  PublishedOnce'
  <2>1. /\ publishing' = [publishing EXCEPT ![w] = f]
        /\ began' = began \union {f} /\ f \notin began
        /\ earlier' = [earlier EXCEPT ![f] = began \ {publishing[v] : v \in Workers}]
    BY <1>1 DEF BeginPublish
  <2>2. \A v \in Workers : publishing[v] # NoEvent => publishing[v] # f
    BY <2>1 DEF DueInv
  <2>3. \A u, v \in Workers :
           publishing'[u] = publishing'[v] /\ publishing'[v] # NoEvent => u = v
    BY <2>1, <2>2
  <2>4. ASSUME NEW g \in Events, NEW v \in Workers
        PROVE  earlier'[g] \subseteq began' /\ publishing'[v] \notin earlier'[g]
    <3>1. CASE g = f
      BY <2>1, <3>1
    <3>2. CASE g # f
      BY <2>1, <3>2
    <3> QED
      BY <3>1, <3>2
  <2>5. \A g \in Events : earlier'[g] \subseteq began'
    BY <2>4
  <2> QED
    BY <2>3, <2>4, <2>5
<1>2. ASSUME NEW w \in Workers, EndPublish(w)
      PROVE  PublishedOnce'
  BY <1>2 DEF EndPublish, historyVars
<1>3. ASSUME \/ UNCHANGED publisherVars
             \/ \E t \in Subscriptions : Subscribe(t) \/ CloseSubscription(t) \/ Receive(t)
             \/ \E w \in Workers : \E t \in Subscriptions : Offer(w, t)
      PROVE  UNCHANGED <<publishing, began, earlier>>
  BY <1>3 DEF publisherVars, historyVars, Subscribe, CloseSubscription, Receive, Offer
<1> QED
  BY PublisherSteps, <1>1, <1>2, <1>3 DEF PublishStep

\* A sequence that is in order stays so with one more element that is new and
\* came before nothing.
LEMMA OrderOfAppend ==
    ASSUME PublisherTypes, NEW q \in Seq(Events), NEW e \in Events, e \notin Elements(q),
           \A f \in Events : e \notin earlier[f],
           \A i, j \in DOMAIN q :
              (i # j => q[i] # q[j]) /\ (q[i] \in earlier[q[j]] => i < j)
    PROVE  \A i, j \in DOMAIN Append(q, e) :
              /\ i # j => Append(q, e)[i] # Append(q, e)[j]
              /\ Append(q, e)[i] \in earlier[Append(q, e)[j]] => i < j
<1>1. PICK n \in Nat : n = Len(q)
  <2>1. Len(q) \in Nat
    OBVIOUS
  <2> QED
    BY <2>1, Zenon
<1>2. PICK a : a = Append(q, e)
  OBVIOUS
<1>3. /\ DOMAIN a = 1..(n + 1) /\ DOMAIN q = 1..n
      /\ a[n + 1] = e /\ \A i \in 1..n : a[i] = q[i] /\ q[i] \in Events /\ q[i] # e
  BY <1>1, <1>2, AppendFacts DEF Elements
<1>4. \A i \in 1..(n + 1) : i \in 1..n \/ i = n + 1
  OBVIOUS
<1>5. \A i \in 1..n : i < n + 1 /\ i # n + 1
  OBVIOUS
<1>6. ASSUME NEW i \in DOMAIN a, NEW j \in DOMAIN a
      PROVE  (i # j => a[i] # a[j]) /\ (a[i] \in earlier[a[j]] => i < j)
  <2>1. CASE i \in 1..n /\ j \in 1..n
    BY <1>3, <2>1
  <2>2. CASE i \in 1..n /\ j = n + 1
    BY <1>3, <1>5, <2>2
  <2>3. CASE i = n + 1
    BY <1>3, <1>4, <2>3
  <2> QED
    BY <1>3, <1>4, <2>1, <2>2, <2>3
<1> QED
  BY <1>2, <1>6

LEMMA OrderStep ==
    ASSUME PublisherTypes, LoopInv, DueInv, OrderInv, [Next]_vars
    PROVE  OrderInv'
<1> DEFINE InOrder(s) == \A i, j \in DOMAIN Got(s) :
              /\ i # j => Got(s)[i] # Got(s)[j]
              /\ Got(s)[i] \in earlier[Got(s)[j]] => i < j
           GotInv(s) ==
              /\ Elements(Got(s)) \subseteq began
              /\ \A w \in Workers : s \in remaining[w] => publishing[w] \notin Elements(Got(s))
              /\ InOrder(s)
<1>1. PublishedOnce'
  BY PublishedOnceStep DEF OrderInv
<1>2. PublisherTypes'
  BY TypesStep
<1>3. \A s \in Subscriptions : GotInv(s)
  BY DEF OrderInv, DeliveredInOrder
<1>4. \A s \in Subscriptions : Got(s) \in Seq(Events)
  BY ConcatFacts DEF Got, PublisherTypes
<1>5. ASSUME NEW s \in Subscriptions, UNCHANGED <<publishing, began, earlier>>,
             \A w \in Workers : remaining'[w] \subseteq remaining[w], Got(s)' = Got(s)
      PROVE  GotInv(s)'
  BY <1>3, <1>5
<1>6. ASSUME NEW w \in Workers, NEW t \in Subscriptions, Offer(w, t), NEW s \in Subscriptions
      PROVE  GotInv(s)'
  <2>1. /\ UNCHANGED <<publishing, began, earlier>>
        /\ remaining' = [remaining EXCEPT ![w] = @ \ {t}] /\ t \in remaining[w]
    BY <1>6 DEF Offer, historyVars
  <2>2. \A v \in Workers : remaining'[v] \subseteq remaining[v]
    BY <2>1 DEF PublisherTypes
  <2>3. CASE Got(s)' = Got(s)
    BY <1>5, <2>1, <2>2, <2>3
  <2>4. CASE Got(s)' # Got(s)
    <3>1. s = t /\ publishing[w] \in Events /\ Got(s)' = Append(Got(s), publishing[w])
      BY <1>6, <2>4, GotOffer DEF OrderInv
    <3> DEFINE e == publishing[w]
    <3>2. e \in began /\ e \notin Elements(Got(s)) /\ \A f \in Events : e \notin earlier[f]
      BY <1>3, <2>1, <3>1, PublisherAssumption DEF DueInv, OrderInv, PublishedOnce
    <3>3. Elements(Got(s)') = Elements(Got(s)) \union {e}
      BY <1>4, <3>1, ElementsOfAppend
    <3>4. \A v \in Workers : s \in remaining'[v] => publishing[v] # e /\ s \in remaining[v]
      BY <2>1, <3>1, PublisherAssumption DEF PublisherTypes, OrderInv, PublishedOnce
    <3>5. InOrder(s)'
      BY <1>3, <1>4, <2>1, <3>1, <3>2, OrderOfAppend
    <3> QED
      BY <1>3, <2>1, <3>2, <3>3, <3>4, <3>5
  <2> QED
    BY <2>3, <2>4
<1>7. ASSUME NEW w \in Workers, NEW f \in Events, BeginPublish(w, f), NEW s \in Subscriptions
      PROVE  GotInv(s)'
  <2>1. /\ publishing' = [publishing EXCEPT ![w] = f]
        /\ remaining' = [remaining EXCEPT ![w] = subscriptions]
        /\ began' = began \union {f} /\ f \notin began
        /\ earlier' = [earlier EXCEPT ![f] = began \ {publishing[v] : v \in Workers}]
        /\ Got(s)' = Got(s)
    BY <1>7 DEF BeginPublish, Got
  <2>2. f \notin Elements(Got(s)) /\ Elements(Got(s)) \subseteq began'
    BY <1>3, <2>1
  <2>3. \A v \in Workers : s \in remaining'[v] => publishing'[v] \notin Elements(Got(s))
    BY <1>3, <2>1, <2>2 DEF PublisherTypes
  <2>4. \A j \in DOMAIN Got(s) : earlier'[Got(s)[j]] = earlier[Got(s)[j]]
    BY <1>4, <2>1, <2>2 DEF PublisherTypes, Elements
  <2>5. InOrder(s)'
    <3> SUFFICES ASSUME NEW i \in DOMAIN Got(s), NEW j \in DOMAIN Got(s)
                 PROVE  /\ i # j => Got(s)[i] # Got(s)[j]
                        /\ Got(s)[i] \in earlier'[Got(s)[j]] => i < j
      BY <2>1
    <3> QED
      BY <1>3, <2>4
  <2> QED
    BY <2>1, <2>2, <2>3, <2>5
<1>8. ASSUME NEW w \in Workers, EndPublish(w), NEW s \in Subscriptions
      PROVE  GotInv(s)'
  <2>1. /\ publishing' = [publishing EXCEPT ![w] = NoEvent] /\ remaining[w] = {}
        /\ UNCHANGED <<began, earlier, remaining>> /\ Got(s)' = Got(s)
    BY <1>8 DEF EndPublish, historyVars, Got
  <2>2. \A v \in Workers : s \in remaining'[v] => publishing'[v] \notin Elements(Got(s))
    BY <1>3, <2>1 DEF PublisherTypes
  <2> QED
    BY <1>3, <2>1, <2>2
<1>9. ASSUME \/ UNCHANGED publisherVars
             \/ \E t \in Subscriptions : Subscribe(t) \/ CloseSubscription(t) \/ Receive(t),
             NEW s \in Subscriptions
      PROVE  GotInv(s)'
  <2>1. UNCHANGED <<publishing, began, earlier, remaining>>
    BY <1>9 DEF publisherVars, historyVars, Subscribe, CloseSubscription, Receive
  <2>2. Got(s)' = Got(s)
    BY <1>9, GotOther
  <2> QED
    BY <1>5, <2>1, <2>2
<1>10. \A s \in Subscriptions : GotInv(s)'
  BY PublisherSteps, <1>6, <1>7, <1>8, <1>9 DEF PublishStep
<1> QED
  <2>1. \A w \in Workers : remaining'[w] \subseteq Subscriptions
    BY <1>2 DEF PublisherTypes
  <2> QED
    BY <1>1, <1>10, <2>1 DEF OrderInv, DeliveredInOrder
-------------------------------------------------------------------------------
\* The inductive invariant holds in every reachable state.
THEOREM PublisherInductive == Spec => []PublisherInv
<1>1. Init => PublisherInv
  <2>1. Init => PublisherTypes /\ LoopInv /\ DueInv /\ PublishedOnce
    BY PublisherAssumption DEF Init, PublisherInit, PublisherTypes, LoopInv, DueInv,
       PublishedOnce
  <2>2. Init => \A s \in Subscriptions : DOMAIN Got(s) = {}
    BY DEF Init, PublisherInit, Got
  <2> QED
    BY <2>1, <2>2 DEF PublisherInv, OrderInv, DeliveredInOrder, Elements,
       Init, PublisherInit
<1>2. PublisherInv /\ [Next]_vars => PublisherInv'
  BY TypesStep, LoopStep, DueStep, OrderStep DEF PublisherInv
<1> QED
  BY <1>1, <1>2, PTL DEF Spec

\* No worker sends an event on a channel that Close has closed, whatever the
\* monitors do meanwhile (publisher.go:54-64, 72-77).
THEOREM NoSendOnClosed == Spec => []NeverSendsOnClosed
<1>1. PublisherInv => NeverSendsOnClosed
  BY DEF PublisherInv, LoopInv, NeverSendsOnClosed
<1> QED
  BY <1>1, PublisherInductive, PTL

\* When Publish returns, every open subscription that wants the event has it,
\* or had no room for it (publisher.go:54-64).
THEOREM EveryoneServed == Spec => []PublishedToAll
<1>1. PublisherInv => PublishedToAll
  BY DEF PublisherInv, DueInv, PublishedToAll, Reached
<1> QED
  BY <1>1, PublisherInductive, PTL

\* However many workers publish at the same time, a subscription gets an event at
\* most once, and two events in their order when Publish had returned for the one
\* before it was called for the other (publisher.go:54-64).
THEOREM EventsInOrder == Spec => []DeliveredInOrder
<1>1. PublisherInv => DeliveredInOrder
  BY DEF PublisherInv, OrderInv
<1> QED
  BY <1>1, PublisherInductive, PTL
===============================================================================
