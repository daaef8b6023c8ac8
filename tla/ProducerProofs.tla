---------------------------- MODULE ProducerProofs -----------------------------
(***************************************************************************)
(* What a producer reads off its connection, for any numbers of            *)
(* connections, messages and events and any size of the outbound queue:    *)
(* the replies are those to its messages, one for each and in their order, *)
(* and an acknowledgement is true.                                         *)
(***************************************************************************)
EXTENDS ProducerConnection, TLAPS

\* The reader has a message that has no reply yet.
Pending == {"submit", "await", "answer", "control"}

\* The reader takes no more messages.
Leaving == {"returning", "closeSocket", "ended"}

\* What is queued can still reach the client.
Live(c) == pump[c] # "stopped" /\ socket[c] = "open" /\ ~gone[c]

\* The messages that have left the queue and reached the client or the pump, and
\* with them those in the queue.
Taken(c) == IF pump[c] = "writing" THEN Len(wire[c]) + 1 ELSE Len(wire[c])
Total(c) == Taken(c) + Len(outbound[c])

\* What message number k of a connection may be.
Right(c, m, k) ==
    \/ m = ErrorMessage /\ reader[c] \in Leaving
    \/ \E kind \in {"ack", "error"} :
          /\ m = Reply(k, kind) /\ k \in 1..Current(c)
          /\ kind = "ack" => jobs[c][k] = "ok"

\* Where the goroutines are and what has happened so far.
PlaceInv(c) ==
    /\ reader[c] = "handshake" => pump[c] = "off"
    /\ reader[c] \in Pending => Current(c) > 0
    /\ reader[c] = "submit" => jobs[c][Current(c)] = "none"
    /\ answer[c] = "ack" => jobs[c][Current(c)] = "ok"
    /\ \A i \in Requests : jobs[c][i] = "ok" => asked[c][i] \in stored

\* What reached the client, and nothing follows an error.
WireInv(c) ==
    \A k \in 1..Len(wire[c]) :
       /\ Right(c, wire[c][k], k)
       /\ wire[c][k] = ErrorMessage =>
             k = Len(wire[c]) /\ (Live(c) => Total(c) = k)

\* What is on its way while it can reach the client: each message at its number,
\* an error at the end, and none left out.  A reply that is left out for lack of
\* room is the last that could, because the close frame stops the writes.
QueueInv(c) ==
    Live(c) =>
       /\ pump[c] = "writing" =>
             /\ Right(c, writing[c], Taken(c))
             /\ writing[c] = ErrorMessage => Total(c) = Taken(c)
       /\ \A i \in 1..Len(outbound[c]) :
             /\ Right(c, outbound[c][i], Taken(c) + i)
             /\ outbound[c][i] = ErrorMessage => i = Len(outbound[c])
       /\ reader[c] \in {"handshake", "reading", "lastControl"} => Total(c) = Current(c)
       /\ reader[c] \in Pending => Total(c) + 1 = Current(c)

ConnectionInv(c) == PlaceInv(c) /\ WireInv(c) /\ QueueInv(c)

ProducerInv == TypeOK /\ \A c \in Connections : ConnectionInv(c)
-------------------------------------------------------------------------------
(***************************************************************************)
(* Types.                                                                  *)
(***************************************************************************)
LEMMA ReplyTypes ==
    ASSUME NEW i \in Requests, NEW kind \in {"ack", "error"}
    PROVE  Reply(i, kind) \in Message /\ Reply(i, kind) # ErrorMessage
BY ProducerAssumption DEF Message, Reply

LEMMA MessageTypes == NoMessage \notin Message /\ ErrorMessage \in Message
<1>1. ASSUME NEW m \in [request : Requests, kind : {"ack", "error"}]
      PROVE  m # NoMessage
  <2>1. m = Reply(m.request, m.kind) /\ m.request \in Requests /\ m.kind \in {"ack", "error"}
    BY DEF Reply
  <2> QED
    BY <2>1, ProducerAssumption
<1> QED
  BY <1>1, ConnectionAssumption DEF Message

LEMMA TypesStep ==
    ASSUME TypeOK, \A c \in Connections : PlaceInv(c), [Next]_vars
    PROVE  TypeOK'
<1> USE MessageTypes, ConnectionAssumption, ProducerAssumption
    DEF TypeOK, Current, Requests
<1>1. CASE UNCHANGED vars
  BY <1>1 DEF vars, connectionVars, producerVars
<1>2. ASSUME NEW c \in Connections, NEW e \in Events, EventMessage(c, e)
      PROVE  TypeOK'
  <2>1. /\ Append(asked[c], e) \in Seq(Events)
        /\ Len(Append(asked[c], e)) = Len(asked[c]) + 1 /\ Len(asked[c]) \in Nat
    OBVIOUS
  <2> QED
    BY <1>2, <2>1 DEF EventMessage, Local, ReaderGoes, pumpVars
<1>3. ASSUME NEW c \in Connections, Refuse(c) \/ ReceiveOutcome(c) \/ TimeOut(c)
      PROVE  TypeOK'
  <2>1. PICK v \in {"ack", "error"} : answer' = [answer EXCEPT ![c] = v]
    BY <1>3 DEF Refuse, ReceiveOutcome, TimeOut
  <2>2. /\ \E from \in {"submit", "await"} : Local(c, from, "answer")
        /\ UNCHANGED <<asked, jobs, stored>>
    BY <1>3 DEF Refuse, ReceiveOutcome, TimeOut
  <2> QED
    BY <2>1, <2>2 DEF Local, ReaderGoes, pumpVars
<1>4. ASSUME NEW c \in Connections, NEW i \in Requests, i <= Current(c),
             NEW v \in {"none", "queued", "ok", "error"}, jobs' = [jobs EXCEPT ![c][i] = v],
             asked' = asked
      PROVE  /\ jobs' \in [Connections -> [Requests -> {"none", "queued", "ok", "error"}]]
             /\ \A d \in Connections : \A k \in Requests :
                   jobs'[d][k] # "none" => k <= Len(asked'[d])
  <2>1. /\ jobs'[c] = [jobs[c] EXCEPT ![i] = v]
        /\ \A d \in Connections \ {c} : jobs'[d] = jobs[d]
    BY <1>4
  <2>2. \A d \in Connections : jobs[d] \in [Requests -> {"none", "queued", "ok", "error"}]
    OBVIOUS
  <2>3. jobs'[c] \in [Requests -> {"none", "queued", "ok", "error"}]
    BY <2>1, <2>2
  <2> QED
    BY <1>4, <2>1, <2>2, <2>3
<1>5. ASSUME NEW c \in Connections, Accept(c)
      PROVE  TypeOK'
  <2>1. /\ Current(c) \in Requests /\ asked' = asked
        /\ jobs' = [jobs EXCEPT ![c][Current(c)] = "queued"]
    BY <1>5 DEF Accept, Local, ReaderGoes, PlaceInv, Pending
  <2>2. /\ jobs' \in [Connections -> [Requests -> {"none", "queued", "ok", "error"}]]
        /\ \A d \in Connections : \A k \in Requests :
              jobs'[d][k] # "none" => k <= Len(asked'[d])
    BY <1>4, <2>1
  <2> QED
    BY <1>5, <2>2 DEF Accept, Local, ReaderGoes, pumpVars
<1>6. ASSUME NEW c \in Connections, NEW m \in Message, NEW sent, NEW full,
             Send(c, m, sent, full)
      PROVE  /\ outbound' \in [Connections -> Seq(Message)]
             /\ \A d \in Connections : Len(outbound'[d]) <= OutboundSize
  <2>1. /\ Append(outbound[c], m) \in Seq(Message)
        /\ Len(Append(outbound[c], m)) = Len(outbound[c]) + 1 /\ Len(outbound[c]) \in Nat
    OBVIOUS
  <2> QED
    BY <1>6, <2>1 DEF Send, HasRoom
<1>7. ASSUME NEW c \in Connections, SendAnswer(c)
      PROVE  TypeOK'
  <2>0. Current(c) \in Requests /\ answer[c] \in {"ack", "error"}
    BY <1>7 DEF SendAnswer, PlaceInv, Pending
  <2>1. Reply(Current(c), answer[c]) \in Message
    BY <2>0, ReplyTypes
  <2> QED
    BY <1>6, <1>7, <2>1 DEF SendAnswer, Send
<1>8. ASSUME NEW c \in Connections, AnswerControl(c)
      PROVE  TypeOK'
  BY <1>8 DEF AnswerControl, WriteControl, ReaderGoes, producerVars
<1>9. ASSUME NEW c \in Connections, ConnectionStep(c)
      PROVE  TypeOK'
  <2> USE <1>9 DEF ConnectionStep, producerVars
  <2>1. CASE Handshake(c)
    <3>1. /\ reader[c] = "handshake" /\ pump[c] = "off" /\ writing[c] = NoMessage
          /\ UNCHANGED <<outbound, outboundClosed, writing, socket, gone, wire,
                         asked, answer, jobs, stored>>
      BY <2>1 DEF Handshake, ReaderGoes, PlaceInv
    <3>2. \E to \in {"reading", "closeSocket"} : reader' = [reader EXCEPT ![c] = to]
      BY <2>1 DEF Handshake, ReaderGoes
    <3>3. \E place \in {"waiting", "off"} : pump' = [pump EXCEPT ![c] = place]
      BY <2>1, <3>1 DEF Handshake
    <3> QED
      BY <3>1, <3>2, <3>3
  <2>2. CASE LastControl(c)
    BY <2>2 DEF LastControl, WriteControl, ReaderGoes
  <2>3. CASE CloseOutbound(c)
    BY <2>3 DEF CloseOutbound, ReaderGoes
  <2>4. CASE CloseSocket(c)
    BY <2>4 DEF CloseSocket, ReaderGoes
  <2>5. CASE ReadFails(c)
    BY <1>6, <2>5 DEF ReadFails, Send
  <2>6. CASE PumpTakes(c)
    <3>1. /\ outbound[c] \in Seq(Message) /\ outbound[c] # <<>>
          /\ Head(outbound[c]) \in Message /\ Tail(outbound[c]) \in Seq(Message)
          /\ Len(Tail(outbound[c])) = Len(outbound[c]) - 1 /\ Len(outbound[c]) \in Nat
      BY <2>6 DEF PumpTakes
    <3> QED
      BY <2>6, <3>1 DEF PumpTakes
  <2>7. CASE PumpWrites(c)
    <3>1. writing[c] \in Message
      BY <2>7 DEF PumpWrites
    <3>2. Append(wire[c], writing[c]) \in Seq(Message)
      BY <3>1
    <3> QED
      BY <2>7, <3>2 DEF PumpWrites
  <2>8. CASE PumpReturns(c)
    BY <2>8 DEF PumpReturns
  <2>9. CASE PumpFails(c)
    BY <2>9 DEF PumpFails
  <2>10. CASE ClientLeaves(c)
    BY <2>10 DEF ClientLeaves
  <2> QED
    BY <2>1, <2>5, <2>6, <2>7, <2>8, <2>2, <2>3, <2>4, <2>9, <2>10 DEF ReturnStep, PumpStep
<1>10. ASSUME NEW c \in Connections, NEW i \in Requests, Finish(c, i)
      PROVE  TypeOK'
  <2>1. PICK v \in {"ok", "error"} : jobs' = [jobs EXCEPT ![c][i] = v]
    BY <1>10 DEF Finish
  <2>2. i <= Current(c) /\ asked' = asked /\ asked[c][i] \in Events
    <3>1. jobs[c][i] # "none" /\ asked' = asked
      BY <1>10 DEF Finish
    <3>2. i \in 1..Len(asked[c]) /\ asked[c] \in Seq(Events)
      BY <3>1
    <3> QED
      BY <3>1, <3>2
  <2>3. /\ jobs' \in [Connections -> [Requests -> {"none", "queued", "ok", "error"}]]
        /\ \A d \in Connections : \A k \in Requests :
              jobs'[d][k] # "none" => k <= Len(asked'[d])
    BY <1>4, <2>1, <2>2
  <2>4. stored' \subseteq Events
    BY <1>10, <2>2 DEF Finish
  <2> QED
    BY <1>10, <2>3, <2>4 DEF Finish, connectionVars
<1> QED
  BY <1>1, <1>2, <1>3, <1>7, <1>8, <1>9, <1>10, <1>5 DEF Next, HandleStep
-------------------------------------------------------------------------------
(***************************************************************************)
(* One connection.                                                         *)
(***************************************************************************)
\* What makes a message the right one stays: the messages read, and their
\* outcomes, and that the reader leaves.
Onward(c) ==
    /\ reader[c] \in Leaving => reader'[c] \in Leaving
    /\ Current(c) <= Current(c)'
    /\ \A i \in 1..Current(c) : jobs[c][i] = "ok" => jobs'[c][i] = "ok"

LEMMA RightStays ==
    ASSUME TypeOK, TypeOK', NEW c \in Connections, Onward(c), NEW m, NEW k, Right(c, m, k)
    PROVE  Right(c, m, k)'
<1>1. Current(c) \in Nat /\ Current(c)' \in Nat
  BY DEF TypeOK, Current
<1> QED
  BY <1>1 DEF Onward, Right

\* A step that leaves the messages alone and keeps the count.
LEMMA QuietStep ==
    ASSUME TypeOK, TypeOK', NEW c \in Connections, ConnectionInv(c), Onward(c),
           UNCHANGED <<outbound[c], writing[c], wire[c]>>,
           Live(c)' => Live(c) /\ (pump'[c] = "writing" <=> pump[c] = "writing"),
           PlaceInv(c)',
           Live(c)' => /\ reader'[c] \in {"handshake", "reading", "lastControl"} =>
                             Total(c) = Current(c)'
                       /\ reader'[c] \in Pending => Total(c) + 1 = Current(c)'
    PROVE  ConnectionInv(c)'
<1>1. \A m, k : Right(c, m, k) => Right(c, m, k)'
  BY RightStays
<1>2. Live(c)' => Taken(c)' = Taken(c) /\ Total(c)' = Total(c)
  BY DEF Taken, Total
<1>3. WireInv(c)'
  BY <1>1, <1>2 DEF ConnectionInv, WireInv
<1>4. QueueInv(c)'
  BY <1>1, <1>2 DEF ConnectionInv, QueueInv
<1> QED
  BY <1>3, <1>4 DEF ConnectionInv

\* A connection that no step touches, except for what is stored.
LEMMA UntouchedStep ==
    ASSUME TypeOK, TypeOK', NEW c \in Connections, ConnectionInv(c),
           UNCHANGED <<reader[c], outbound[c], pump[c], writing[c], wire[c], socket[c],
                       gone[c], asked[c], answer[c], jobs[c]>>,
           stored \subseteq stored'
    PROVE  ConnectionInv(c)'
<1>1. Onward(c)
  BY DEF TypeOK, Onward, Current
<1>2. PlaceInv(c)'
  BY DEF ConnectionInv, PlaceInv, Current
<1>3. Live(c)' <=> Live(c)
  BY DEF Live
<1>4. Current(c)' = Current(c)
  BY DEF Current
<1> QED
  BY <1>1, <1>2, <1>3, <1>4, QuietStep DEF ConnectionInv, QueueInv

\* Send, by a reader that has put no error into the queue.
LEMMA SendStep ==
    ASSUME TypeOK, TypeOK', NEW c \in Connections, ConnectionInv(c),
           NEW m \in Message, NEW sent, NEW full, Send(c, m, sent, full), HasRoom(c),
           reader[c] \notin Leaving, UNCHANGED <<asked, jobs>>, PlaceInv(c)',
           Live(c) => Right(c, m, Total(c))',
           reader'[c] \in {"handshake", "reading", "lastControl"} /\ Live(c) =>
              Total(c) + 1 = Current(c),
           reader'[c] \notin Pending
    PROVE  ConnectionInv(c)'
<1> DEFINE q == outbound[c]
<1>1. /\ q \in Seq(Message) /\ Len(q) \in Nat /\ Len(wire[c]) \in Nat
      /\ outbound'[c] = Append(q, m)
      /\ UNCHANGED <<pump, writing, wire, socket, gone>>
  BY DEF TypeOK, Send
<1>2. /\ Len(Append(q, m)) = Len(q) + 1
      /\ \A i \in 1..Len(q) : Append(q, m)[i] = q[i]
      /\ Append(q, m)[Len(q) + 1] = m
  BY <1>1
<1>3. Onward(c) /\ Current(c)' = Current(c)
  BY DEF Onward, Current, TypeOK
<1>4. \A x, k : Right(c, x, k) => Right(c, x, k)' /\ x # ErrorMessage
  <2>1. \A k : Right(c, ErrorMessage, k) => FALSE
    <3> SUFFICES ASSUME NEW k, Right(c, ErrorMessage, k)  PROVE FALSE
      OBVIOUS
    <3>1. PICK kind \in {"ack", "error"} :
             ErrorMessage = Reply(k, kind) /\ k \in 1..Current(c)
      BY DEF Right
    <3>2. k \in Requests
      <4>1. Current(c) \in Nat /\ Current(c) <= MaxRequests
        BY DEF TypeOK, Current
      <4> QED
        BY <3>1, <4>1, ProducerAssumption DEF Requests
    <3> QED
      BY <3>1, <3>2, ProducerAssumption
  <2> QED
    BY <1>3, <2>1, RightStays
<1>5. /\ Live(c)' <=> Live(c)
      /\ Taken(c)' = Taken(c) /\ Taken(c) \in Nat
      /\ Total(c)' = Total(c) + 1 /\ Total(c) = Taken(c) + Len(q)
  <2>1. Live(c)' <=> Live(c)
    BY <1>1 DEF Live
  <2>2. Taken(c)' = Taken(c)
    BY <1>1 DEF Taken
  <2>3. Taken(c) \in Nat
    <3>1. Len(wire[c]) \in Nat /\ Len(wire[c]) + 1 \in Nat
      BY <1>1
    <3> QED
      BY <3>1 DEF Taken
  <2>4. Total(c)' = Taken(c)' + Len(outbound'[c])
    BY DEF Total
  <2> QED
    BY <1>1, <1>2, <2>1, <2>2, <2>3, <2>4 DEF Total
<1>6. WireInv(c)'
  BY <1>1, <1>4 DEF ConnectionInv, WireInv
<1>7. QueueInv(c)'
  <2> SUFFICES ASSUME Live(c)  PROVE QueueInv(c)'
    BY <1>5 DEF QueueInv
  <2>1. QueueInv(c)!2
    BY DEF ConnectionInv, QueueInv
  <2>2. pump'[c] = "writing" => Right(c, writing[c], Taken(c))' /\ writing'[c] # ErrorMessage
    BY <1>1, <1>4, <1>5, <2>1
  <2>3. ASSUME NEW i \in 1..Len(outbound'[c])
        PROVE  /\ Right(c, outbound[c][i], Taken(c) + i)'
               /\ outbound'[c][i] = ErrorMessage => i = Len(outbound'[c])
    <3>1. CASE i \in 1..Len(q)
      <4>1. PICK x, k : x = q[i] /\ k = Taken(c) + i
        OBVIOUS
      <4>2. outbound'[c][i] = x /\ Right(c, x, k)
        BY <1>1, <1>2, <2>1, <3>1, <4>1
      <4>3. x # ErrorMessage /\ Right(c, x, k)'
        BY <1>4, <4>2
      <4>4. k = Taken(c)' + i
        BY <1>5, <4>1
      <4> QED
        BY <4>2, <4>3, <4>4
    <3>2. CASE i = Len(q) + 1
      <4>1. outbound'[c][i] = m /\ Total(c)' = Taken(c)' + i /\ i = Len(outbound'[c])
        BY <1>1, <1>2, <1>5, <3>2
      <4> QED
        BY <4>1
    <3> QED
      BY <1>1, <1>2, <2>3, <3>1, <3>2
  <2> QED
    BY <1>3, <1>5, <2>2, <2>3 DEF QueueInv
<1> QED
  BY <1>6, <1>7 DEF ConnectionInv
\* Once the pump cannot write any more, what it was to write does not matter.
LEMMA DeadStep ==
    ASSUME TypeOK, TypeOK', NEW c \in Connections, ConnectionInv(c), Onward(c),
           UNCHANGED wire[c], ~Live(c)', PlaceInv(c)'
    PROVE  ConnectionInv(c)'
<1>1. \A m, k : Right(c, m, k) => Right(c, m, k)'
  BY RightStays
<1>2. WireInv(c)'
  BY <1>1 DEF ConnectionInv, WireInv
<1>3. QueueInv(c)'
  BY DEF QueueInv
<1> QED
  BY <1>2, <1>3 DEF ConnectionInv

\* Steps of the pump leave the reader where it is.
LEMMA PlaceOfPump ==
    ASSUME TypeOK, TypeOK', NEW c \in Connections, PlaceInv(c), pump[c] # "off",
           UNCHANGED <<reader, producerVars>>
    PROVE  PlaceInv(c)' /\ Onward(c) /\ Current(c)' = Current(c)
<1>1. Current(c)' = Current(c) /\ Current(c) \in Nat
  BY DEF Current, producerVars, TypeOK
<1> QED
  BY <1>1 DEF PlaceInv, Onward, producerVars

LEMMA PumpTakesStep ==
    ASSUME TypeOK, TypeOK', NEW c \in Connections, ConnectionInv(c),
           PumpTakes(c), UNCHANGED producerVars
    PROVE  ConnectionInv(c)'
<1> DEFINE q == outbound[c]
<1>1. /\ q \in Seq(Message) /\ q # <<>> /\ Len(q) \in Nat /\ Len(wire[c]) \in Nat
      /\ pump[c] = "waiting" /\ pump'[c] = "writing"
      /\ outbound'[c] = Tail(q) /\ writing'[c] = Head(q)
      /\ UNCHANGED <<reader, wire, socket, gone>>
  BY DEF TypeOK, PumpTakes
<1>2. /\ Len(q) > 0 /\ Len(Tail(q)) = Len(q) - 1 /\ Head(q) = q[1]
      /\ \A i \in 1..Len(Tail(q)) : i + 1 \in 1..Len(q) /\ Tail(q)[i] = q[i + 1]
  BY <1>1
<1>3. PlaceInv(c)' /\ Onward(c) /\ Current(c)' = Current(c)
  BY <1>1, PlaceOfPump DEF ConnectionInv
<1>4. \A m, k : Right(c, m, k) => Right(c, m, k)'
  BY <1>3, RightStays
<1>5. /\ Live(c)' <=> Live(c)
      /\ Taken(c) \in Nat /\ Taken(c)' = Taken(c) + 1
      /\ Total(c)' = Total(c) /\ Total(c) = Taken(c) + Len(q)
  <2>1. Live(c)' <=> Live(c)
    BY <1>1 DEF Live
  <2>2. Taken(c) = Len(wire[c]) /\ Taken(c)' = Len(wire[c]) + 1
    BY <1>1 DEF Taken
  <2>3. Total(c)' = Taken(c)' + Len(Tail(q)) /\ Total(c) = Taken(c) + Len(q)
    BY <1>1 DEF Total
  <2>4. Taken(c) \in Nat /\ Taken(c)' = Taken(c) + 1
    BY <1>1, <2>2
  <2>5. Total(c)' = Total(c)
    BY <1>1, <1>2, <2>3, <2>4
  <2> QED
    BY <2>1, <2>3, <2>4, <2>5
<1>6. WireInv(c)'
  BY <1>1, <1>4, <1>5 DEF ConnectionInv, WireInv
<1>7. QueueInv(c)'
  <2> SUFFICES ASSUME Live(c)  PROVE QueueInv(c)'
    BY <1>5 DEF QueueInv
  <2>1. QueueInv(c)!2
    BY DEF ConnectionInv, QueueInv
  <2>2. ASSUME NEW j \in 1..Len(q)
        PROVE  /\ \E m, k : m = q[j] /\ k = Taken(c) + j /\ Right(c, m, k)'
               /\ q[j] = ErrorMessage => j = Len(q)
    <3>1. PICK m, k : m = q[j] /\ k = Taken(c) + j
      OBVIOUS
    <3>2. Right(c, m, k) /\ (q[j] = ErrorMessage => j = Len(q))
      BY <2>1, <3>1
    <3>3. Right(c, m, k)'
      BY <1>4, <3>2
    <3> QED
      BY <3>1, <3>2, <3>3
  <2>3. Right(c, writing[c], Taken(c))' /\ (writing'[c] = ErrorMessage => Total(c)' = Taken(c)')
    <3>1. 1 \in 1..Len(q)
      BY <1>1, <1>2
    <3>2. PICK m, k : m = q[1] /\ k = Taken(c) + 1 /\ Right(c, m, k)'
      BY <2>2, <3>1
    <3>3. m = writing'[c] /\ k = Taken(c)'
      BY <1>1, <1>2, <1>5, <3>2
    <3>4. m = ErrorMessage => Total(c)' = Taken(c)'
      BY <1>1, <1>2, <1>5, <2>2, <3>1, <3>2
    <3> QED
      BY <3>2, <3>3, <3>4
  <2>4. ASSUME NEW i \in 1..Len(outbound'[c])
        PROVE  /\ Right(c, outbound[c][i], Taken(c) + i)'
               /\ outbound'[c][i] = ErrorMessage => i = Len(outbound'[c])
    <3>1. i + 1 \in 1..Len(q) /\ outbound'[c][i] = q[i + 1]
      BY <1>1, <1>2
    <3>2. PICK m, k : m = q[i + 1] /\ k = Taken(c) + (i + 1) /\ Right(c, m, k)'
      BY <2>2, <3>1
    <3>3. i \in Nat
      BY <1>1, <1>2
    <3>4. m = outbound'[c][i] /\ k = Taken(c)' + i
      BY <1>5, <3>1, <3>2, <3>3
    <3>5. q[i + 1] = ErrorMessage => i + 1 = Len(q)
      BY <2>2, <3>1
    <3>6. q[i + 1] = ErrorMessage => i = Len(outbound'[c])
      BY <1>1, <1>2, <3>3, <3>5
    <3> QED
      BY <3>1, <3>2, <3>4, <3>6
  <2> QED
    BY <1>1, <1>3, <1>5, <2>1, <2>3, <2>4 DEF QueueInv
<1> QED
  BY <1>3, <1>6, <1>7 DEF ConnectionInv

LEMMA PumpWritesStep ==
    ASSUME TypeOK, TypeOK', NEW c \in Connections, ConnectionInv(c),
           PumpWrites(c), UNCHANGED producerVars
    PROVE  ConnectionInv(c)'
<1>1. /\ pump[c] = "writing" /\ pump'[c] = "waiting" /\ socket[c] = "open"
      /\ UNCHANGED <<reader, outbound, socket, gone>>
  BY DEF TypeOK, PumpWrites
<1>2. PlaceInv(c)' /\ Onward(c) /\ Current(c)' = Current(c)
  BY <1>1, PlaceOfPump DEF ConnectionInv
<1>3. CASE gone[c]
  <2>1. ~Live(c)' /\ wire' = wire
    BY <1>1, <1>3 DEF Live, PumpWrites
  <2> QED
    BY <1>2, <2>1, DeadStep
<1>4. CASE ~gone[c]
  <2> DEFINE w == wire[c]
  <2>1. /\ w \in Seq(Message) /\ writing[c] \in Message /\ Len(w) \in Nat
        /\ Len(outbound[c]) \in Nat
        /\ wire'[c] = Append(w, writing[c])
    BY <1>1, <1>4 DEF TypeOK, PumpWrites
  <2>2. /\ Len(Append(w, writing[c])) = Len(w) + 1
        /\ \A k \in 1..Len(w) : Append(w, writing[c])[k] = w[k]
        /\ Append(w, writing[c])[Len(w) + 1] = writing[c]
    BY <2>1
  <2>3. \A m, k : Right(c, m, k) => Right(c, m, k)'
    BY <1>2, RightStays
  <2>4. /\ Live(c) /\ Live(c)'
        /\ Taken(c) = Len(w) + 1 /\ Taken(c)' = Taken(c)
        /\ Total(c)' = Total(c) /\ Total(c) = Taken(c) + Len(outbound[c])
        /\ Taken(c) \in Nat
    <3>1. Live(c) /\ Live(c)'
      BY <1>1, <1>4 DEF Live
    <3>2. Taken(c) = Len(w) + 1 /\ Taken(c)' = Len(w) + 1
      BY <1>1, <2>1, <2>2 DEF Taken
    <3>3. Total(c)' = Taken(c)' + Len(outbound[c]) /\ Total(c) = Taken(c) + Len(outbound[c])
      BY <1>1 DEF Total
    <3> QED
      BY <3>1, <3>2, <3>3
  <2>5. QueueInv(c)!2 /\ Right(c, writing[c], Taken(c))
    BY <1>1, <2>4 DEF ConnectionInv, QueueInv
  <2>6. WireInv(c)'
    <3> SUFFICES ASSUME NEW k \in 1..Len(wire'[c])
                 PROVE  /\ Right(c, wire[c][k], k)'
                        /\ wire'[c][k] = ErrorMessage =>
                              k = Len(wire'[c]) /\ Total(c)' = k
      BY DEF WireInv
    <3>1. CASE k \in 1..Len(w)
      <4>1. PICK m : m = w[k]
        OBVIOUS
      <4>2. /\ wire'[c][k] = m /\ Right(c, m, k)
            /\ m = ErrorMessage => k = Len(w) /\ Total(c) = k
        BY <2>1, <2>2, <2>4, <3>1, <4>1 DEF ConnectionInv, WireInv
      <4>3. m # ErrorMessage
        <5>1. Len(w) \in Nat /\ Len(outbound[c]) \in Nat
          BY <2>1
        <5>2. Total(c) = Len(w) + 1 + Len(outbound[c])
          BY <2>4
        <5>3. \A a, b \in Nat : a + 1 + b # a
          OBVIOUS
        <5>4. Total(c) # Len(w)
          BY <5>1, <5>2, <5>3, Zenon
        <5> QED
          BY <4>2, <5>4
      <4> QED
        BY <2>3, <4>2, <4>3
    <3>2. CASE k = Len(w) + 1
      <4>1. PICK m : m = writing[c]
        OBVIOUS
      <4>2. wire'[c][k] = m /\ k = Taken(c) /\ k = Len(wire'[c])
        BY <2>1, <2>2, <2>4, <3>2, <4>1
      <4>3. Right(c, m, k)
        BY <2>5, <4>1, <4>2
      <4>4. m = ErrorMessage => Total(c)' = k
        BY <1>1, <2>4, <2>5, <4>1, <4>2
      <4> QED
        BY <2>3, <4>2, <4>3, <4>4
    <3> QED
      BY <2>1, <2>2, <3>1, <3>2
  <2>7. QueueInv(c)'
    <3>1. ASSUME NEW i \in 1..Len(outbound[c])
          PROVE  /\ \E m, k : m = outbound[c][i] /\ k = Taken(c)' + i /\ Right(c, m, k)'
                 /\ outbound[c][i] = ErrorMessage => i = Len(outbound[c])
      <4>1. PICK m, k : m = outbound[c][i] /\ k = Taken(c)' + i
        OBVIOUS
      <4>2. Right(c, m, k) /\ (m = ErrorMessage => i = Len(outbound[c]))
        BY <2>4, <2>5, <4>1
      <4> QED
        BY <2>3, <4>1, <4>2
    <3> QED
      BY <1>1, <1>2, <2>4, <2>5, <3>1 DEF QueueInv
  <2> QED
    BY <1>2, <2>6, <2>7 DEF ConnectionInv
<1> QED
  BY <1>3, <1>4
-------------------------------------------------------------------------------
(***************************************************************************)
(* The steps of the reader.                                                *)
(***************************************************************************)
LEMMA EventMessageStep ==
    ASSUME TypeOK, TypeOK', NEW c \in Connections, ConnectionInv(c),
           NEW e \in Events, EventMessage(c, e)
    PROVE  ConnectionInv(c)'
<1>1. /\ reader[c] = "reading" /\ reader'[c] = "submit"
      /\ asked'[c] = Append(asked[c], e) /\ asked[c] \in Seq(Events)
      /\ UNCHANGED <<outbound, pump, writing, wire, socket, gone, answer, jobs, stored>>
  BY DEF EventMessage, Local, ReaderGoes, pumpVars, TypeOK
<1>2. /\ Current(c) \in Nat /\ Current(c)' = Current(c) + 1 /\ Current(c)' \in Requests
      /\ \A i \in 1..Current(c) : asked'[c][i] = asked[c][i]
  BY <1>1, ProducerAssumption DEF EventMessage, Current, Requests
<1>3. \A i \in Requests : jobs[c][i] # "none" => i \in 1..Current(c)
  BY <1>2 DEF TypeOK, Requests
<1>4. Onward(c)
  BY <1>1, <1>2 DEF Onward, Leaving
<1>5. PlaceInv(c)'
  <2>1. jobs'[c][Current(c)'] = "none"
    BY <1>1, <1>2, <1>3
  <2>2. answer'[c] # "ack"
    BY <1>1 DEF TypeOK
  <2>3. \A i \in Requests : jobs'[c][i] = "ok" => asked'[c][i] \in stored'
    BY <1>1, <1>2, <1>3 DEF ConnectionInv, PlaceInv
  <2>4. Current(c)' > 0 /\ reader'[c] # "handshake"
    BY <1>1, <1>2
  <2> QED
    BY <2>1, <2>2, <2>3, <2>4 DEF PlaceInv
<1>6. Live(c)' <=> Live(c)
  BY <1>1 DEF Live
<1>7. Live(c) => Total(c) = Current(c)
  BY <1>1 DEF ConnectionInv, QueueInv
<1> QED
  BY <1>1, <1>2, <1>4, <1>5, <1>6, <1>7, QuietStep

\* The steps from the submission of an event to the choice of the reply.
LEMMA HandlingStep ==
    ASSUME TypeOK, TypeOK', NEW c \in Connections, ConnectionInv(c),
           Refuse(c) \/ Accept(c) \/ ReceiveOutcome(c) \/ TimeOut(c)
    PROVE  ConnectionInv(c)'
<1>1. /\ reader[c] \in Pending /\ reader'[c] \in {"await", "answer"}
      /\ UNCHANGED <<outbound, pump, writing, wire, socket, gone, asked, stored>>
  BY DEF Refuse, Accept, ReceiveOutcome, TimeOut, Local, ReaderGoes, pumpVars, TypeOK,
         Pending
<1>2. /\ Current(c)' = Current(c) /\ Current(c) \in Nat /\ Current(c) > 0
      /\ Current(c) \in Requests
  BY <1>1, ProducerAssumption DEF ConnectionInv, PlaceInv, Current, TypeOK, Requests
<1>3. \A i \in Requests : jobs'[c][i] = "ok" <=> jobs[c][i] = "ok"
  <2>1. CASE Accept(c)
    <3>1. /\ jobs[c][Current(c)] = "none"
          /\ jobs' = [jobs EXCEPT ![c][Current(c)] = "queued"]
      BY <2>1 DEF Accept, Local, ReaderGoes, ConnectionInv, PlaceInv
    <3>2. jobs'[c] = [jobs[c] EXCEPT ![Current(c)] = "queued"]
      BY <3>1 DEF TypeOK
    <3> QED
      BY <1>2, <3>1, <3>2 DEF TypeOK
  <2>2. CASE Refuse(c) \/ ReceiveOutcome(c) \/ TimeOut(c)
    BY <2>2 DEF Refuse, ReceiveOutcome, TimeOut
  <2> QED
    BY <2>1, <2>2
<1>4. Onward(c)
  <2>1. \A i \in 1..Current(c) : i \in Requests
    BY <1>2, ProducerAssumption DEF Requests
  <2> QED
    BY <1>1, <1>2, <1>3, <2>1 DEF Onward, Leaving, Pending
<1>5. answer'[c] = "ack" => jobs'[c][Current(c)] = "ok"
  <2>1. CASE Refuse(c) \/ TimeOut(c)
    BY <2>1 DEF Refuse, TimeOut, TypeOK
  <2>2. CASE Accept(c)
    BY <2>2 DEF Accept, Local, ReaderGoes, TypeOK
  <2>3. CASE ReceiveOutcome(c)
    BY <2>3 DEF ReceiveOutcome, TypeOK
  <2> QED
    BY <2>1, <2>2, <2>3
<1>6. PlaceInv(c)'
  BY <1>1, <1>2, <1>3, <1>5 DEF ConnectionInv, PlaceInv
<1>7. Live(c)' <=> Live(c)
  BY <1>1 DEF Live
<1>8. Live(c) => Total(c) + 1 = Current(c)
  BY <1>1 DEF ConnectionInv, QueueInv
<1> QED
  BY <1>1, <1>2, <1>4, <1>6, <1>7, <1>8, QuietStep

\* What Send does when the queue has no room.
LEMMA FullStep ==
    ASSUME TypeOK, TypeOK', NEW c \in Connections, NEW m, NEW sent, NEW full,
           Send(c, m, sent, full), ~HasRoom(c)
    PROVE  /\ reader'[c] = full
           /\ UNCHANGED <<outbound, pump, writing, wire, socket, gone>>
           /\ Live(c)' <=> Live(c)
<1>1. reader'[c] = full /\ UNCHANGED <<outbound, pump, writing, wire, socket, gone>>
  BY DEF Send, TypeOK
<1> QED
  BY <1>1 DEF Live

LEMMA SendAnswerStep ==
    ASSUME TypeOK, TypeOK', NEW c \in Connections, ConnectionInv(c), SendAnswer(c)
    PROVE  ConnectionInv(c)'
<1>0. PICK m : m = Reply(Current(c), answer[c])
  OBVIOUS
<1>1. /\ reader[c] = "answer" /\ answer[c] \in {"ack", "error"} /\ answer'[c] = "none"
      /\ Send(c, m, "reading", "control") /\ UNCHANGED <<asked, jobs, stored>>
  BY <1>0 DEF SendAnswer, TypeOK
<1>2. /\ Current(c)' = Current(c) /\ Current(c) \in Nat /\ Current(c) > 0
      /\ Current(c) \in Requests
  BY <1>1, ProducerAssumption DEF ConnectionInv, PlaceInv, Current, TypeOK, Requests, Pending
<1>3. reader'[c] = IF HasRoom(c) THEN "reading" ELSE "control"
  BY <1>1 DEF Send, TypeOK
<1>4. PlaceInv(c)'
  BY <1>1, <1>2, <1>3 DEF ConnectionInv, PlaceInv
<1>5. Live(c) => Total(c) + 1 = Current(c)
  BY <1>1 DEF ConnectionInv, QueueInv, Pending
<1>6. CASE HasRoom(c)
  <2>1. m \in Message
    BY <1>0, <1>1, <1>2, ReplyTypes
  <2>2. answer[c] = "ack" => jobs'[c][Current(c)] = "ok"
    BY <1>1 DEF ConnectionInv, PlaceInv
  <2>3. PICK k, kind : k = Current(c) /\ kind = answer[c]
    OBVIOUS
  <2>4. Right(c, m, k)'
    <3>1. k \in 1..Current(c)' /\ m = Reply(k, kind) /\ kind \in {"ack", "error"}
      BY <1>0, <1>1, <1>2, <2>3
    <3>2. kind = "ack" => jobs'[c][k] = "ok"
      BY <2>2, <2>3
    <3> QED
      BY <3>1, <3>2 DEF Right
  <2>5. Live(c) => Total(c)' = k
    <3>1. /\ outbound'[c] = Append(outbound[c], m) /\ outbound[c] \in Seq(Message)
          /\ UNCHANGED <<pump, wire>>
      BY <1>1, <1>6 DEF Send, TypeOK
    <3>2. Len(outbound'[c]) = Len(outbound[c]) + 1 /\ Len(outbound[c]) \in Nat
      BY <2>1, <3>1
    <3>3. Taken(c)' = Taken(c) /\ Taken(c) \in Nat
      <4>1. Len(wire[c]) \in Nat /\ Len(wire[c]) + 1 \in Nat
        BY DEF TypeOK
      <4> QED
        BY <3>1, <4>1 DEF Taken
    <3>4. Total(c)' = Total(c) + 1
      BY <3>2, <3>3 DEF Total
    <3> QED
      BY <1>5, <2>3, <3>4
  <2>6. Live(c) => Right(c, m, Total(c))'
    BY <2>4, <2>5
  <2> QED
    BY <1>1, <1>3, <1>4, <1>5, <1>6, <2>1, <2>6, SendStep DEF Leaving, Pending
<1>7. CASE ~HasRoom(c)
  <2>1. /\ reader'[c] = "control"
        /\ UNCHANGED <<outbound, pump, writing, wire, socket, gone>>
        /\ Live(c)' <=> Live(c)
    BY <1>1, <1>7, FullStep
  <2>2. Onward(c)
    BY <1>1, <1>2 DEF Onward, Leaving
  <2> QED
    BY <1>2, <1>4, <1>5, <2>1, <2>2, QuietStep
<1> QED
  BY <1>6, <1>7

LEMMA ReadFailsStep ==
    ASSUME TypeOK, TypeOK', NEW c \in Connections, ConnectionInv(c),
           ReadFails(c), UNCHANGED producerVars
    PROVE  ConnectionInv(c)'
<1>1. /\ reader[c] = "reading" /\ Send(c, ErrorMessage, "returning", "lastControl")
      /\ UNCHANGED <<asked, answer, jobs, stored>>
  BY DEF ReadFails, producerVars
<1>2. Current(c)' = Current(c) /\ Current(c) \in Nat
  BY <1>1 DEF Current, TypeOK
<1>3. reader'[c] = IF HasRoom(c) THEN "returning" ELSE "lastControl"
  BY <1>1 DEF Send, TypeOK
<1>4. PlaceInv(c)'
  BY <1>1, <1>2, <1>3 DEF ConnectionInv, PlaceInv, Pending
<1>5. Live(c) => Total(c) = Current(c)
  BY <1>1 DEF ConnectionInv, QueueInv
<1>6. CASE HasRoom(c)
  <2>1. reader'[c] \in Leaving /\ reader'[c] \notin Pending
    BY <1>3, <1>6 DEF Leaving, Pending
  <2>2. Right(c, ErrorMessage, Total(c))'
    BY <2>1 DEF Right
  <2> QED
    BY <1>1, <1>3, <1>4, <1>6, <2>1, <2>2, MessageTypes, SendStep DEF Leaving
<1>7. CASE ~HasRoom(c)
  <2>1. /\ reader'[c] = "lastControl"
        /\ UNCHANGED <<outbound, pump, writing, wire, socket, gone>>
        /\ Live(c)' <=> Live(c)
    BY <1>1, <1>7, FullStep
  <2>2. Onward(c)
    BY <1>1, <1>2 DEF Onward, Leaving
  <2> QED
    BY <1>2, <1>4, <1>5, <2>1, <2>2, QuietStep DEF Pending
<1> QED
  BY <1>6, <1>7

\* After a close frame the pump writes nothing more.
LEMMA WriteControlStep ==
    ASSUME TypeOK, TypeOK', NEW c \in Connections, ConnectionInv(c),
           NEW from, NEW to \in {"reading", "returning"}, WriteControl(c, from, to),
           from \in {"control", "lastControl"}, UNCHANGED producerVars
    PROVE  ConnectionInv(c)'
<1>1. /\ reader[c] = from /\ reader'[c] = to
      /\ UNCHANGED <<pump, wire, asked, answer, jobs, stored>>
      /\ socket'[c] = IF socket[c] = "open" /\ pump[c] # "stopped" THEN "closeSent" ELSE socket[c]
  BY DEF WriteControl, ReaderGoes, producerVars, TypeOK
<1>2. Current(c)' = Current(c) /\ Current(c) \in Nat
  BY <1>1 DEF Current, TypeOK
<1>3. PlaceInv(c)'
  BY <1>1, <1>2 DEF ConnectionInv, PlaceInv, Pending
<1>4. ~Live(c)'
  BY <1>1 DEF Live
<1>5. Onward(c)
  BY <1>1, <1>2 DEF Onward, Leaving
<1> QED
  BY <1>1, <1>3, <1>4, <1>5, DeadStep

LEMMA HandshakeStep ==
    ASSUME TypeOK, TypeOK', NEW c \in Connections, ConnectionInv(c),
           Handshake(c), UNCHANGED producerVars
    PROVE  ConnectionInv(c)'
<1>1. /\ reader[c] = "handshake" /\ pump[c] = "off"
      /\ reader'[c] \in {"reading", "closeSocket"} /\ pump'[c] \in {"waiting", "off"}
      /\ UNCHANGED <<outbound, writing, wire, socket, gone, asked, answer, jobs, stored>>
  BY DEF Handshake, ReaderGoes, producerVars, TypeOK, ConnectionInv, PlaceInv
<1>2. Current(c)' = Current(c) /\ Current(c) \in Nat
  BY <1>1 DEF Current, TypeOK
<1>3. PlaceInv(c)'
  BY <1>1, <1>2 DEF ConnectionInv, PlaceInv, Pending
<1>4. Live(c)' <=> Live(c)
  BY <1>1 DEF Live
<1>5. Onward(c)
  BY <1>1, <1>2 DEF Onward, Leaving
<1>6. Live(c) => Total(c) = Current(c)
  BY <1>1 DEF ConnectionInv, QueueInv
<1> QED
  BY <1>1, <1>2, <1>3, <1>4, <1>5, <1>6, QuietStep DEF Pending

LEMMA ClosingStep ==
    ASSUME TypeOK, TypeOK', NEW c \in Connections, ConnectionInv(c),
           CloseOutbound(c) \/ CloseSocket(c), UNCHANGED producerVars
    PROVE  ConnectionInv(c)'
<1>1. /\ reader[c] \in {"returning", "closeSocket"} /\ reader'[c] \in {"closeSocket", "ended"}
      /\ UNCHANGED <<outbound, pump, writing, wire, gone, asked, answer, jobs, stored>>
      /\ socket'[c] \in {socket[c], "closed"}
  BY DEF CloseOutbound, CloseSocket, ReaderGoes, producerVars, TypeOK
<1>2. Current(c)' = Current(c) /\ Current(c) \in Nat
  BY <1>1 DEF Current, TypeOK
<1>3. PlaceInv(c)'
  BY <1>1, <1>2 DEF ConnectionInv, PlaceInv, Pending
<1>4. Live(c)' => Live(c)
  BY <1>1 DEF Live
<1>5. Onward(c)
  BY <1>1, <1>2 DEF Onward, Leaving
<1> QED
  BY <1>1, <1>3, <1>4, <1>5, QuietStep DEF Pending

\* The pump stops, or the client leaves.
LEMMA StoppingStep ==
    ASSUME TypeOK, TypeOK', NEW c \in Connections, ConnectionInv(c),
           PumpReturns(c) \/ PumpFails(c) \/ ClientLeaves(c), UNCHANGED producerVars
    PROVE  ConnectionInv(c)'
<1>1. /\ UNCHANGED <<reader, wire, asked, answer, jobs, stored>>
      /\ pump[c] = "off" => pump'[c] = "off"
  <2>1. CASE PumpReturns(c) \/ PumpFails(c)
    BY <2>1 DEF PumpReturns, PumpFails, producerVars
  <2>2. CASE ClientLeaves(c)
    BY <2>2 DEF ClientLeaves, producerVars
  <2> QED
    BY <2>1, <2>2
<1>2. ~Live(c)'
  <2>1. CASE PumpReturns(c) \/ PumpFails(c)
    <3>1. pump' = [pump EXCEPT ![c] = "stopped"]
      BY <2>1 DEF PumpReturns, PumpFails
    <3> QED
      BY <3>1 DEF Live, TypeOK
  <2>2. CASE ClientLeaves(c)
    <3>1. gone' = [gone EXCEPT ![c] = TRUE] /\ c \in DOMAIN gone
      BY <2>2 DEF ClientLeaves, TypeOK
    <3>2. gone'[c]
      BY <3>1, Zenon
    <3> QED
      BY <3>2, Zenon DEF Live
  <2> QED
    BY <2>1, <2>2
<1>3. Current(c)' = Current(c) /\ Current(c) \in Nat
  BY <1>1 DEF Current, TypeOK
<1>4. PlaceInv(c)'
  BY <1>1, <1>3 DEF ConnectionInv, PlaceInv
<1>5. Onward(c)
  BY <1>1, <1>3 DEF Onward
<1> QED
  BY <1>1, <1>2, <1>4, <1>5, DeadStep

\* A worker ends a job whose outcome the reader may not wait for any more.
LEMMA FinishStep ==
    ASSUME TypeOK, TypeOK', NEW c \in Connections, ConnectionInv(c),
           NEW i \in Requests, Finish(c, i)
    PROVE  ConnectionInv(c)'
<1>1. /\ jobs[c][i] = "queued"
      /\ UNCHANGED <<reader, outbound, pump, writing, wire, socket, gone, asked, answer>>
  BY DEF Finish, connectionVars
<1>2. PICK v \in {"ok", "error"} :
         /\ jobs' = [jobs EXCEPT ![c][i] = v]
         /\ v = "ok" => asked[c][i] \in stored'
  BY DEF Finish
<1>3. /\ jobs'[c] = [jobs[c] EXCEPT ![i] = v]
      /\ jobs[c] \in [Requests -> {"none", "queued", "ok", "error"}]
  BY <1>2 DEF TypeOK
<1>4. /\ jobs'[c][i] = v
      /\ \A k \in Requests : k # i => jobs'[c][k] = jobs[c][k]
  BY <1>3
<1>5. stored \subseteq stored'
  BY DEF Finish
<1>6. Current(c)' = Current(c) /\ Current(c) \in Nat /\ Current(c) <= MaxRequests
  BY <1>1 DEF Current, TypeOK
<1>7. \A k \in 1..Current(c) : k \in Requests
  BY <1>6, ProducerAssumption DEF Requests
<1>8. Onward(c)
  BY <1>1, <1>4, <1>6, <1>7 DEF Onward
<1>9. Current(c) > 0 => Current(c) \in 1..Current(c)
  BY <1>6
<1>10. PlaceInv(c)'
  <2>1. reader[c] = "submit" => jobs'[c][Current(c)] = "none"
    BY <1>1, <1>4, <1>7, <1>9 DEF ConnectionInv, PlaceInv, Pending
  <2>2. answer[c] = "ack" => jobs'[c][Current(c)] = "ok"
    <3>1. answer[c] = "ack" => reader[c] \in Pending
      BY DEF TypeOK, Pending
    <3> QED
      BY <1>1, <1>4, <1>7, <1>9, <3>1 DEF ConnectionInv, PlaceInv
  <2>3. \A k \in Requests : jobs'[c][k] = "ok" => asked[c][k] \in stored'
    BY <1>1, <1>2, <1>4, <1>5 DEF ConnectionInv, PlaceInv
  <2> QED
    BY <1>1, <1>6, <2>1, <2>2, <2>3 DEF ConnectionInv, PlaceInv
<1>11. Live(c)' <=> Live(c)
  BY <1>1 DEF Live
<1> QED
  BY <1>1, <1>6, <1>8, <1>10, <1>11, QuietStep DEF ConnectionInv, QueueInv
-------------------------------------------------------------------------------
(***************************************************************************)
(* The specification.                                                      *)
(***************************************************************************)
LEMMA ProducerInit == Init => ProducerInv
<1> SUFFICES ASSUME Init  PROVE ProducerInv
  OBVIOUS
<1> USE ProducerAssumption, ConnectionAssumption, MessageTypes
    DEF Init, ConnectionInit, Current, Requests
<1>1. \A S : <<>> \in Seq(S)
  OBVIOUS
<1>2. TypeOK
  BY <1>1 DEF TypeOK
<1>3. ASSUME NEW c \in Connections
      PROVE  PlaceInv(c) /\ WireInv(c) /\ QueueInv(c)
  <2>1. PlaceInv(c)
    BY DEF PlaceInv, Pending
  <2>2. WireInv(c)
    BY DEF WireInv
  <2>3. Taken(c) = 0 /\ Total(c) = 0
    BY DEF Taken, Total
  <2>4. QueueInv(c)
    BY <2>3 DEF QueueInv, Pending
  <2> QED
    BY <2>1, <2>2, <2>4
<1> QED
  BY <1>2, <1>3 DEF ProducerInv, ConnectionInv

\* A step of one connection does not touch another one, but for what is stored.
LEMMA OtherConnection ==
    ASSUME TypeOK, TypeOK', NEW c \in Connections, NEW d \in Connections \ {c},
           ConnectionInv(d),
           \/ \E e \in Events : EventMessage(c, e)
           \/ HandleStep(c) \/ ConnectionStep(c)
           \/ \E i \in Requests : Finish(c, i)
    PROVE  ConnectionInv(d)'
<1> SUFFICES /\ UNCHANGED <<reader[d], outbound[d], pump[d], writing[d], wire[d], socket[d],
                            gone[d], asked[d], answer[d], jobs[d]>>
             /\ stored \subseteq stored'
  BY UntouchedStep
<1> USE DEF TypeOK, pumpVars, producerVars, connectionVars, ReaderGoes
<1>1. CASE \E e \in Events : EventMessage(c, e)
  BY <1>1 DEF EventMessage, Local
<1>2. CASE Refuse(c) \/ Accept(c) \/ ReceiveOutcome(c) \/ TimeOut(c)
  BY <1>2 DEF Refuse, Accept, ReceiveOutcome, TimeOut, Local
<1>3. CASE SendAnswer(c) \/ AnswerControl(c)
  BY <1>3 DEF SendAnswer, AnswerControl, Send, WriteControl
<1>4. CASE ConnectionStep(c)
  <2>1. UNCHANGED producerVars
    BY <1>4 DEF ConnectionStep
  <2>2. CASE Handshake(c) \/ ReadFails(c) \/ ClientLeaves(c)
    BY <2>1, <2>2 DEF Handshake, ReadFails, Send, ClientLeaves
  <2>3. CASE ReturnStep(c)
    BY <2>1, <2>3 DEF ReturnStep, LastControl, WriteControl, CloseOutbound, CloseSocket
  <2>4. CASE PumpStep(c)
    BY <2>1, <2>4 DEF PumpStep, PumpTakes, PumpReturns, PumpWrites, PumpFails
  <2> QED
    BY <1>4, <2>2, <2>3, <2>4 DEF ConnectionStep
<1>5. CASE \E i \in Requests : Finish(c, i)
  BY <1>5 DEF Finish
<1> QED
  BY <1>1, <1>2, <1>3, <1>4, <1>5 DEF HandleStep

LEMMA ProducerNext == ProducerInv /\ [Next]_vars => ProducerInv'
<1> SUFFICES ASSUME ProducerInv, [Next]_vars
             PROVE  ProducerInv'
  OBVIOUS
<1>1. TypeOK /\ TypeOK' /\ \A c \in Connections : ConnectionInv(c)
  BY TypesStep DEF ProducerInv, ConnectionInv
<1>2. CASE UNCHANGED vars
  BY <1>1, <1>2, UntouchedStep DEF vars, connectionVars, producerVars, ProducerInv
<1>3. ASSUME NEW c \in Connections,
             \/ \E e \in Events : EventMessage(c, e)
             \/ HandleStep(c) \/ ConnectionStep(c)
             \/ \E i \in Requests : Finish(c, i)
      PROVE  ConnectionInv(c)'
  <2>1. CASE \E e \in Events : EventMessage(c, e)
    BY <1>1, <2>1, EventMessageStep
  <2>2. CASE Refuse(c) \/ Accept(c) \/ ReceiveOutcome(c) \/ TimeOut(c)
    BY <1>1, <2>2, HandlingStep
  <2>3. CASE SendAnswer(c)
    BY <1>1, <2>3, SendAnswerStep
  <2>4. CASE AnswerControl(c)
    BY <1>1, <2>4, WriteControlStep DEF AnswerControl
  <2>5. CASE ConnectionStep(c)
    <3> USE <1>1, <2>5 DEF ConnectionStep
    <3>1. CASE Handshake(c)
      BY <3>1, HandshakeStep
    <3>2. CASE ReadFails(c)
      BY <3>2, ReadFailsStep
    <3>3. CASE LastControl(c)
      BY <3>3, WriteControlStep DEF LastControl
    <3>4. CASE CloseOutbound(c) \/ CloseSocket(c)
      BY <3>4, ClosingStep
    <3>5. CASE PumpTakes(c)
      BY <3>5, PumpTakesStep
    <3>6. CASE PumpWrites(c)
      BY <3>6, PumpWritesStep
    <3>7. CASE PumpReturns(c) \/ PumpFails(c) \/ ClientLeaves(c)
      BY <3>7, StoppingStep
    <3> QED
      BY <3>1, <3>2, <3>3, <3>4, <3>5, <3>6, <3>7 DEF ReturnStep, PumpStep
  <2>6. CASE \E i \in Requests : Finish(c, i)
    BY <1>1, <2>6, FinishStep
  <2> QED
    BY <1>3, <2>1, <2>2, <2>3, <2>4, <2>5, <2>6 DEF HandleStep
<1>4. CASE Next
  <2>1. PICK c \in Connections :
           \/ \E e \in Events : EventMessage(c, e)
           \/ HandleStep(c) \/ ConnectionStep(c)
           \/ \E i \in Requests : Finish(c, i)
    BY <1>4 DEF Next
  <2>2. \A d \in Connections \ {c} : ConnectionInv(d)'
    BY <1>1, <2>1, OtherConnection
  <2>3. ConnectionInv(c)'
    BY <1>3, <2>1
  <2> QED
    BY <1>1, <2>2, <2>3 DEF ProducerInv
<1> QED
  BY <1>2, <1>4

\* The inductive invariant of producer connections.
THEOREM ProducerInductive == Spec => []ProducerInv
<1> QED
  BY ProducerInit, ProducerNext, PTL DEF Spec

\* Every variable of the producer connections keeps its type.
THEOREM ProducerTypeCorrect == Spec => []TypeOK
<1>1. ProducerInv => TypeOK
  BY DEF ProducerInv
<1> QED
  BY <1>1, ProducerInductive, PTL

\* Whatever queues were full and whoever left: the replies a producer reads are
\* those to its first messages, in order, and an error comes last.
THEOREM RepliesInOrder == Spec => []RepliesHaveNoHoles
<1>1. ProducerInv => RepliesHaveNoHoles
  <2> SUFFICES ASSUME ProducerInv, NEW c \in Connections, NEW k \in DOMAIN wire[c]
               PROVE  \/ \E kind \in {"ack", "error"} : wire[c][k] = Reply(k, kind)
                      \/ wire[c][k] = ErrorMessage /\ k = Len(wire[c])
    BY DEF RepliesHaveNoHoles
  <2>1. k \in 1..Len(wire[c])
    BY DEF ProducerInv, TypeOK
  <2> QED
    BY <2>1 DEF ProducerInv, ConnectionInv, WireInv, Right
<1> QED
  BY <1>1, ProducerInductive, PTL

\* An acknowledgement that reached a producer is of a message it sent, and the
\* event of that message is stored, whichever outcomes came too late.
THEOREM AcksTrue == Spec => []AckedIsStored
<1>1. ProducerInv => AckedIsStored
  <2> SUFFICES ASSUME ProducerInv, NEW c \in Connections, NEW i \in Requests,
                      NEW k \in DOMAIN wire[c], wire[c][k] = Reply(i, "ack")
               PROVE  i <= Current(c) /\ asked[c][i] \in stored /\ jobs[c][i] = "ok"
    BY DEF AckedIsStored
  <2>1. k \in 1..Len(wire[c])
    BY DEF ProducerInv, TypeOK
  <2>2. wire[c][k] # ErrorMessage
    BY ProducerAssumption
  <2>3. PICK kind \in {"ack", "error"} :
           /\ wire[c][k] = Reply(k, kind) /\ k \in 1..Current(c)
           /\ kind = "ack" => jobs[c][k] = "ok"
    BY <2>1, <2>2 DEF ProducerInv, ConnectionInv, WireInv, Right
  <2>4. i = k /\ kind = "ack"
    BY <2>3 DEF Reply
  <2> QED
    BY <2>3, <2>4 DEF ProducerInv, ConnectionInv, PlaceInv, TypeOK
<1> QED
  BY <1>1, ProducerInductive, PTL

\* A connection that rests while both sides are there owes its producer nothing.
THEOREM AllAnswered == Spec => []AtRestAllAnswered
<1>1. ProducerInv => AtRestAllAnswered
  <2> SUFFICES ASSUME ProducerInv, NEW c \in Connections, reader[c] = "reading",
                      pump[c] = "waiting", outbound[c] = <<>>, socket[c] = "open", ~gone[c]
               PROVE  Len(wire[c]) = Current(c)
    BY DEF AtRestAllAnswered
  <2>1. Total(c) = Current(c)
    BY DEF ProducerInv, ConnectionInv, QueueInv, Live
  <2>2. Len(wire[c]) \in Nat /\ Total(c) = Len(wire[c]) + 0
    BY DEF ProducerInv, TypeOK, Total, Taken
  <2> QED
    BY <2>1, <2>2
<1> QED
  BY <1>1, ProducerInductive, PTL
===============================================================================
