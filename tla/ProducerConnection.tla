-------------------------- MODULE ProducerConnection --------------------------
(***************************************************************************)
(* Connections in producer mode (internal/adapters/websocket/connection.go:*)
(* readProducerMessages, handleEvent).                                     *)
(*                                                                         *)
(* The reading goroutine handles one event message after the other: it     *)
(* submits the event, waits for the outcome for ten seconds at most, and   *)
(* queues one reply.  A producer that got no acknowledgement may send the  *)
(* same event again, on this or on another connection.                     *)
(*                                                                         *)
(* Of the dispatcher and the store only what handleEvent sees is kept:     *)
(* each job ends once, with an error or after its event was stored, and    *)
(* an event that is stored is refused.  Module Dispatcher has the details. *)
(***************************************************************************)
EXTENDS Connection

CONSTANTS
    Events,      \* the events, by event ID
    MaxRequests  \* bound: the event messages on each connection

Requests == 1..MaxRequests
Reply(request, kind) == [request |-> request, kind |-> kind]

\* No reply is the error message, or no message at all.
ASSUME ProducerAssumption ==
    /\ MaxRequests \in Nat
    /\ \A i \in Requests, kind \in {"ack", "error"} :
          Reply(i, kind) \notin {NoMessage, ErrorMessage}

VARIABLES
    asked,  \* the events of the messages each connection has read
    answer, \* the kind of the reply the reader is about to send, or "none"
    jobs,   \* "none", "queued", "ok" or "error" for each request
    stored  \* the events in the store

producerVars == <<asked, answer, jobs, stored>>
vars == <<connectionVars, producerVars>>

\* The request that connection c is handling.
Current(c) == Len(asked[c])

Init ==
    /\ ConnectionInit
    /\ asked = [c \in Connections |-> <<>>]
    /\ answer = [c \in Connections |-> "none"]
    /\ jobs = [c \in Connections |-> [i \in Requests |-> "none"]]
    /\ stored = {}

\* A step of the reader that touches neither queue nor socket.
Local(c, from, to) ==
    /\ ReaderGoes(c, from, to)
    /\ UNCHANGED <<outbound, outboundClosed, pumpVars, socket, gone>>
-------------------------------------------------------------------------------
(***************************************************************************)
(* The reading goroutine.                                                  *)
(***************************************************************************)
EventMessage(c, e) ==
    /\ Current(c) < MaxRequests
    /\ Local(c, "reading", "submit")
    /\ asked' = [asked EXCEPT ![c] = Append(@, e)]
    /\ UNCHANGED <<answer, jobs, stored>>

\* No request ID, a full queue, or a dispatcher that is shut down.
Refuse(c) ==
    /\ Local(c, "submit", "answer")
    /\ answer' = [answer EXCEPT ![c] = "error"]
    /\ UNCHANGED <<asked, jobs, stored>>

Accept(c) ==
    /\ Local(c, "submit", "await")
    /\ jobs' = [jobs EXCEPT ![c][Current(c)] = "queued"]
    /\ UNCHANGED <<asked, answer, stored>>

\* Faulty variant: all the jobs of a connection share one result channel.
ReceiveAnyOutcome(c) ==
    /\ Local(c, "await", "answer")
    /\ \E i \in 1..Current(c) :
          /\ jobs[c][i] \in {"ok", "error"}
          /\ answer' = [answer EXCEPT ![c] =
                           IF jobs[c][i] = "ok" THEN "ack" ELSE "error"]
    /\ UNCHANGED <<asked, jobs, stored>>

\* The outcome came first in the select.
ReceiveOutcome(c) ==
    /\ Local(c, "await", "answer")
    /\ jobs[c][Current(c)] \in {"ok", "error"}
    /\ answer' = [answer EXCEPT ![c] =
                     IF jobs[c][Current(c)] = "ok" THEN "ack" ELSE "error"]
    /\ UNCHANGED <<asked, jobs, stored>>

\* Faulty variant: the outcome is waited for without a limit.
TimeOutNever(c) ==
    /\ Local(c, "await", "answer")
    /\ jobs[c][Current(c)] # "queued"
    /\ answer' = [answer EXCEPT ![c] = "error"]
    /\ UNCHANGED <<asked, jobs, stored>>

\* Faulty variant: the producer is told nothing.
TimeOutSilently(c) ==
    /\ Local(c, "await", "reading")
    /\ UNCHANGED <<asked, answer, jobs, stored>>

\* The timer came first; the job goes on and its outcome is never read.
TimeOut(c) ==
    /\ Local(c, "await", "answer")
    /\ answer' = [answer EXCEPT ![c] = "error"]
    /\ UNCHANGED <<asked, jobs, stored>>

\* The reply is queued, or the close frame is sent; the reader reads on.
SendAnswer(c) ==
    /\ reader[c] = "answer"
    /\ Send(c, Reply(Current(c), answer[c]), "reading", "control")
    /\ answer' = [answer EXCEPT ![c] = "none"]
    /\ UNCHANGED <<asked, jobs, stored>>

AnswerControl(c) ==
    /\ WriteControl(c, "control", "reading")
    /\ UNCHANGED producerVars

HandleStep(c) ==
    \/ Refuse(c) \/ Accept(c) \/ ReceiveOutcome(c) \/ TimeOut(c)
    \/ SendAnswer(c) \/ AnswerControl(c)
-------------------------------------------------------------------------------
\* A worker of the dispatcher ends a job: the store takes a new event, and the
\* processor and the store can fail.
Finish(c, i) ==
    /\ jobs[c][i] = "queued"
    /\ \/ /\ asked[c][i] \notin stored
          /\ jobs' = [jobs EXCEPT ![c][i] = "ok"]
          /\ stored' = stored \union {asked[c][i]}
       \/ jobs' = [jobs EXCEPT ![c][i] = "error"] /\ UNCHANGED stored
    /\ UNCHANGED <<connectionVars, asked, answer>>

ConnectionStep(c) ==
    /\ Handshake(c) \/ ReadFails(c) \/ ReturnStep(c) \/ PumpStep(c) \/ ClientLeaves(c)
    /\ UNCHANGED producerVars

Next ==
    \E c \in Connections :
       \/ \E e \in Events : EventMessage(c, e)
       \/ HandleStep(c) \/ ConnectionStep(c)
       \/ \E i \in Requests : Finish(c, i)

Spec == Init /\ [][Next]_vars

\* The reader goes on, and reading fails when the client is gone: the pings
\* are not answered and the read deadline passes.  Nothing is assumed of the
\* dispatcher: the timer ends the wait for it.
ReaderFairness ==
    \A c \in Connections :
       /\ WF_vars(Refuse(c) \/ Accept(c) \/ TimeOut(c) \/ SendAnswer(c)
                  \/ AnswerControl(c))
       /\ WF_vars(gone[c] /\ ReadFails(c) /\ UNCHANGED producerVars)
       /\ WF_vars(ReturnStep(c) /\ UNCHANGED producerVars)

FairSpec == Spec /\ ReaderFairness /\ PumpFairness
-------------------------------------------------------------------------------
(***************************************************************************)
(* Properties.                                                             *)
(***************************************************************************)
Message == [request : Requests, kind : {"ack", "error"}] \union {ErrorMessage}

\* Every variable has its type, and each goroutine holds what its place says.
TypeOK ==
    /\ reader \in [Connections -> {"handshake", "reading", "submit", "await",
                                   "answer", "control", "lastControl",
                                   "returning", "closeSocket", "ended"}]
    /\ outbound \in [Connections -> Seq(Message)]
    /\ outboundClosed \in [Connections -> BOOLEAN]
    /\ pump \in [Connections -> {"off", "waiting", "writing", "stopped"}]
    /\ writing \in [Connections -> Message \union {NoMessage}]
    /\ wire \in [Connections -> Seq(Message)]
    /\ socket \in [Connections -> {"open", "closeSent", "closed"}]
    /\ gone \in [Connections -> BOOLEAN]
    /\ asked \in [Connections -> Seq(Events)]
    /\ answer \in [Connections -> {"none", "ack", "error"}]
    /\ jobs \in [Connections -> [Requests -> {"none", "queued", "ok", "error"}]]
    /\ stored \subseteq Events
    /\ \A c \in Connections :
          /\ Len(outbound[c]) <= OutboundSize /\ Current(c) <= MaxRequests
          /\ writing[c] # NoMessage <=> pump[c] = "writing"
          /\ answer[c] # "none" <=> reader[c] = "answer"
          /\ outboundClosed[c] => reader[c] \in {"closeSocket", "ended"}
          /\ \A i \in Requests : jobs[c][i] # "none" => i <= Current(c)

\* Reply n on a connection answers its message n: no reply is left out,
\* doubled or overtaken, also when the outbound queue was full in between.
\* The error that ends the reading comes last.
RepliesHaveNoHoles ==
    \A c \in Connections : \A k \in DOMAIN wire[c] :
       \/ \E kind \in {"ack", "error"} : wire[c][k] = Reply(k, kind)
       \/ wire[c][k] = ErrorMessage /\ k = Len(wire[c])

\* "An acknowledgment is sent only after the event has been accepted and
\* persisted by the active storage provider" (developer/BLUEPRINT.md:200),
\* also after timeouts whose outcomes come late.
AckedIsStored ==
    \A c \in Connections : \A i \in Requests : \A k \in DOMAIN wire[c] :
       wire[c][k] = Reply(i, "ack") =>
          i <= Current(c) /\ asked[c][i] \in stored /\ jobs[c][i] = "ok"

\* A connection that is open and at rest has answered every message it read.
AtRestAllAnswered ==
    \A c \in Connections :
       /\ reader[c] = "reading" /\ pump[c] = "waiting" /\ outbound[c] = <<>>
       /\ socket[c] = "open" /\ ~gone[c]
       => Len(wire[c]) = Current(c)

\* After the handshake, both goroutines end when the client is gone, even if
\* the dispatcher never answers.
GoneProducerEnds ==
    \A c \in Connections :
       gone[c] /\ reader[c] # "handshake" ~> Over(c)
===============================================================================
