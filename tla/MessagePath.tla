------------------------------ MODULE MessagePath -------------------------------
(***************************************************************************)
(* What one client is answered, message by message (internal/adapters/     *)
(* websocket: protocol.go, the error codes of handler.go, the handlers of  *)
(* connection.go), and what its events become in the store.  The client is *)
(* the only one, and a message is handled in one step: the goroutines, the *)
(* queues and the time a worker takes are those of Dispatcher and of       *)
(* ProducerConnection.                                                     *)
(***************************************************************************)
EXTENDS EventProcessing, MemoryEventStore

CONSTANTS
    Messages,     \* bound: the messages the client may send
    Filters,      \* the filters somebody may query the store with
    GeneratedIDs, \* what generateEventID returns
    MaxMessages   \* bound: how many messages the client sends

VARIABLES
    mode,      \* "handshake", "producer", "monitor", "subscribed" or "ended"
    message,   \* the last message
    reply,     \* what went into the outbound queue for it
    received   \* the number of messages

vars == <<storeVars, mode, message, reply, received>>

NoReply == [type |-> "none"]
Ready(m) == [type |-> "ready", mode |-> m]
Ack(requestId, eventId) == [type |-> "ack", requestId |-> requestId, eventId |-> eventId]
ErrorReply(requestId, code) == [type |-> "error", requestId |-> requestId, code |-> code]

Init ==
    /\ StoreInit
    /\ mode = "handshake"
    /\ message = NoReply /\ reply = NoReply
    /\ received = 0

\* readProtocolMessage and decodeMessage.  An untyped message is empty or has
\* no string as its type; a malformed one is not a JSON object.
DecodeError(m) ==
    CASE m.shape = "binary frame" -> {"only text messages"}
      [] m.shape = "malformed" -> {"invalid JSON"}
      [] m.shape \in {"untyped", "unknown field"} -> {"invalid protocol message"}
      [] m.shape = "unknown type" -> {"unsupported message type"}
      [] OTHER -> NoError

\* performHandshake.
HandshakeError(m) ==
    CASE DecodeError(m) # NoError -> DecodeError(m)
      [] m.shape \in {"event", "subscribe"} -> {"first message"}
      [] m.shape = "hello" /\ m.client = "blank" -> {"required"}
      [] m.shape = "hello" /\ m.client # "blank" ->
            IF m.mode \in {"producer", "monitor"} THEN NoError
            ELSE {"unsupported connection mode"}
      [] OTHER -> NoError

\* protocolError: the sentinels before the words.
ProtocolError(err) ==
    CASE "invalid JSON" \in err -> "INVALID_JSON"
      [] err \intersect {"invalid protocol message", "unsupported message type",
                         "first message"} # {} -> "INVALID_MESSAGE"
      [] "required" \in err -> "MISSING_REQUIRED_FIELD"
      [] OTHER -> "INTERNAL_ERROR"

\* The step of a handler: the answer to m, and the mode after it.
Answer(m, r, next) ==
    /\ received < MaxMessages
    /\ received' = received + 1
    /\ message' = m
    /\ reply' = r
    /\ mode' = next

Handshake(m) ==
    /\ mode = "handshake"
    /\ IF HandshakeError(m) = NoError THEN Answer(m, Ready(m.mode), m.mode)
       ELSE Answer(m, ErrorReply("", ProtocolError(HandshakeError(m))), "ended")
    /\ UNCHANGED storeVars

\* readProducerMessages and readMonitorMessages, on everything but the message
\* of their mode.
RejectMessage(m) ==
    /\ \/ mode = "producer" /\ m.shape # "event"
       \/ mode = "monitor" /\ m.shape # "subscribe"
    /\ Answer(m, ErrorReply("", IF DecodeError(m) # NoError
                                  THEN ProtocolError(DecodeError(m))
                                  ELSE "INVALID_MESSAGE"), "ended")
    /\ UNCHANGED storeVars

\* handleSubscribe; what the monitor is sent is not part of this module.
Subscribe(m) ==
    /\ mode = "monitor" /\ m.shape = "subscribe"
    /\ Answer(m, NoReply, "subscribed")
    /\ UNCHANGED storeVars

AnswerEvent(m, r) == mode = "producer" /\ m.shape = "event" /\ Answer(m, r, mode)

\* handleEvent, with no request ID.
RefuseRequest(m) ==
    /\ AnswerEvent(m, ErrorReply("", "MISSING_REQUIRED_FIELD"))
    /\ m.requestId = "blank"
    /\ UNCHANGED storeVars

\* sendEventSubmissionError: the queue of the dispatcher is full, or closed.
RefuseSubmission(m) ==
    /\ AnswerEvent(m, ErrorReply(m.requestId, "STORAGE_UNAVAILABLE"))
    /\ m.requestId # "blank"
    /\ UNCHANGED storeVars

Processed(m) ==
    ProcessEvent(m.event, CHOOSE id \in GeneratedIDs : id \notin DOMAIN events)

\* handleEvent, with the outcome of a worker.
HandleEvent(m) ==
    /\ received < MaxMessages /\ mode = "producer"
    /\ m.shape = "event" /\ m.requestId # "blank"
    /\ LET outcome == Processed(m)
       IN \/ /\ outcome.error # NoError
             /\ AnswerEvent(m, ErrorReply(m.requestId, ProtocolError(outcome.error)))
             /\ UNCHANGED storeVars
          \/ /\ outcome.error = NoError
             /\ AnswerEvent(m, ErrorReply(m.requestId, "INTERNAL_ERROR"))
             /\ StoreFails(outcome.event)
          \/ /\ outcome.error = NoError
             /\ AnswerEvent(m, Ack(m.requestId, outcome.event.eventId))
             /\ Store(outcome.event)

\* The store is closed under the running connection.
CloseStore == Close /\ UNCHANGED <<mode, message, reply, received>>

Next ==
    \/ \E m \in Messages : \/ Handshake(m) \/ RejectMessage(m) \/ Subscribe(m)
                           \/ RefuseRequest(m) \/ RefuseSubmission(m) \/ HandleEvent(m)
    \/ CloseStore

Spec == Init /\ [][Next]_vars
-------------------------------------------------------------------------------
(***************************************************************************)
(* What the answers and the stored events must be, stated on the event as  *)
(* it was sent.                                                            *)
(***************************************************************************)
Empty(t) == t \in {"", "blank"}

\* How an event may show a text: without a secret and with nothing around it.
\* A secret that a control character splits may be shown: redaction.go:70-84 looks
\* for secrets first and drops control characters afterwards.
Shown(t) ==
    CASE t \in {"secret", "longSecret"} -> {"redacted"}
      [] t = "splitSecret" -> {"redacted", "secret"}
      [] t = "padded" -> {"plain"}
      [] Empty(t) -> {""}
      [] OTHER -> {t}

LevelNames ==
    [trace |-> {"trace"}, debug |-> {"debug"}, error |-> {"error"}, fatal |-> {"fatal"},
     info |-> {"info", " Info", "information"}, warn |-> {"warn", "warning", "WARNING"}]

\* The nodes of a map that no sensitive key above them hides, and those of
\* them that have such a key themselves.
Exposed(v) ==
    {n \in Nodes(v) : \A i \in 1..(Len(n.path) - 1) : n.path[i] \notin SensitiveKeys}
HasKeyIn(n, keys) == n.path # <<>> /\ n.path[Len(n.path)] \in keys
Shows(n) == ~HasKeyIn(n, SensitiveKeys)

\* The map stored for v has exactly its exposed nodes.
ShowsMap(stored, v) ==
    /\ Cardinality(Nodes(stored)) = Cardinality(Exposed(v))
    /\ \A n \in Exposed(v) : \E s \in Nodes(stored) :
          /\ s.path = n.path
          /\ IF Shows(n) THEN s.kind = n.kind /\ s.text \in Shown(n.text)
             ELSE s.kind = "text" /\ s.text = "redacted"

Unacceptable(v) ==
    \E n \in Exposed(v) :
       \/ HasKeyIn(n, ProhibitedKeys)
       \/ Shows(n) /\ n.kind \in {"map", "list"} /\ Len(n.path) >= MaxMapDepth

Halves(v) == {n \in Exposed(v) : Shows(n) /\ n.text = "half"}

SupportedLevel(level) == \E l \in DOMAIN LevelNames : level \in LevelNames[l]
RequiredTexts(e) == {e.service, e.eventType, e.message}

Acceptable(e) ==
    /\ SupportedLevel(e.level)
    /\ \A t \in RequiredTexts(e) : ~Empty(t) /\ t # "long"
    /\ e.component # "long" /\ e.timestamp # "before 2000"
    /\ ~Unacceptable(e.context) /\ ~Unacceptable(e.metadata)
    /\ Cardinality(Halves(e.context)) + Cardinality(Halves(e.metadata)) < 2

StoredAs(e, stored) ==
    /\ stored.level \in DOMAIN LevelNames /\ e.level \in LevelNames[stored.level]
    /\ stored.timestamp = (IF e.timestamp = "none" THEN "now" ELSE e.timestamp)
    /\ \A f \in TextFields : stored[f] \in Shown(e[f])
    /\ ShowsMap(stored.context, e.context)
    /\ ShowsMap(stored.metadata, e.metadata)

EventAnswered == mode = "producer" /\ message'.shape = "event" /\ received' # received

\* A producer's event is answered by its request ID.  An acknowledged one is
\* acceptable, and what the store has under the ID of the answer, its own or a
\* fresh one, is exactly its exposed content.  Any other answer is an error, for
\* which the store is as before and the connection goes on; an acceptable event
\* gets one only for want of a request ID, of room or of a store, or as a
\* duplicate.  Redaction comes first (event_processor.go:61-103): what it hides
\* makes an event neither too deep, too long nor too large.
AnswersAreTrue ==
    [][EventAnswered =>
         LET m == message' e == m.event r == reply'
         IN IF r.type = "ack"
              THEN /\ m.requestId # "blank" /\ r.requestId = m.requestId
                   /\ Acceptable(e)
                   /\ r.eventId \in (IF e.eventId = "" THEN GeneratedIDs \ DOMAIN events
                                     ELSE {e.eventId})
                   /\ StoredAs(e, events'[r.eventId])
                   /\ order' = IF r.eventId \in DOMAIN events THEN order
                               ELSE Append(order, r.eventId)
              ELSE /\ r.type = "error"
                   /\ mode' = mode /\ UNCHANGED storeVars
                   /\ r.requestId = (IF m.requestId = "blank" THEN "" ELSE m.requestId)
                   /\ Acceptable(e) =>
                         \/ m.requestId = "blank"
                         \/ e.eventId \in DOMAIN events
                         \/ r.code = "STORAGE_UNAVAILABLE"
                         \/ storeClosed /\ r.code = "INTERNAL_ERROR"]_vars

\* The codes that the protocol has for what is wrong with e.  The blueprint
\* answers a missing level with INVALID_EVENT (BLUEPRINT.md:212-221).
DocumentedCodes(e) ==
    {"INVALID_EVENT"}
    \union {c \in {"UNSUPPORTED_EVENT_LEVEL"} : ~SupportedLevel(e.level) /\ ~Empty(e.level)}
    \union {c \in {"MISSING_REQUIRED_FIELD"} : \E t \in RequiredTexts(e) : Empty(t)}

\* An event that is rejected for what it is gets the stable code for it
\* (BLUEPRINT.md:212-231, handler.go:226-236).  The code does not keep this.
RejectionsSayWhy ==
    [][LET e == message'.event r == reply'
       IN EventAnswered /\ r.type = "error" /\ r.requestId # "" /\ ~Acceptable(e) =>
             r.code \in DocumentedCodes(e) \union {"STORAGE_UNAVAILABLE"}]_vars

\* What a query has returned once stays as it was and where it was: retries,
\* duplicates and refused events only ever add at the end.
QueriesOnlyGrow ==
    [][\A f \in Filters : LET old == Query(f) new == Query(f)'
                          IN Len(old) <= Len(new) /\ SubSeq(new, 1, Len(old)) = old]_vars
===============================================================================
