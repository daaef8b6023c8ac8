----------------------------- MODULE MCMessagePath ------------------------------
(* The messages for TLC: a plain event with one or two things changed, contexts *)
(* of up to three levels on both sides of MaxMapDepth = 2, and everything else  *)
(* a client can send.                                                           *)
EXTENDS MessagePath, TLC

Keys == {"name", "user_token", "password", "privateKey"}
Plain == [eventId |-> "", timestamp |-> "recent", level |-> "info", service |-> "plain",
          component |-> "plain", eventType |-> "plain", message |-> "plain",
          code |-> "plain", context |-> Map(<<>>), metadata |-> Map(<<>>)]

Texts == {"", "blank", "plain", "padded", "secret", "splitSecret", "long",
          "longSecret"}
Levels == {"trace", "debug", "info", "warn", "error", "fatal", "information", "warning",
           "WARNING", " Info", "", "blank", "urgent", "required level", "first message level"}

Singles(values, keys) == {Map(k :> v) : k \in keys, v \in values}
Lists(values) == {List("1st" :> v) : v \in values}
Leaves == {Text(t) : t \in {"plain", "padded", "secret", "splitSecret", "half"}} \union {Scalar}
Flat == {Map(<<>>), List(<<>>)} \union Singles({Text("secret")}, {"name", "user_token", "privateKey"})
          \union Lists({Text("secret")})
Nested == Singles(Flat, {"name", "password"}) \union Lists(Flat)
Contexts == Singles(Leaves \union Flat \union Nested, Keys)
              \union {Map("name" :> Text("half") @@ k :> v) :
                        k \in {"user_token", "other"}, v \in {Text("half"), List("1st" :> Text("half"))}}

EventsSent ==
    {[Plain EXCEPT ![f] = t] : f \in TextFields, t \in Texts}
    \union {[Plain EXCEPT !.level = l, !.service = t] : l \in Levels, t \in {"plain", ""}}
    \union {[Plain EXCEPT !.service = t, !.message = u] : t \in {"", "long"}, u \in {"", "long"}}
    \union {[Plain EXCEPT !.timestamp = t, !.eventId = i, !.eventType = u] :
              t \in {"none", "before 2000", "recent"}, i \in {"", "id1"}, u \in {"plain", "secret"}}
    \union {[Plain EXCEPT !.context = c] : c \in Contexts}
    \union {[Plain EXCEPT !.context = c, !.metadata = d] :
              c \in Singles({Text("half"), Scalar}, {"name"}), d \in Singles({Text("half")} \union Flat, Keys)}

MCMessages ==
    [shape : {"event"}, requestId : {"r1"}, event : EventsSent]
    \union [shape : {"event"}, requestId : {"blank"}, event : {Plain}]
    \union [shape : {"hello"}, client : {"plain", "blank"}, mode : {"producer", "monitor", "other"}]
    \union [shape : {"subscribe", "binary frame", "malformed", "untyped", "unknown type", "unknown field"}]

MCFilters ==
    [levels : {{}, {"warn", "error"}}, services : {{}, {"plain"}},
     eventTypes : {{}, {"plain"}, {"redacted"}}]
===============================================================================
