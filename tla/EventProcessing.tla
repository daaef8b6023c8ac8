---------------------------- MODULE EventProcessing -----------------------------
(***************************************************************************)
(* ProcessEvent (internal/domain/services/event_processor.go) and the      *)
(* redaction it starts with (internal/security/redaction.go), as operators *)
(* on events.                                                              *)
(*                                                                         *)
(* A text is one of a few classes, by what the code does to it:            *)
(*   "", "blank"            empty, or of spaces and control characters     *)
(*   "plain", "padded"      clean, or with such characters around it       *)
(*   "secret", "redacted"   with a secret, or with [REDACTED] in its place *)
(*   "splitSecret"          with a control character in a secret's name,   *)
(*                          as in pass\u0000word=x                         *)
(*   "long", "longSecret"   over every limit, the second by its secret     *)
(*   "half"                 over half of maxMetadataBytes                  *)
(* A value of a context or of the metadata has a kind ("text", "scalar",   *)
(* "map", "list"), its text and its parts, a function on keys (map) or     *)
(* indices (list).  Keys are clean.  The JSON decoder lets no invalid      *)
(* UTF-8 through.                                                          *)
(***************************************************************************)
EXTENDS Naturals, Sequences, FiniteSets

CONSTANTS
    SensitiveKeys,   \* keys that match sensitiveKey
    ProhibitedKeys,  \* keys in prohibitedFields
    MaxMapDepth      \* maxMapDepth

ASSUME ProcessingAssumption == MaxMapDepth \in Nat \ {0}

Text(t) == [kind |-> "text", text |-> t, parts |-> <<>>]
Scalar == [kind |-> "scalar", text |-> "", parts |-> <<>>]
Map(parts) == [kind |-> "map", text |-> "", parts |-> parts]
List(parts) == [kind |-> "list", text |-> "", parts |-> parts]
Container(v) == v.kind \in {"map", "list"}

\* The fields that are treated alike; code stands for the six optional ones.
TextFields == {"service", "component", "eventType", "message", "code"}
-------------------------------------------------------------------------------
(***************************************************************************)
(* redaction.go                                                            *)
(***************************************************************************)
\* sanitizeText, and the end of sanitize: control characters and the spaces
\* around a text go.
SanitizeText(t) ==
    CASE t = "blank" -> "" [] t = "padded" -> "plain"
      [] t = "splitSecret" -> "secret" [] OTHER -> t

\* The regular expression sees a secret only in one piece.
ReplaceSecrets(t) == IF t \in {"secret", "longSecret"} THEN "redacted" ELSE t

\* sanitize, in its order.
Sanitize(t) == SanitizeText(ReplaceSecrets(t))

\* redactMap, redactValue: what has a sensitive key is replaced as a whole.
RECURSIVE Redact(_)
Redact(v) ==
    IF ~Container(v) THEN [v EXCEPT !.text = Sanitize(@)]
    ELSE [v EXCEPT !.parts = [k \in DOMAIN v.parts |->
             IF k \in SensitiveKeys THEN Text("redacted") ELSE Redact(v.parts[k])]]

RedactEvent(e) ==
    [f \in DOMAIN e |-> CASE f \in TextFields -> Sanitize(e[f])
                          [] f \in {"context", "metadata"} -> Redact(e[f])
                          [] OTHER -> e[f]]
-------------------------------------------------------------------------------
(***************************************************************************)
(* event_processor.go.  An error is the set of the sentinels it wraps and  *)
(* of the words in its text that protocolError looks for.                  *)
(***************************************************************************)
NoError == {}
ErrMissingRequiredField == {"missing required event field", "required"}
ErrInvalidEvent == {"invalid event"}
ErrMetadata == {"sensitive field, nested too deeply or too large"}

\* The error quotes the level.
ErrUnsupportedEventLevel(level) ==
    {"unsupported event level"} \union
    (CASE level = "required level" -> {"required"}
       [] level = "first message level" -> {"first message"}
       [] OTHER -> {})

CanonicalLevels == {"trace", "debug", "info", "warn", "error", "fatal"}

\* strings.ToLower and strings.TrimSpace.
LowerTrim(level) ==
    CASE level = " Info" -> "info" [] level = "WARNING" -> "warning"
      [] level = "blank" -> "" [] OTHER -> level

MapEventLevel(level) ==
    CASE LowerTrim(level) = "information" -> "info"
      [] LowerTrim(level) = "warning" -> "warn"
      [] OTHER -> LowerTrim(level)

RequiredFields == <<"service", "eventType", "message">>

TooLong(t) == t \in {"long", "longSecret"}

\* The first defect counts.
ValidateEvent(e) ==
    LET defects == {i \in 1..3 : \/ SanitizeText(e[RequiredFields[i]]) = ""
                                 \/ TooLong(e[RequiredFields[i]])}
        first == CHOOSE i \in defects : \A j \in defects : i <= j
    IN CASE MapEventLevel(e.level) \notin CanonicalLevels ->
              IF e.level = "" THEN ErrMissingRequiredField
              ELSE ErrUnsupportedEventLevel(e.level)
         [] MapEventLevel(e.level) \in CanonicalLevels /\ defects # {} ->
              IF TooLong(e[RequiredFields[first]]) THEN ErrInvalidEvent
              ELSE ErrMissingRequiredField
         [] OTHER ->
              IF TooLong(e.component) \/ e.timestamp = "before 2000"
                THEN ErrInvalidEvent ELSE NoError

\* sanitizeMap and sanitizeValue return an error, of one kind or the other
\* depending on the order of the keys.
RECURSIVE Refused(_, _)
Refused(v, depth) ==
    /\ Container(v)
    /\ \/ depth >= MaxMapDepth
       \/ \E k \in DOMAIN v.parts :
             k \in ProhibitedKeys \/ Refused(v.parts[k], depth + 1)

\* What they return else.
RECURSIVE Clean(_)
Clean(v) ==
    IF ~Container(v) THEN [v EXCEPT !.text = SanitizeText(@)]
    ELSE [v EXCEPT !.parts = [k \in DOMAIN v.parts |-> Clean(v.parts[k])]]

\* Every part of a value, with the keys and indices that lead to it.
RECURSIVE Nodes(_)
Nodes(v) ==
    {[path |-> <<>>, kind |-> v.kind, text |-> v.text]} \union
    UNION {{[n EXCEPT !.path = <<k>> \o @] : n \in Nodes(v.parts[k])} : k \in DOMAIN v.parts}

\* validateMetadataSize counts both maps.
TooLarge(e) ==
    Cardinality({n \in Nodes(e.context) : n.text = "half"})
      + Cardinality({n \in Nodes(e.metadata) : n.text = "half"}) > 1

\* An event without an ID gets generatedID, which no other event has; one
\* without a timestamp gets the current time.
Normalise(e, generatedID) ==
    [f \in DOMAIN e |->
       CASE f = "level" -> MapEventLevel(e.level)
         [] f = "eventId" -> IF e.eventId = "" THEN generatedID ELSE e.eventId
         [] f = "timestamp" -> IF e.timestamp = "none" THEN "now" ELSE e.timestamp
         [] f \in TextFields -> SanitizeText(e[f])
         [] OTHER -> Clean(e[f])]

Finish(checked, e, generatedID) ==
    LET n == Normalise(e, generatedID)
    IN [event |-> n,
        error |-> IF ValidateEvent(checked) # NoError THEN ValidateEvent(checked)
                  ELSE IF Refused(e.context, 0) \/ Refused(e.metadata, 0) \/ TooLarge(n)
                  THEN ErrMetadata ELSE NoError]

\* Faulty variant: the event is validated before its secrets are replaced.
ValidateFirst(e, generatedID) == Finish(e, RedactEvent(e), generatedID)

\* ProcessEvent: redacted, validated, normalised, in this order.  The event
\* counts only if there is no error.
ProcessEvent(e, generatedID) == Finish(RedactEvent(e), RedactEvent(e), generatedID)
===============================================================================
