\* Two monitors and two workers that publish at the same time.
SPECIFICATION Spec
CONSTANTS
    Events = {e1, e2}
    Workers = {w1, w2}
    Subscriptions = {m1, m2}
    Connections = {m1, m2}
    Wants <- WantAll
    BufferSize = 1
    OutboundSize = 1
    NoEvent = NoEvent
    NoMessage = NoMessage
    ErrorMessage = ErrorMessage
SYMMETRY Symmetry
INVARIANTS
    TypeOK
    DeliveredInOrder
    PublishedToAll
\* All the events are published in the end.
CHECK_DEADLOCK FALSE
