\* One monitor through which four events go; no symmetry.
SPECIFICATION FairSpec
CONSTANTS
    Events = {e1, e2, e3, e4}
    Workers = {w1}
    Subscriptions = {m1}
    Connections = {m1}
    Wants <- WantAll
    BufferSize = 1
    OutboundSize = 1
    NoEvent = NoEvent
    NoMessage = NoMessage
    ErrorMessage = ErrorMessage
INVARIANTS
    NeverSendsOnClosed
    NothingLostOnTheWay
    WireHasNoHoles
PROPERTIES
    PublishReturns
    SlowMonitorEnds
\* All the events are published in the end.
CHECK_DEADLOCK FALSE
