\* One producer that sends up to three messages with two events: retries, late
\* outcomes and a full outbound queue.
SPECIFICATION FairSpec
CONSTANTS
    Connections = {c1}
    Events = {e1, e2}
    MaxRequests = 3
    OutboundSize = 1
    NoMessage = NoMessage
    ErrorMessage = ErrorMessage
INVARIANTS
    TypeOK
    RepliesHaveNoHoles
    AckedIsStored
    AtRestAllAnswered
PROPERTIES
    GoneProducerEnds
\* A connection that has ended takes no more steps.
CHECK_DEADLOCK FALSE
