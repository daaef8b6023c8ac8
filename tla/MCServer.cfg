\* One event sent twice at any time, two workers, two restarts, one fault and
\* one change of the week.
SPECIFICATION ServerSpec
CONSTANTS
    first = first
    retry = retry
    e1 = e1
    e2 = e2
    Jobs = {first, retry}
    Cancellable = {}
    Workers = {w1, w2}
    Stoppers = {}
    QueueSize = 1
    NoJob = NoJob
    NoOne = NoOne
    EventOf <- EventsOfJobs
    Events = {e1, e2}
    SizeOf <- Sizes
    MaxFileSize = 4
    LineLimit = 4
    WeekLength = 1
    Retention = 1
    MaxTime = 1
    MaxFaults = 1
    MaxRestarts = 2
INVARIANTS
    ToldIsDurable
PROPERTIES
    ImplementsService
    AnsweredWhileUp
\* The restarts and the submissions are used up in the end.
CHECK_DEADLOCK FALSE
