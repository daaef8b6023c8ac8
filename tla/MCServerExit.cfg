\* What an orderly exit leaves behind, against the documentation.
SPECIFICATION ServerSafetySpec
CONSTANTS
    first = first
    retry = retry
    e1 = e1
    e2 = e2
    Jobs = {first, retry, other}
    Cancellable = {}
    Workers = {w1, w2}
    Stoppers = {}
    QueueSize = 1
    NoJob = NoJob
    NoOne = NoOne
    EventOf <- EventsOfJobs
    Events = {e1, e2}
    SizeOf <- Sizes
    MaxFileSize = 4
    LineLimit = 4
    WeekLength = 1
    Retention = 1
    MaxTime = 0
    MaxFaults = 0
    MaxRestarts = 0
\* The restarts and the submissions are used up in the end.
CHECK_DEADLOCK FALSE
PROPERTIES
    ExitDrainsOrReports
