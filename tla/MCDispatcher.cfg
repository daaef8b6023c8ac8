\* Two submissions through a queue of one, two workers, fair or stuck, and two
\* Shutdowns; no symmetry, which liveness checking forbids.
SPECIFICATION StalledSpec
CONSTANTS
    Jobs = {j1, j2}
    Cancellable = {j1}
    Workers = {w1, w2}
    Stoppers = {s1, s2}
    QueueSize = 1
    NoJob = NoJob
    NoOne = NoOne
INVARIANTS
    TypeOK
    NoPanic
    EachJobInOnePlace
    AckOnlyAfterStore
    ErrorMeansNotStored
    NoResultLost
    DrainedMeansAllAnswered
PROPERTIES
    ImplementsLedger
    NoAdmissionAfterShutdown
    PendingOffByWorkersAtMost
    AcceptedIsAnswered
    ShutdownReturns
    SubmitNeverBlocks
