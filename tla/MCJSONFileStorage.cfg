\* Two faults anywhere and one restart, or none: three events of which one is
\* longer than a file may be, two weeks, and files that expire.
SPECIFICATION Spec
CONSTANTS
    short = short
    long = long
    Events = {short, long, huge}
    SizeOf <- Sizes
    MaxFileSize = 5
    LineLimit = 6
    WeekLength = 2
    Retention = 1
    MaxTime = 2
    MaxFaults = 2
    MaxRestarts = 1
INVARIANTS
    TypeOK
    ReadableUnlessFaulty
    OnceUnlessFaulty
    FileSizeBounded
    KnownOnDiskOrExpired
    PromisedBytesKept
PROPERTIES
    NoEarlyRemoval
\* The clock, the faults and the restarts are used up in the end.
CHECK_DEADLOCK FALSE
