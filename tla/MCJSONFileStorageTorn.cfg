SPECIFICATION Spec
CONSTANTS
    short = short
    long = long
    Events = {short, long}
    SizeOf <- Sizes
    MaxFileSize = 5
    LineLimit = 6
    WeekLength = 2
    Retention = 2
    MaxTime = 1
    MaxFaults = 1
    MaxRestarts = 1
INVARIANTS
    PromisedReadable
\* The clock, the faults and the restarts are used up in the end.
CHECK_DEADLOCK FALSE
