\* Six requests from one host, with and without a key, over two windows.
SPECIFICATION Spec
CONSTANTS
    MaxRequests = 6
    APIKeys = {k1}
    Hosts = {h1}
    NoAPIKey = NoAPIKey
    Limit = 2
    Window = 2
    MaxDelay = 1
    MaxTime = 4
INVARIANTS
    BurstBounded
    RefusalIsDue
\* All the requests are decided in the end.
CHECK_DEADLOCK FALSE
