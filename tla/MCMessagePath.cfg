\* A hello and two messages out of some 260.
SPECIFICATION Spec
CONSTANTS
    SensitiveKeys = {"user_token", "password"}
    ProhibitedKeys = {"password", "privateKey"}
    MaxMapDepth = 2
    Messages <- MCMessages
    Filters <- MCFilters
    GeneratedIDs = {"evt1", "evt2", "evt3"}
    MaxMessages = 3
PROPERTIES
    AnswersAreTrue
    QueriesOnlyGrow
\* The session ends.
CHECK_DEADLOCK FALSE
