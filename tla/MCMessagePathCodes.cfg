\* A hello and one event: the codes of rejections.
SPECIFICATION Spec
CONSTANTS
    SensitiveKeys = {"user_token", "password"}
    ProhibitedKeys = {"password", "privateKey"}
    MaxMapDepth = 2
    Messages <- MCMessages
    Filters <- MCFilters
    GeneratedIDs = {"evt1", "evt2", "evt3"}
    MaxMessages = 2
PROPERTY
    RejectionsSayWhy
\* The session ends.
CHECK_DEADLOCK FALSE
