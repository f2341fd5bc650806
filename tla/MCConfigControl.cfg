SPECIFICATION Spec
CONSTANTS
    Thrown = {"kill", "lock"}
    TTL = 1
    MaxVersions = 3
    MaxRequests = 2
    MaxFaults = 1
CHECK_DEADLOCK FALSE
INVARIANT StaleAtMostTTL
PROPERTY KilledEndsFlat
