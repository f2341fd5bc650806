CONSTANTS
    Floor = 2
    BurstMax = 2
    Window = 4
    Probe = 3
    StormLimit = 0
    BootRows = 2
    BootWindow = 4
    Lifetime = 3
    Faults = {"crash", "stolen"}
    MaxDelay = 1
    MaxTime = 5
    MaxMints = 3
    BucketLen = 2
    TickTime = 4
    QMax = 2
    MaxOpen = 2
    Kept = 1
    MaxFaults = 1
SPECIFICATION MCSpec
INVARIANTS
    NothingLost
    NewestIsPublished
PROPERTIES
    FloorHolds
    BurstHolds
    StormIsParked
CHECK_DEADLOCK FALSE
