SPECIFICATION MCSpec
CONSTANTS
    Days = 2
    Close = 2
    Delay = 1
    Lag = 0
    MinMissing = 1
    MinMinutes = 2
    MaxFaults = 1
    Symbols = {A, B}
    None = None
    MaxAsks = 1
    Cycles = TRUE
CHECK_DEADLOCK FALSE
INVARIANTS
    DoneIsWhole
    CleanSwitchAgrees
PROPERTIES
    PastIsRestored
    ChainFollows
