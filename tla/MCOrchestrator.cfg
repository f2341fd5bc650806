CONSTANTS
    Faults = {"db", "restart"}
    Shadow = FALSE
    Kills = {FALSE}
    MaxLosses = 1
    MaxRows = 2
    MaxOpen = 1
    UmpPrices = {7, 9, 11, 21, 24}
    LevelSets = {{8, 24}}
    Medians = {}
    Half = 2
    Stop = 4
    Tf = 2
    Timeout = 1
    Enabled = {"S1A", "S1B", "S1C", "S2A", "S2B", "S3A", "S3B", "S3C", "R1", "R2"}
    EntryHigh = TRUE
    OneWick = TRUE
SPECIFICATION MCSpec
INVARIANTS
    OneExposure
    NoOrphan
    LedgerMatches
    ExitEndsCandle
    TrailIsHonest
PROPERTIES
    NoSecondSell
    UnknownStopsEngine
    LossStreakStopsEngine
    NoCloseIsLost
