CONSTANTS
    PollAttempts = 2
    StatusErrors = FALSE
    MaxOpen = 1
    Symbols = {A, B}
    Scopes = {S, T}
    FollowerQueue = 2
    HeartbeatStale = 2
    LineFaults = {"mute", "close", "refuse", "nudge"}
    MaxTicks = 4
    MaxFaults = 2
SPECIFICATION MCSpec
INVARIANTS
    RefusedBuyIsFlat
    OneOrderPerCall
    NewestSurvives
PROPERTIES
    MeetsContract
    CallReturns
    FollowerReturns
    PanelSettles
    StripSettles
\* The vendor's ticks are bounded.
CHECK_DEADLOCK FALSE
