CONSTANTS
    Clients = {c1, c2}
    MaxRuns = 2
    Restarts = TRUE
    LastDay = 3
    Scripts <- FourKinds
    ThinDays = {3}
    CarryPauses = {FALSE}
    Faults = {"stop", "cancel"}
    MaxStops = 2
SPECIFICATION MCSpec
INVARIANTS
    SingleFlight
    RunningHasTask
    ResumedIsUninterrupted
PROPERTY QueueMoves
