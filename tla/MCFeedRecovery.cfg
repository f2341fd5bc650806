CONSTANTS
    Stale = 2
    Gap = 2
    VerifyIn = 1
    VerifyOff = 1
    Extension = 1
    DeathWindow = 1
    MaxDeaths = 2
    SuicideAfter = 2
    RejectAfter = 2
    MaxFeeds = 2
    Faults = {"stolen", "cycle", "rejected", "expired", "death", "network",
              "universe", "login", "outage", "human", "day"}
    MaxFaults = 2
SPECIFICATION Spec
INVARIANTS
    ExitAfterLadder
PROPERTIES
    DeadFeedEndsInExit
    Recovers
