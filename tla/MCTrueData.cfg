SPECIFICATION MCSpec
CONSTANTS
    ToWedged = 2
    Patience = 3
    Faults <- AllFaults
    MaxFaults = 2
    Chains = {"nifty", "sensex", "bank"}
    Trading = {"nifty", "sensex"}
    Spots = {2, 3}
    Window = 1
    MaxSymbols = 20
    Margin = 12
    LateAcks = FALSE
    MaxSwitches = 1
    MaxDrops = 1
CHECK_DEADLOCK FALSE
INVARIANTS
    ConnectedClearsWedge
    SqueezeIsFair
    

    
