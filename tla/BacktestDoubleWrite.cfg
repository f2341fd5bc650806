CONSTANTS
    LastDay = 2
    ThinDays = {}
    CarryPauses = {FALSE}
    Faults = {"stop", "backfill"}
    MaxStops = 1
    Scripts <- EnterAndExit
SPECIFICATION Spec
INVARIANT NoDoubleWrite
