CONSTANTS
    Faults = {}
    Shadow = FALSE
    Kills = {FALSE, TRUE}
    MaxLosses = 1
    MaxRows = 1
    MaxOpen = 1
SPECIFICATION MCSpec
PROPERTY ExitGoesThrough
