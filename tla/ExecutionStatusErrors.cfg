CONSTANTS
    PollAttempts = 2
    StatusErrors = TRUE
    MaxOpen = 1
SPECIFICATION Spec
INVARIANT RefusedBuyIsFlat
