SPECIFICATION Spec
CONSTANTS
    MaxRounds = 2
    Threshold = 2
    Entry = 1
    Estimate = 2
    MaxCost = 2
    Total = 7
    TopUp = 3
    Batches = 4
    MaxTurns = 4
    MaxRequests = 5
    MaxCrash = 1
INVARIANTS RoundsCounted UsageIsOfConversation SpentIsAccounted OvershootBounded ExecutedOnce
CHECK_DEADLOCK FALSE
