\* One handler at a time: a pause during a resumed execution.
CONSTANTS
    c1 = c1
    c2 = c2
    Lost = Lost
    None = None
    Clients <- MCOneClient
    Snaps <- MCFour
    Attempts <- MCTwo
    Items <- MCFour
    MaxOps = 4
    MaxTurns = 3
    MaxCrash = 1
    Overlap = FALSE
    LateCrash = FALSE
    HandlersDie = FALSE
    Prepared <- MCRestorable
SPECIFICATION Spec
CHECK_DEADLOCK FALSE
INVARIANT PausedIsResumable
