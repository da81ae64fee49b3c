\* Two handlers whose requests overlap each other and the turns of the worker.
CONSTANTS
    c1 = c1
    c2 = c2
    Lost = Lost
    None = None
    Clients <- MCClients
    Snaps <- MCFour
    Attempts <- MCTwo
    Items <- MCFour
    MaxOps = 3
    MaxTurns = 3
    MaxCrash = 1
    Overlap = TRUE
    LateCrash = TRUE
    HandlersDie = FALSE
    Prepared <- MCRestorable
SPECIFICATION Spec
CHECK_DEADLOCK FALSE
INVARIANTS QueuedHasWork ResumedOnce
PROPERTIES SavedKept NoResurrection
