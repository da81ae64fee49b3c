\* One handler, longer histories; requests and turns do not overlap; handlers
\* die, and the worker even between the commit of a turn and its report.
CONSTANTS
    c1 = c1
    c2 = c2
    Lost = Lost
    None = None
    Clients <- MCOneClient
    Snaps <- MCFour
    Attempts <- MCTwo
    Items <- MCFour
    MaxOps = 5
    MaxTurns = 5
    MaxCrash = 1
    Overlap = FALSE
    LateCrash = TRUE
    HandlersDie = TRUE
    Prepared <- MCPrepared
SPECIFICATION Spec
CHECK_DEADLOCK FALSE
INVARIANTS OneActiveAttempt ActiveSnapshotUsable CancelledIsOver
