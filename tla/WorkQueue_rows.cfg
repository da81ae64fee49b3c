\* Claims and cancels race, work may outlive its lease and its lock, Redis may fail;
\* the third item is ignored.
CONSTANTS
    w1 = w1
    w2 = w2
    ta = ta
    tb = tb
    Controller = Controller
    None = None
    Workers <- MCWorkers
    Tasks <- MCTasks
    Items <- MCItems
    TaskOf <- MCTaskOf
    Unsupported <- MCThird
    MaxRetry = 1
    MaxDisturb = 2
    WorkOutlivesLease = TRUE
    RedisFails = TRUE
SPECIFICATION Spec
CHECK_DEADLOCK FALSE
SYMMETRY MCSymmetry
INVARIANTS TaskExclusive CompletedMeansExecuted
PROPERTIES ImplementsAtLeastOnce
