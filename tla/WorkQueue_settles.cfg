\* The same interferences over the two items of one task.
CONSTANTS
    w1 = w1
    w2 = w2
    ta = ta
    tb = tb
    Controller = Controller
    None = None
    Workers <- MCWorkers
    Tasks <- MCOneTask
    Items <- MCTwoItems
    TaskOf <- MCAllOf
    Unsupported <- MCNoItem
    MaxRetry = 1
    MaxDisturb = 2
    WorkOutlivesLease = TRUE
    RedisFails = TRUE
SPECIFICATION FairSpec
CHECK_DEADLOCK FALSE
PROPERTIES EveryItemSettles
