\* One task, its windows, requests in between and one sub-agent at a time.
CONSTANTS
    None = None
    Nodes <- MCNodes
    Plans <- MCPlans
    Root = 1
    MaxSteps = 5
    MaxLost = 1
    MaxItems = 2
SPECIFICATION Spec
CHECK_DEADLOCK FALSE
INVARIANTS AwaitingMeansDone HardGatesHold
PROPERTIES ClosingCoversSubtree VerdictsKept GatesGiveOneRetry RevisionReachesWork
