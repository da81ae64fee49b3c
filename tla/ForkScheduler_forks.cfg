\* Two slots (three, one of them reserved); the third child depends on the first.
CONSTANTS
    Children <- MCChildren
    DependsOn <- MCDependsOn
    MaxForks = 3
    Reserve = 1
    MaxRuns = 12
    RunBound = 9
    MaxCrash = 1
SPECIFICATION FairSpec
CHECK_DEADLOCK FALSE
INVARIANTS ForkLimit OneForkPerChild DependenciesExecuted LaunchesEnd
PROPERTY AllChildrenExecuted
