\* Three threads, the nested pair of keys, three lock objects.
CONSTANTS
    t1 = t1
    t2 = t2
    t3 = t3
    branch = branch
    default = default
    l1 = l1
    l2 = l2
    l3 = l3
    None = None
    Threads <- MCThreads
    Keys <- MCKeys
    Nests <- MCNests
    Locks <- MCLocks
SPECIFICATION FairSpec
INVARIANTS
    MutualExclusion
    RegistryMatchesUsers
PROPERTIES
    QueueMoves
