CONSTANTS
    r1 = r1
    r2 = r2
    turn = turn
    api = api
    worker = worker
    None = None
    Nodes <- MCNodes
    Sessions <- MCSessions
    Processes <- MCProcesses
    ProcessOf <- MCProcessOf
    Writes <- MCWrites
    KindsOf <- MCKindsOf
SPECIFICATION Spec
CHECK_DEADLOCK FALSE
INVARIANT LogKeepsEntries
