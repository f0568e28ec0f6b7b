SPECIFICATION Spec
CONSTANTS
    c1 = c1
    c2 = c2
    root = root
    t1 = t1
    t2 = t2
    t3 = t3
    p1 = p1
    rootPath = rootPath
    NoThread = NoThread
    NoPath = NoPath
    Vacant = Vacant
    Reserved = Reserved
    Callers <- MCCallers
    Root = root
    Paths <- MCPaths
    RootPath = rootPath
    Threads <- MCThreads
    Resumable <- MCResumable
    MaxThreads = 2
SYMMETRY Symmetry
INVARIANTS TypeOK SlotsCovered SlotsExact RunningWithinLimit PathHeldByOne
PROPERTY NeverUnregisteredWhileRunning
CHECK_DEADLOCK FALSE
