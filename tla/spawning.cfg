\* The runtime has one thread: no task runs before spawn_many_processes returns.
SPECIFICATION ManySpec
CONSTANTS
    p1 = p1
    p2 = p2
    p3 = p3
    c1 = c1
    Unbounded = Unbounded
    Thread <- AllThreads
    Process <- ThreeProcesses
    InitialProcess <- OnlyFirst
    Caller <- OneCaller
    CallerOps <- Later
    HaltSizes = {1}
    MaxCalls = 3
    Capacity = 2
    I32Max = 3
    Multithreaded = FALSE
    Items = {0, 1, 2}
    UsizeMax = 7
INVARIANTS
    SpawnCountExact
CHECK_DEADLOCK FALSE
