\* A child or a pool of one process or task, to which a process may be added.
SPECIFICATION SuperSpec
CONSTANTS
    p1 = p1
    p2 = p2
    sup = sup
    Unbounded = Unbounded
    Thread <- AllThreads
    Process <- TwoProcesses
    InitialProcess <- OnlySecond
    Caller <- NoCaller
    CallerOps = {}
    HaltSizes = {1}
    MaxCalls = 0
    Capacity = 1
    I32Max = 3
    Supervisor = sup
    MaxHalts = 1
    FirstHandles <- SecondHandle
    Links <- AllLinks
    Kinds = {"process", "task"}
    Panicking <- OnlyFirst
INVARIANTS
    SuperTypeOK
    NoExitLost
    AbortIsExplained
    ProcessesHaveTasks
    HaltForEveryTask
PROPERTIES
    ImplementsLifecycle
    DetachedLeavesTasks
    DropEndsTasks
    ShutdownReturns
CHECK_DEADLOCK FALSE
