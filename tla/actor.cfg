\* A child or a pool of one process or task, and two addresses, one of them awaited.
SPECIFICATION ActorSpec
CONSTANTS
    p1 = p1
    sup = sup
    a1 = a1
    a2 = a2
    Unbounded = Unbounded
    Thread <- AllThreads
    Process <- OneProcess
    InitialProcess <- OneProcess
    Caller <- NoCaller
    CallerOps = {}
    HaltSizes = {1}
    MaxCalls = 0
    Capacity = 1
    I32Max = 3
    Supervisor = sup
    MaxHalts = 0
    FirstHandles <- OneHandle
    Links = {"zero", "timer"}
    Kinds = {"process", "task"}
    Panicking = {}
    Addresses <- TwoAddresses
    FirstAddress = a2
    Awaiting <- OneAddress
INVARIANTS
    AddressTypeOK
    AddressCountExact
    ExitNotMissed
PROPERTIES
    ImplementsWatchedLifecycle
    AwaitReturns
    DropReturnsAwaits
CHECK_DEADLOCK FALSE
