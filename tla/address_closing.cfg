\* One process, a second one that is spawned, one caller and two addresses.
SPECIFICATION AddressSpec
CONSTANTS
    p1 = p1
    p2 = p2
    c1 = c1
    a1 = a1
    a2 = a2
    Unbounded = Unbounded
    Thread <- AllThreads
    Process <- TwoProcesses
    InitialProcess <- OneProcess
    Caller <- OneCaller
    CallerOps <- Messages
    HaltSizes = {1}
    MaxCalls = 2
    Capacity = 1
    I32Max = 3
    Addresses <- TwoAddresses
    FirstAddress = a1
    Awaiting <- TwoAddresses
INVARIANTS
    NoAddressMeansClosed
CHECK_DEADLOCK FALSE
