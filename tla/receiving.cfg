\* Two processes, the second one spawned while the actor runs; one caller that
\* makes three calls of any kind.
SPECIFICATION FairSpec
CONSTANTS
    p1 = p1
    p2 = p2
    c1 = c1
    Unbounded = Unbounded
    Thread <- ProcessesAndCaller
    Process <- TwoProcesses
    InitialProcess <- OneProcess
    Caller <- OneCaller
    CallerOps <- AllOps
    HaltSizes = {1, 2}
    MaxCalls = 3
    Capacity = 2
    I32Max = 3
    Streaming <- NoProcess
    ExitsOnError = FALSE
INVARIANTS
    TypeOK
    HaltsConserved
    HaltDebtBounded
    InboxCountExact
    ExitLeavesNothing
    HaltNotLost
    CloseNotLost
    MessageNotLost
    ListenersInUse
PROPERTIES
    MessageWakesReceiver
    HaltWakesReceiver
    ImplementsMailbox
    ImplementsHaltPool
    ExitEmpties
CHECK_DEADLOCK FALSE
