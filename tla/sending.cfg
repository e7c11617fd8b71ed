\* One process and two senders on a bounded channel.
SPECIFICATION EagerSpec
CONSTANTS
    p1 = p1
    s1 = s1
    s2 = s2
    s3 = s3
    Unbounded = Unbounded
    Thread <- WithTwoSenders
    Process <- OneProcess
    InitialProcess <- OneProcess
    Caller <- NoCaller
    CallerOps <- NoOps
    HaltSizes = {1}
    MaxCalls = 0
    Capacity = 1
    I32Max = 3
    Streaming <- NoProcess
    ExitsOnError = TRUE
    Sender <- TwoSenders
    Methods <- Futures
    BackPressures <- Disabled
    UsizeMax = 15
    U64Max = 40
    MaxSends = 2
INVARIANTS
    SendTypeOK
    CloseReachesSenders
    NobodyStranded
    SendListenersInUse
PROPERTIES
    SendReturns
    ImplementsMailbox
CHECK_DEADLOCK FALSE
