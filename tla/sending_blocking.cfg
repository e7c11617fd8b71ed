\* One process and one thread that sends and blocks.
SPECIFICATION EagerSpec
CONSTANTS
    p1 = p1
    s1 = s1
    s2 = s2
    s3 = s3
    Unbounded = Unbounded
    Thread <- WithOneSender
    Process <- OneProcess
    InitialProcess <- OneProcess
    Caller <- NoCaller
    CallerOps <- NoOps
    HaltSizes = {1}
    MaxCalls = 0
    Capacity = 1
    I32Max = 3
    Streaming <- NoProcess
    ExitsOnError = TRUE
    Sender <- OneSender
    Methods <- Blocking
    BackPressures <- Disabled
    UsizeMax = 15
    U64Max = 40
    MaxSends = 2
PROPERTIES
    SendReturns
CHECK_DEADLOCK FALSE
