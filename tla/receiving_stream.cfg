\* One process that receives through the stream of its inbox; one caller that makes
\* one call.
SPECIFICATION FairSpec
CONSTANTS
    p1 = p1
    p2 = p2
    c1 = c1
    Unbounded = Unbounded
    Thread <- ProcessAndCaller
    Process <- OneProcess
    InitialProcess <- OneProcess
    Caller <- OneCaller
    CallerOps <- SendAndHaltSome
    HaltSizes = {1}
    MaxCalls = 1
    Capacity = 2
    I32Max = 3
    Streaming <- OneProcess
    ExitsOnError = FALSE
PROPERTIES
    HaltWakesReceiver
CHECK_DEADLOCK FALSE
