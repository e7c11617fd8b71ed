\* One process, two threads that try to send and one that sends and blocks, on an
\* unbounded channel.
SPECIFICATION SendSpec
CONSTANTS
    p1 = p1
    s1 = s1
    s2 = s2
    s3 = s3
    Unbounded = Unbounded
    Thread <- WithThreeSenders
    Process <- OneProcess
    InitialProcess <- OneProcess
    Caller <- NoCaller
    CallerOps <- NoOps
    HaltSizes = {1}
    MaxCalls = 0
    Capacity = Unbounded
    I32Max = 3
    Streaming <- NoProcess
    ExitsOnError = TRUE
    Sender <- ThreeSenders
    Methods <- TriesAndBlocking
    BackPressures <- LimitsAndFactors
    UsizeMax = 15
    U64Max = 40
    MaxSends = 2
INVARIANTS
    BackPressureBounds
PROPERTIES
    TimeoutMonotone
CHECK_DEADLOCK FALSE
