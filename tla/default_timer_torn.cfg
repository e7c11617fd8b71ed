\* One thread that sets the timer three times and one that gets it.
SPECIFICATION TimerSpec
CONSTANTS
    s1 = s1
    g1 = g1
    Setter <- OneSetter
    Getter <- OneGetter
    Timers <- ThreeTimers
    NanosPerSec = 10
    MaxSets = 3
INVARIANTS
    GetReturnsASet
