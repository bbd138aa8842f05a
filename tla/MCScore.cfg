SPECIFICATION FairSpec
CONSTANTS
    Sources <- MCSources
    Level <- MCLevel
    Labels <- MCLabels
    Vector <- MCVector
    Subsongs = {1, 2}
    Burst = 2
INVARIANTS
    NoneForgotten
    NestedByLevel
    NeverCallsZero
    RequestIsKept
    SongEndIsTold
PROPERTIES
    WaitReturns
    TimerIsServed
