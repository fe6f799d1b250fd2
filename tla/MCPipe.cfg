SPECIFICATION FairSpec

CONSTANTS
    t1 = t1
    t2 = t2
    None = None
    Threads <- MCThreads
    Cap = 2
    MaxLen = 3
    MaxFds = 2
    MaxCalls = 4

INVARIANTS
    NoSleepOverChange
    EofIsFinal

PROPERTIES
    ClosedEndSeen
    BytesMove

CHECK_DEADLOCK FALSE
