SPECIFICATION Spec
CONSTANTS
    t1 = t1
    t2 = t2
    t3 = t3
    o1 = o1
    o2 = o2
    None = None
    Timer = Timer
    Threads <- MCTwo
    Objects <- MCPair
    Kinds = {"Manual", "Auto"}
    Forms = {"one", "any", "all"}
    MaxHandles = 2
    Limit = 1
    MaxTick = 1
    MaxCalls = 3
SYMMETRY MCSymmetry
INVARIANTS
    NoSleepOverSignal
    NoStaleEntry
