SPECIFICATION Spec
CONSTANTS
    t1 = t1
    t2 = t2
    t3 = t3
    o1 = o1
    o2 = o2
    None = None
    Timer = Timer
    Threads <- MCTwo
    Objects <- MCOne
    Kinds = {"Auto"}
    Forms = {"one"}
    MaxHandles = 1
    Limit = 1
    MaxTick = 1
    MaxCalls = 3
INVARIANTS
    OneWaitPerSignal
