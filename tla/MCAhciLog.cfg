SPECIFICATION AhciSpec
CONSTANTS
    Subs = {s1, s2}
    Depths = {2}
    FailOps = {"read", "write"}
    MaxErrors = 1
    None = None
INVARIANT DiskHoldsOnlyData
CHECK_DEADLOCK FALSE
