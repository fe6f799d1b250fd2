SPECIFICATION FairSpec

CONSTANTS
    None = None
    NoEntry = NoEntry
    MaxPid = 3
    MaxTid = 3
    MaxSpace = 3
    MaxFds = 3
    Codes <- MCCodes

INVARIANTS
    SpaceOutlivesThreads

PROPERTIES
    ReapedIsZombie
    Wait4Returns
    Reclaimed

CHECK_DEADLOCK FALSE
