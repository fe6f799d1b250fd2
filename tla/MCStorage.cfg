SPECIFICATION MCSpec

CONSTANTS
    None = None
    \* Ext2
    Writers = {w1}
    NBlocks = 6
    NInodes = 3
    Direct = 2
    Slots = 1
    MaxLen = 3
    MaxOps = 3
    MaxCrashes = 1
    \* Registry
    Callers = {c1}
    Keys <- MCKeys
    Values = {v1}
    Uids = {0, 1}
    MaxKeyCalls = 3
    MaxWatches = 1
    MaxReboots = 1
    \* Files
    Tasks = {1, 2}
    Bytes = {1}
    MaxFile = 2
    MaxObjs = 2
    MaxFileCalls = 5
    Uid <- MCUid
    Owners <- MCOwners
    Args <- MCArgs
    WinNames <- MCWinNames
    Installed <- MCInstalled
    CdFiles <- MCCdFiles
    \* Fat
    SECTOR = 2
    ENTS = 2
    EOC = 100
    Fat32Min = 6

INVARIANTS
    NoTornFile
    FsckClean
    
    NoMissedWatch
    WritesKept
    FileIsWhole

CHECK_DEADLOCK FALSE
