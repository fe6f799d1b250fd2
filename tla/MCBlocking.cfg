SPECIFICATION MCSpec

CONSTANTS
    None = None
    \* Ahci
    Subs = {s1, s2}
    Depths = {1, 2}
    FailOps = {"read", "write"}
    MaxErrors = 1
    \* ExecGate
    Callers = {c1, c2}
    Svc = svc
    NCpu = 2
    Files = {bad, marker, eicar}
    Eicar = {eicar}
    KnownBad = {bad}
    BLOCKED_HASHES = {marker}
    MaxChecks = 2
    \* Smp
    Lapics = {l0, l1, l2, l3}
    Bsp = l0
    MAX_CPUS = 4
    \* Boot
    TICKS = 1
    MaxKeys = 1
    MaxTries = 2

INVARIANTS
    OkMeansDone
    VerdictIsMine

PROPERTIES
    
    CheckReturns
    CpusComeUp
    UnattendedBoots

CHECK_DEADLOCK FALSE
