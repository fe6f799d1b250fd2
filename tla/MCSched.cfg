SPECIFICATION FairSpec
CONSTANTS
    cpu0 = cpu0
    cpu1 = cpu1
    boot = boot
    t1 = t1
    t2 = t2
    idle0 = idle0
    idle1 = idle1
    None = None
    Cpus <- MCCpus
    Threads <- MCThreads
    IdleOf <- MCIdleOf
    Bsp = cpu0
    Boot = boot
INVARIANTS
    StackExclusion
    NoLostWakeup
    NoStrandedThread
    NoFreedStackInUse
    IInv
PROPERTIES
    ExitIsFinal
    ReadyRuns
    ImplementsFairPark
