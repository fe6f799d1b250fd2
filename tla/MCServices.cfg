SPECIFICATION MCSpec
SYMMETRY Symmetry

CONSTANTS
    None = None
    \* Memory
    Frames = {f1, f2, f3, f4, f5, f6}
    Spaces = {s1, s2}
    Sections = {x1}
    MaxBrk = 1
    MaxVa = 1
    \* Loader
    Dlls = {"a", "b", "c"}
    ImportDepth = 2
    MaxForward = 2
    MaxTls = 2
    MaxLdr = 2
    MaxInit = 4
    \* Win32
    Threads = {t1, t2}
    MaxDepth = 3
    MaxCalls = 1
    MaxEvents = 2
    \* Session
    Tokens <- MCTokens
    Names <- MCNames
    Passwords = {"p", "q"}
    Salts = {3, 6}
    MaxTries = 4
    MaxBoots = 3
    \* Console
    RING_TRBS = 3
    MaxBatch = 2
    MaxReports = 4
    MaxPend = 1
    MaxHeld = 3
    MaxPortEvents = 1

INVARIANTS
    FramesOwnedOnce
    ImportsBound
    
    ResumesInterrupted
    
    AccountSurvives
    KeysDelivered
    LinesKept

CHECK_DEADLOCK FALSE
