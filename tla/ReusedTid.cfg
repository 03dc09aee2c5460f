SPECIFICATION Spec
CONSTANTS
    t1 = t1
    t2 = t2
    c0 = c0
    c1 = c1
    v0 = v0
    v1 = v1
    Unknown = unknown
    ULongModulus = 8
    StateKeys = {}
    StateValues = {}
    Threads = {t1}
    IdleThread = idle
    Cpus = {c0, c1}
    UstThreads = {t1}
    ReusedTids = {t1}
    SaveInterval = 0
    MaxTs = 3
    MaxEntries = 4
    MaxCount = 2
SYMMETRY CpuSymmetry
CHECK_DEADLOCK FALSE
INVARIANTS
    MinimumOfThread
