SPECIFICATION Spec
CONSTANTS
    t1 = t1
    t2 = t2
    c0 = c0
    c1 = c1
    v0 = v0
    v1 = v1
    Unknown = unknown
    ULongModulus = 8
    StateKeys = {}
    StateValues = {}
    Threads = {t1}
    IdleThread = idle
    Cpus = {c0, c1}
    UstThreads = {t1}
    ReusedTids = {}
    SaveInterval = 0
    MaxTs = 1
    MaxEntries = 4
    MaxCount = 3
SYMMETRY CpuSymmetry
CHECK_DEADLOCK FALSE
INVARIANTS
    NeverAhead
    ExactOffCpu
PROPERTIES
    NeverBack
