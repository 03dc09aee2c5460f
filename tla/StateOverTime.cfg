SPECIFICATION Spec
CONSTANTS
    t1 = t1
    t2 = t2
    c0 = c0
    c1 = c1
    v0 = v0
    v1 = v1
    Unknown = unknown
    ULongModulus = 8
    StateKeys = {curCpu}
    StateValues = {v0, v1}
    Threads = {t1}
    IdleThread = idle
    Cpus = {c0}
    UstThreads = {t1}
    ReusedTids = {t1}
    SaveInterval = 0
    MaxTs = 4
    MaxEntries = 3
    MaxCount = 1
SYMMETRY ValueSymmetry
CHECK_DEADLOCK FALSE
INVARIANTS
    TypeOK
    EnumerationAgrees
PROPERTIES
    UIntegersKept
    ULongsKept
