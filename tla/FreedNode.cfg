SPECIFICATION Spec
CONSTANTS
    t1 = t1
    t2 = t2
    Threads = {t1}
    NetworkThread = network
    InvalidThread = invalid
    IdleThread = idle
    JournalThreads = {}
    Cpus = {c0}
    PacketKeys = {p}
    SaveInterval = 0
    SoftIrqVectors = {3}
    IrqNumbers = {}
    HrtimerCpus = {}
    ReportedStatuses = {"usermode", "wait_blocked"}
    MaxTs = 3
    MaxNodes = 6
    MaxDepth = 1
    MaxSteps = 1
    MaxSameRequests = 1
CHECK_DEADLOCK FALSE
INVARIANTS
    NoUseAfterFree
