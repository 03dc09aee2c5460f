SPECIFICATION Spec
CONSTANTS
    t1 = t1
    t2 = t2
    Threads = {t1, t2}
    NetworkThread = network
    InvalidThread = invalid
    IdleThread = idle
    JournalThreads = {}
    Cpus = {c0}
    PacketKeys = {}
    SaveInterval = 9
    SoftIrqVectors = {}
    IrqNumbers = {}
    HrtimerCpus = {}
    ReportedStatuses = {"usermode", "wait_blocked"}
    MaxTs = 4
    MaxNodes = 7
    MaxDepth = 1
    MaxSameRequests = 1
    MaxSteps = 20
CHECK_DEADLOCK FALSE
INVARIANTS
    PathDuration
