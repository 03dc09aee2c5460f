SPECIFICATION Spec
CONSTANTS
    t1 = t1
    t2 = t2
    NULL = null
    Threads = {t1, t2}
    NetworkThread = network
    InvalidThread = invalid
    IdleThread = idle
    JournalThreads = {t1}
    Cpus = {c0}
    PacketKeys = {}
    SaveInterval = 1
    SoftIrqVectors = {4}
    IrqNumbers = {19}
    HrtimerCpus = {c0}
    ReportedStatuses = {"usermode", "wait_blocked", "null"}
    MaxTs = 3
    MaxNodes = 3
    MaxDepth = 1
    MaxSteps = 1
    MaxSameRequests = 1
CHECK_DEADLOCK FALSE
INVARIANTS
    TypeFollowsStatus
    RequestsNested
