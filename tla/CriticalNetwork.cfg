SPECIFICATION Spec
CONSTANTS
    t1 = t1
    t2 = t2
    Threads = {t1}
    NetworkThread = network
    InvalidThread = invalid
    IdleThread = idle
    JournalThreads = {}
    Cpus = {c0}
    PacketKeys = {p}
    SaveInterval = 0
    SoftIrqVectors = {3}
    IrqNumbers = {}
    HrtimerCpus = {}
    ReportedStatuses = {"wait_blocked"}
    MaxTs = 3
    MaxNodes = 7
    MaxDepth = 1
    MaxSteps = 16
    MaxSameRequests = 1
CHECK_DEADLOCK FALSE
INVARIANTS
    TypeOK
    SlotsResolve
    EdgesAnchored
    ThreadEdgesAdjacent
    HopHasSender
    PacketHeldOnce
    CleanupOrderFree
    PathContiguous
PROPERTIES
    CleanupForgetsOnlyOld
