SPECIFICATION Spec
CONSTANTS
    t1 = t1
    t2 = t2
    Threads = {t1, t2}
    NetworkThread = network
    InvalidThread = invalid
    IdleThread = idle
    JournalThreads = {}
    Cpus = {c0}
    PacketKeys = {}
    SaveInterval = 9
    SoftIrqVectors = {}
    IrqNumbers = {}
    HrtimerCpus = {}
    ReportedStatuses = {"usermode", "wait_blocked"}
    MaxTs = 3
    MaxNodes = 6
    MaxDepth = 1
    MaxSameRequests = 1
    MaxSteps = 20
SYMMETRY ThreadSymmetry
CHECK_DEADLOCK FALSE
INVARIANTS
    VerticalSimultaneous
    IntersectingComplete
    PathContiguous
    PathHonest
    PathBlamesWaker
    PathEnds
