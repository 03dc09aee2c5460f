SPECIFICATION Spec
CONSTANTS
    t1 = t1
    t2 = t2
    t3 = t3
    Unknown = unknown
    NoCall = noCall
    Profiled = {t1}
    Samples <- MCSamples
    Syscalls = {"read"}
    ProfilerFrames = {"lttng_profile_on_sample"}
    ThreadFrame <- MCThreadFrame
    RequesterFrame <- MCRequesterFrame
    PathOf <- MCPathOf
    LastCpu <- MCLastCpu
    RanOn <- MCRanOn
    GetIntervals <- MCOwnRequests
    Paths <- MCDiskPaths
    kMinSyscallDuration = 2
    kMaxRewind = 3
    TsModulus = 16
    SaveInterval = 0
    MaxTs = 4
    MaxEntries = 4
    MaxLost = 1
CHECK_DEADLOCK FALSE
INVARIANTS
    ExtractedAfterDisk
