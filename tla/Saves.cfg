SPECIFICATION Spec
CONSTANTS
    Threads = {1, 2}
    Exec = "exec"
    ThreadName <- MCThreadName
    Name = "run"
    SampleFrames <- MCSampleFrames
    SamplesOf <- MCSamplesOf
    kSaveInterval = 1
    ReportNames = {"unknown"}
    kNsPerUs = 2
    MaxFirstTs = 1
    MaxStep = 1
    MaxEvents = 4
    MaxStoppedEvents = 3
    MaxCrashes = 1
    MaxReports = 1
INVARIANTS
    TypeOK
    ReferencesResolve
    StoredIsReal
    ShortExecutionsStored
    ReportComplete
PROPERTIES
    EndedIsStored
    IdentifiersAreInterned
CHECK_DEADLOCK FALSE
