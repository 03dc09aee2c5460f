SPECIFICATION Spec
CONSTANTS
    t1 = t1
    t2 = t2
    NULL = null
    Threads = {t1}
    FirstTs = 4
    MaxTs = 5
    MaxRequests = 5
CHECK_DEADLOCK FALSE
INVARIANTS
    TreeOK
    FindsRequests
PROPERTIES
    IsRequestBag
