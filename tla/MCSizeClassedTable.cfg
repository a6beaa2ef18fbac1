SPECIFICATION Spec
CHECK_DEADLOCK FALSE
CONSTANTS
    t1 = t1
    t2 = t2
    Callers = {t1, t2}
    Prefetcher = t1
    NoCaller = none
    Configs <- MCConfigs
    Served <- MCServed
    Requests <- MCRequests
    OutSize = 2
    Precision = 16
    CallLimit <- MCCallLimit
INVARIANTS
    LeaseShowsItsRow
    ReadsFitTheirSlot
    FailedResolveKeepsNothing
    DrainEndsOldFills
PROPERTIES
    WholeTableFits
