SPECIFICATION MCFairSpec
CONSTANTS
    r1 = r1
    r2 = r2
    r3 = r3
    s1 = s1
    s2 = s2
    Workers = {w1, w2}
    Callers = {c1, c2}
    Requests = {r1, r2, r3}
    Sources = {s1, s2}
    SourceOf <- MCSourceOf
    Capacity = 2
    MaxSources = 1
    Length = 1
INVARIANTS
    NoIdleWorker
    StatsAddUp
PROPERTIES
    ImplementsFillBackend
    AcceptedIsDelivered
    ShutdownReturns
