SPECIFICATION MCSpec
CONSTANTS
    p1 = p1
    p2 = p2
    p3 = p3
    t1 = t1
    t2 = t2
    t3 = t3
    t4 = t4
    v1 = v1
    v2 = v2
    v3 = v3
    n1 = n1
    Processes = {p1, p2, p3}
    Threads = {t1, t3, t4}
    ProcessOf <- MCProcessOf
    Versions = {v1, v2, v3}
    VersionOf <- ThreeVersions
    Names = {n1}
    NameOf <- OneName
    UrlHashOf <- OneUrl
    TotalOf <- MCTotalOf
    ValidatorOf <- MCValidatorOf
    MaxTotal = 4
    SizeOf <- SizeTwo
    ChunkLimit = 4
    Writable = {p1, p2, p3}
    Ranges <- RangesCross
    Reads = 1
    MaxCrashes = 1
    MaxDamages = 1
INVARIANTS
    ByteExact
    WholeOrAbsent
