SPECIFICATION MCSpec
CONSTANTS
    c1 = c1
    c2 = c2
    Clients = {c1, c2}
    Worker = w
    NoThread = none
    RowCount = 3
    BudgetRows = 2
    MaxBatch = 2
    MaxTickets = 1
    Converting = FALSE
    ScratchRows = 0
    MaxChunks = 1
    WordModulus = 2
    MaxGeneration = 0
    Shards = {0}
    Extent <- ExtentPlain
    Requests <- RequestsCross
    Calls <- CallsTwoOne
    Ops <- OpsResolve
INVARIANTS
    TypeOK
    LeasesNameTheirSlot
    PinsCountLeases
    OneSlotPerKey
    OneFinisher
    ResolveIsAllOrNothing
PROPERTIES
    KeptWhileInUse
