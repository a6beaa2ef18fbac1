SPECIFICATION MCSpec
CONSTANTS
    c1 = c1
    c2 = c2
    Clients = {c1, c2}
    Worker = w
    NoThread = none
    RowCount = 2
    BudgetRows = 1
    MaxBatch = 2
    MaxTickets = 1
    Converting = FALSE
    ScratchRows = 0
    MaxChunks = 2
    WordModulus = 8
    MaxGeneration = 0
    Shards = {0, 1}
    Extent <- ExtentShards
    Requests <- RequestsSingle
    Calls <- CallsTwoOne
    Ops <- OpsResolve
INVARIANTS
    ReadyHoldsItsRow
