SPECIFICATION MCSpec
CONSTANTS
    c1 = c1
    c2 = c2
    Clients = {c1, c2}
    Worker = w
    NoThread = none
    RowCount = 2
    BudgetRows = 2
    MaxBatch = 2
    MaxTickets = 1
    Converting = FALSE
    ScratchRows = 0
    MaxChunks = 1
    WordModulus = 8
    MaxGeneration = 2
    Shards = {0}
    Extent <- ExtentPlain
    Requests <- RequestsPair
    Calls <- CallsThreeTwo
    Ops <- OpsInvalidate
INVARIANTS
    FillsAreCounted
    BatchIsOneGeneration
    NeverTerminates
PROPERTIES
    DrainMeansQuiet
