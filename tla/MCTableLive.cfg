SPECIFICATION MCFairSpec
CONSTANTS
    c1 = c1
    c2 = c2
    Clients = {c1, c2}
    Worker = w
    NoThread = none
    RowCount = 2
    BudgetRows = 2
    MaxBatch = 2
    MaxTickets = 1
    Converting = TRUE
    ScratchRows = 1
    MaxChunks = 1
    WordModulus = 2
    MaxGeneration = 0
    Shards = {0}
    Extent <- ExtentPlain
    Requests <- RequestsSingle
    Calls <- CallsTwoOne
    Ops <- OpsDrain
INVARIANTS
    ReadyHoldsItsRow
    ScratchIsOwned
PROPERTIES
    CallsReturn
    FillsEnd
