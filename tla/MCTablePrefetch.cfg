SPECIFICATION MCSpec
CONSTANTS
    c1 = c1
    c2 = c2
    Clients = {c1, c2}
    Worker = w
    NoThread = none
    RowCount = 3
    BudgetRows = 1
    MaxBatch = 2
    MaxTickets = 1
    Converting = FALSE
    ScratchRows = 0
    MaxChunks = 2
    WordModulus = 8
    MaxGeneration = 0
    Shards = {0}
    Extent <- ExtentMixed
    Requests <- RequestsOdd
    Calls <- CallsTwoTwo
    Ops <- OpsOdd
INVARIANTS
    EntriesNameTheirRow
    NobodySleepsTooLong
    WaitReportAddsUp
    ReadyHoldsItsRow
