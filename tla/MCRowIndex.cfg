SPECIFICATION MCSpec
CONSTANTS
    Keys = {1, 2, 3, 4}
    BudgetRows = 3
    IndexSize = 8
INVARIANTS
    FindIsExact
    EraseFindsItsEntry
PROPERTIES
    OperationsEnd
