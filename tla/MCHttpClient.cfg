CHECK_DEADLOCK FALSE
SPECIFICATION FairSpec
CONSTANTS
    v1 = v1
    v2 = v2
    v3 = v3
    Versions <- MCVersions
    NoVersion = NoVersion
    Validators <- MCValidators
    Describes <- MCDescribes
    Length = 2
    Limits = {0, 2}
    Addresses = 2
    HeadLimit = 1
    MaxPublishes = 1
INVARIANTS ReportMatchesAttempts
PROPERTIES ImplementsTransport FetchReturns
