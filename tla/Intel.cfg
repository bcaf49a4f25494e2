SPECIFICATION Spec
CONSTANTS
    Filings <- MCFilings
    FirstDay = 3
    LastDay = 7
    Budget = 2
    Providers = 2
    BatchSize = 2
    PullLimit = 3
    MaxBatches = 2
    MaxTroubles = 1
    MaxCrashes = 1
    MaxVisits = 1
INVARIANTS
    NoFilingIsLost
    OverrunBounded
PROPERTIES
    RowsAreProcessed
