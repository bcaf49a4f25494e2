SPECIFICATION Spec
CONSTANTS
    Filings <- MCWeekend
    FirstDay = 3
    LastDay = 8
    Budget = 9
    Providers = 2
    BatchSize = 2
    PullLimit = 3
    MaxBatches = 3
    MaxTroubles = 0
    MaxCrashes = 0
    MaxVisits = 0
INVARIANT
    FilingsAreCollected
