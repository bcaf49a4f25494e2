SPECIFICATION Spec
CONSTANTS
    s1 = s1
    s2 = s2
    Symbol = {s1, s2}
    Signal <- MCLongs
    EquityLevel <- MCEquityLevel
    MaxPositions = 2
    MaxDailyExposure = 10
    DailyLossLimit = 2
    DrawdownHalt = 6
    InitialEquity = 100
    MaxPositionPct = 5
    MaxDay = 2
    MaxCalls = 3
    MaxRestarts = 0
    BrokerFaults = FALSE
PROPERTIES
    TripHoldsUntilResume
