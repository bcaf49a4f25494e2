SPECIFICATION Spec
CONSTANTS
    s1 = s1
    s2 = s2
    Symbol = {s1, s2}
    Signal <- MCSignal
    EquityLevel = {96, 103}
    MaxPositions = 1
    MaxDailyExposure = 10
    DailyLossLimit = 2
    DrawdownHalt = 6
    InitialEquity = 100
    MaxPositionPct = 5
    MaxDay = 2
    MaxCalls = 2
    MaxRestarts = 1
    BrokerFaults = TRUE
INVARIANTS
    TypeOK
    StatusShowsManualHalt
    ExposureAccounted
    DailyExposureCap
PROPERTIES
    EntriesPassTheGate
