SPECIFICATION FairSpec
CONSTANTS
    Symbol = {infy}
    MaxDay = 4
    Horizon = 1
    MinCalendarDays = 2
    Lookback = 1
    MaxManual = 0
    MaxPredictions = 1
    PriceBar = {"inside", "fell"}
    MaxCorrections = 1
    MaxMisses = 1
INVARIANTS
    TypeOK
    ExitInHold
    PnlCountsOnce
    StopsAreEnforced
PROPERTIES
    ClosedOnce
    EveryTradeCloses
CHECK_DEADLOCK FALSE
