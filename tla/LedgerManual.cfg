SPECIFICATION Spec
CONSTANTS
    Symbol = {infy}
    MaxDay = 3
    Horizon = 1
    MinCalendarDays = 1
    Lookback = 1
    MaxManual = 1
    MaxPredictions = 2
    PriceBar = {"inside", "fell", "rose", "both"}
    MaxCorrections = 0
    MaxMisses = 0
INVARIANTS
    OutcomeFitsPrediction
PROPERTIES
    StaysClosed
CHECK_DEADLOCK FALSE
