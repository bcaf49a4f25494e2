SPECIFICATION Spec
CONSTANTS
    p1 = p1
    p2 = p2
    p3 = p3
    Batch <- MCBatch
    OverCap = {p3}
    MaxSignalsPerDay = 2
    BrokerFaults = TRUE
    MaxBatches = 2
    MaxUpdates = 3
    MaxRestarts = 1
CHECK_DEADLOCK FALSE
INVARIANTS
    TypeOK
    OrdersAreApproved
PROPERTIES
    HaltStopsTheBatch
    KeepsThePromise
