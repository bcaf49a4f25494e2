SPECIFICATION Spec
CONSTANTS
    Moments <- MCMoments
    Requests = {r1, r2}
    SequenceRows = 2
    WindowDays = 6
    LongestRequest = 5
    MaxOutages = 2
    MaxRequests = 2
    MaxRestarts = 1
SYMMETRY MCAlike
CHECK_DEADLOCK FALSE
INVARIANTS
    
    ServedWithinGrace
    FeatureLagBounded
