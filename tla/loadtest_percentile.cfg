SPECIFICATION Spec
CONSTANTS
    MaxRequests = 3
    MaxWarmup = 2
    MaxSamples = 400
    Crash = Crash
    None = None
INVARIANTS ReportsNearestRank
CHECK_DEADLOCK FALSE
