SPECIFICATION Spec
CONSTANTS
    MaxRequests = 3
    MaxWarmup = 2
    MaxSamples = 400
    Crash = Crash
    None = None
INVARIANTS TypeOK ReportsWhatItMeasured GivesUpOnFreshConnection PercentileIsRounded
CHECK_DEADLOCK FALSE
