SPECIFICATION Spec
CONSTANTS
    battery = battery
    reactor = reactor
    UnknownId = UnknownId
    Request = {q1}
    RequestId = {i1}
    Models <- MCModels
    Batch <- MCBatch
    MaxBatchRows = 2
    SingleStep = 4
    ExampleStep = 5
    NaN = NaN
    PlusInf = PlusInf
    MinusInf = MinusInf
    Text = Text
    None = None
INVARIANTS OnlyDomainReachesEmulator
CHECK_DEADLOCK FALSE
