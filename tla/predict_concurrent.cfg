SPECIFICATION FairSpec
CONSTANTS
    battery = battery
    reactor = reactor
    UnknownId = UnknownId
    Request = {q1, q2}
    RequestId = {i1, i2}
    Models <- MCModels
    Batch <- MCBatch
    MaxBatchRows = 2
    SingleStep = 4
    ExampleStep = 5
    NaN = NaN
    PlusInf = PlusInf
    MinusInf = MinusInf
    Text = Text
    None = None
INVARIANTS TypeOK EmulatorSeesDomain AllOrNothing AnsweredByAsked ExampleIsAccepted LogLinesJoin
PROPERTIES EveryRequestAnswered ImplementsContract
CHECK_DEADLOCK FALSE
