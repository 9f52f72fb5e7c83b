SPECIFICATION Spec
CONSTANTS
    Msgs = {a, b}
    NoMsg = NoMsg
    Workers = {w1, w2}
    InitialCap = 3
    MqOverload = 1
    MaxCap = 6
INVARIANT TypeOK OverloadReported
PROPERTY WarningsRise ImplementsFifo
