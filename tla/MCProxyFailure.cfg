SPECIFICATION Spec
CONSTANTS
    Imsi = {i1}
    Vlr = {v1}
    Hlr = {h1}
    NoVlr = NoVlr
    NoAddr = NoAddr
    NoEntry = NoEntry
    MaxReq = 2
PROPERTY
    FailureReported
