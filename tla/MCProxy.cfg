SPECIFICATION FairSpec
CONSTANTS
    Imsi = {i1, i2}
    Vlr = {v1, v2}
    Hlr = {h1}
    NoVlr = NoVlr
    NoAddr = NoAddr
    NoEntry = NoEntry
    MaxReq = 2
INVARIANTS
    TypeOK
    ForwardedInOrder
    Awaited
PROPERTIES
    VlrMovesToLatest
    DeferredConcludes
