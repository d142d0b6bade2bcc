SPECIFICATION FairSpec
CONSTANTS
    Imsi = {i1}
    Vlr = {v1, v2}
    NoVlr = NoVlr
    NoSubscr = NoSubscr
    Msisdn = {m1}
    NoMsisdn = NoMsisdn
    Unsent = Unsent
    Nam = {{}, {"cs"}, {"ps"}, {"cs", "ps"}}
    MaxReq = 2
    CreateOnDemand = FALSE
    OnDemandNam = {}
INVARIANT
    PeerKnowsNumber
PROPERTY
    LuConcludes
