SPECIFICATION Spec
CONSTANTS
    Imsi = {i1}
    Vlr = {v1, v2}
    NoVlr = NoVlr
    NoSubscr = NoSubscr
    Msisdn = {}
    NoMsisdn = NoMsisdn
    Unsent = Unsent
    Nam = {{}, {"cs"}, {"ps"}, {"cs", "ps"}}
    MaxReq = 3
    CreateOnDemand = TRUE
    OnDemandNam = {"ps"}
SYMMETRY Symmetry
INVARIANTS
    TypeOK
    LuOwnsRequest
    AnsweredOnce
PROPERTY
    LocationMoves
