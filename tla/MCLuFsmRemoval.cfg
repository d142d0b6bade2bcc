SPECIFICATION Spec
CONSTANTS
    Imsi = {i1}
    Vlr = {v1, v2}
    NoVlr = NoVlr
    NoSubscr = NoSubscr
    Msisdn = {m1}
    NoMsisdn = NoMsisdn
    Unsent = Unsent
    Nam = {{"ps"}, {"cs", "ps"}}
    MaxReq = 3
    CreateOnDemand = TRUE
    OnDemandNam = {"ps"}
SYMMETRY Symmetry
PROPERTY
    RemovalTold
