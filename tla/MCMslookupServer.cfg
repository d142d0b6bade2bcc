SPECIFICATION Spec
CONSTANTS
    Site = {s1, s2}
    s1 = s1
    s2 = s2
    Managed = {s1}
    Configured = {v1}
    Family = {"v4"}
    Vlr = {v1}
    v1 = v1
    NoVlr = NoVlr
    NoRow = NoRow
    NoEntry = NoEntry
    NoHost = NoHost
    MaxAge = 1
    FreshTime = 1
    MaxFlight = 2
SYMMETRY Symmetry
INVARIANTS
    TypeOK
    YoungestWins
    AnswersWhereAttached
