SPECIFICATION ProgramFairSpec
CONSTANTS
    Query = {q1, q2}
    HandleMod = 3
    MaxAge = 2
    MaxRequest = 2
    CancelInTimeout = FALSE
    Conn = {c1, c2}
    Asked = {q1}
    Closed = Closed
    Blank = Blank
INVARIANTS
    ProgramTypeOK
    ListsAgree
PROPERTIES
    LookupKept
    RequestEnds
    Served
