SPECIFICATION FairSpec
CONSTANTS
    Imsi = {i1}
    SessionId = {s1}
    Vlr = {v1, v2}
    Euse = {e1, e2}
    Code = {code1}
    Req = {r1}
    NoSession = NoSession
    Null = Null
    Empty = Empty
    NoSubscr = NoSubscr
    Internal = Internal
    Freed = Freed
    Guard = TRUE
INVARIANTS
    TypeOK
    BeginHeld
    DialogueStable
PROPERTY
    SessionEnds
