SPECIFICATION Spec
CONSTANTS
    Conn = {c1, c2, c3}
    Name = {n1, n2}
    Req = {r1}
    NoConn = NoConn
    NoName = NoName
    NoReq = NoReq
SYMMETRY Symmetry
INVARIANTS
    TypeOK
    ResponseToOrigin
PROPERTIES
    DirectoryKept
    IndAllocation
