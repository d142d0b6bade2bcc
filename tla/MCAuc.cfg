SPECIFICATION Spec
CONSTANTS
    Vlr = {v1, v2}
    v1 = v1
    v2 = v2
    Slots = 2
    MaxInd = 2
    MaxVec = 2
    MaxSeq = 3
    NoRow = NoRow
    NoAuts = NoAuts
SYMMETRY Symmetry
INVARIANTS TypeOK NoReuse NextAccepted
PROPERTY ResyncHeals
