SPECIFICATION Spec
CONSTANTS
    Subscr = {i1, i2}
    MaxId = 2
    NoTable = NoTable
INVARIANTS
    TypeOK
    VersionTruthful
    FitsUnlessTorn
    KeysFollow
PROPERTY
    SubscribersKept
