SPECIFICATION ClientFairSpec
CONSTANT
    MaxQueue = 3
INVARIANTS
    NothingStale
    Supervised
PROPERTIES
    LinkKept
    Recovers
