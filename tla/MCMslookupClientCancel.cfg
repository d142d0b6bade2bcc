SPECIFICATION Spec
CONSTANTS
    Query = {q1}
    HandleMod = 3
    MaxAge = 1
    MaxRequest = 2
    CancelInTimeout = TRUE
INVARIANT
    CancelAnyTime
