\* A send error while the Connection lives: the registered pipe stays behind.
CONSTANTS
    c1 = c1
    c2 = c2
    Callers <- MC_Callers
    NoId = NoId
    MaxMiddles = 1
    MaxUnsolicited = 0
    Apis = {"invoke"}
    NDEBUG = TRUE
    SendMayFail = TRUE
    Destroy = FALSE

SPECIFICATION Spec

INVARIANT WaitersOwned
