\* A release build destroying the Connection while an invoke with a timeout
\* is outstanding.
CONSTANTS
    c1 = c1
    c2 = c2
    Callers <- MC_Callers
    NoId = NoId
    MaxMiddles = 1
    MaxUnsolicited = 0
    Apis = {"timeout"}
    NDEBUG = TRUE
    SendMayFail = FALSE
    Destroy = TRUE

SPECIFICATION Spec

INVARIANT DestroySurvives

CHECK_DEADLOCK FALSE
