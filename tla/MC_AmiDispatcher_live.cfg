\* Progress while the Connection lives: every invoke and invoke with a
\* timeout returns, with an unsolicited event interleaved.
CONSTANTS
    c1 = c1
    c2 = c2
    Callers <- MC_Callers
    NoId = NoId
    MaxMiddles = 0
    MaxUnsolicited = 1
    Apis = {"invoke", "timeout"}
    NDEBUG = TRUE
    SendMayFail = FALSE
    Destroy = FALSE

SPECIFICATION Spec

PROPERTY InvokeReturns
