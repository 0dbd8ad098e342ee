\* Two callers using every API, EventLists with one middle item, one
\* unsolicited event, failing sends, and destruction of the Connection at
\* any moment (release build).
CONSTANTS
    c1 = c1
    c2 = c2
    Callers <- MC_Callers
    NoId = NoId
    MaxMiddles = 1
    MaxUnsolicited = 1
    Apis = {"invoke", "timeout", "async"}
    NDEBUG = TRUE
    SendMayFail = TRUE
    Destroy = TRUE

SPECIFICATION Spec

INVARIANT ArrivedResponseDelivered
INVARIANT ReactionIsResponse
INVARIANT CorrelatedOnlyWhenUnclaimed
INVARIANT NoOrphanPartial
INVARIANT DestroyReleasesWaiters
PROPERTY PipeSetOnce
PROPERTY CorrelationRefined

SYMMETRY MC_Symmetry

\* The Connection really stops once destroyed (or once a call crashed it).
CHECK_DEADLOCK FALSE
