\* stop_work_thread sets thread_run_ and notifies without holding
\* events_mutex_: the destructor may never finish.
CONSTANTS
    c1 = c1
    c2 = c2
    Callers <- MC_Callers
    NoId = NoId
    MaxMiddles = 1
    MaxUnsolicited = 0
    Apis = {"invoke"}
    NDEBUG = TRUE
    SendMayFail = FALSE
    Destroy = TRUE

SPECIFICATION Spec

PROPERTY DestroyCompletes

CHECK_DEADLOCK FALSE
