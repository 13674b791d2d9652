SPECIFICATION FairSpec
CONSTANTS
    Jobs <- Two
    Locks = {"L"}
    None = None
    LockError = LockError
    Scheduler = Scheduler
    Call <- BusyThreadCalls
    maxlen = 1
    AbortTargets = {}
CHECK_DEADLOCK FALSE
PROPERTIES
    CallersAnswered
