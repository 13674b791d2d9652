SPECIFICATION FairSpec
CONSTANTS
    Jobs <- Three
    Locks = {"L"}
    None = None
    LockError = LockError
    Scheduler = Scheduler
    Call <- FairCalls
    maxlen = 1
    AbortTargets <- One
CHECK_DEADLOCK FALSE
PROPERTIES
    CallsServed
    IsLockService
