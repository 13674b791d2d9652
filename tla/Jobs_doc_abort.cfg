SPECIFICATION Spec
CONSTANTS
    Jobs <- One
    Locks = {"L"}
    None = None
    LockError = LockError
    Scheduler = Scheduler
    Call <- OneCall
    maxlen = 1
    AbortTargets <- One
CHECK_DEADLOCK FALSE
INVARIANTS
    AbortTakesEffect
