SPECIFICATION Spec
CONSTANTS
    Jobs <- Three
    Locks = {"L"}
    None = None
    LockError = LockError
    Scheduler = Scheduler
    Call <- AbortCalls
    maxlen = 1
    AbortTargets <- Two
CHECK_DEADLOCK FALSE
INVARIANTS
    MutualExclusion
    FinishedIsOver
    AbortedOnRequest
    
PROPERTIES
    LegalTransitions
