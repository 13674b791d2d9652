SPECIFICATION Spec
CONSTANTS
    Jobs <- Five
    Locks = {"L"}
    None = None
    LockError = LockError
    Scheduler = Scheduler
    Call <- QueueCalls
    maxlen = 1
    AbortTargets = {}
CHECK_DEADLOCK FALSE
INVARIANTS
    TypeOK
    LockInv
    NoLostWakeup
    StartedInOrder
    LockQueueBounded
    LiveJobsAreListed
