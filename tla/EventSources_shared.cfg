SPECIFICATION Spec
CONSTANTS
    None = None
    Idents <- SharedIdents
    Apps = {"a", "b"}
    Keys = {"logs", "bad"}
    App <- SharedApp
    Key <- SharedKey
    Verdict <- SharedVerdict
    Streams = {"logs"}
    Legacy = {"b"}
    Unsubscribing <- SharedIdents
    LoggingOut = {"a"}
    Closing = {"a", "b"}
CHECK_DEADLOCK FALSE
INVARIANTS
    TypeOK
    ManagerInv
    ToldOnce
    ClosedSessionsAreGone
PROPERTIES
    OwnSubscribersOnly
