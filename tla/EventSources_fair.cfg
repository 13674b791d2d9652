SPECIFICATION FairSpec
CONSTANTS
    None = None
    Idents <- FairIdents
    Apps = {"a", "b"}
    Keys = {"tail", "raw"}
    App <- FairApp
    Key <- FairKey
    Verdict <- FairVerdict
    Streams = {}
    Legacy = {}
    Unsubscribing = {}
    LoggingOut = {}
    Closing = {"a", "b"}
CHECK_DEADLOCK FALSE
PROPERTIES
    CancelledSourcesEnd
    SessionsClose
