SPECIFICATION FairSpec
CONSTANTS
    None = None
    Idents <- One
    Apps = {"a"}
    Keys = {"tail"}
    App <- OneApp
    Key <- OneKey
    Verdict <- OneVerdict
    Streams = {}
    Legacy = {}
    Unsubscribing <- One
    LoggingOut = {}
    Closing = {"a"}
CHECK_DEADLOCK FALSE
PROPERTIES
    CancelledWhenAlone
