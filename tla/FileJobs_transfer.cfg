SPECIFICATION FairSpec
CONSTANTS
    Downloads = {"d1", "d2", "d3", "d4"}
    Uploads = {"u1", "u2", "u3"}
    Jobs = {"save", "debug", "report", "restore", "update"}
    None = None
    JobOf <- TransferJobOf
    Buffered = {"report"}
    Coroutines = {"save"}
    Iterates = {"restore"}
    Files <- TransferFiles
    MAX_UPLOADED_FILES = 2
    Capacity = 1
    Chunks <- TransferChunks
    AbortTargets = {"save", "restore"}
    Opened = {"d1", "d2", "d4"}
    MaxJobs = 1
CHECK_DEADLOCK FALSE
INVARIANTS
    TypeOK
    WholeOutput
    WholeInputs
PROPERTIES
    BegunIsLeftAlone
    DiesBetweenCloses
    OutputsEnd
    InputsEnd
    FilesGetThrough
