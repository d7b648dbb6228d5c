SPECIFICATION FairSpec
CONSTANTS
    MaxAttempts = 3
    BaseDelay = 1
    MaxRetryDelay = 3
    Waits = {2, 5}
    NoWait = NoWait
    MaxSegments = 2
    TelegramLimit = 4
    InstagramLimit = 3
    Texts <- MCTexts
    Registered = {"telegram", "instagram"}
    FileSizes = {1, 3}
    MaxFileSize = 2
    NoSize = NoSize
INVARIANTS
    TypeOK
    ReadFromTheBeginning
    ResolvedIsWhole
    DuplicatesAreAccountedFor
    WaitsAsAsked
    ModelWaitIsBounded
PROPERTY
    EveryOperationSettles
CHECK_DEADLOCK FALSE
