SPECIFICATION FairSpec
CONSTANTS
    Ttl = 2
    Languages = {"ru", "uz"}
    NoRow = NoRow
    DefaultLanguage = "ru"
    MaxHistoryTurns = 4
    MaxAttachments = 2
    MaxCalls = 3
    MaxClock = 2
    Batches <- MCBatches
    Replies <- MCReplies
    Contents = {1, 2}
    KnowledgeBase <- MCKnowledgeBase
    CacheTtl = 1
    Words <- MCWordList
    Stems <- MCWordList
    StemOf <- MCStemOf
    Excess <- MCExcess
    MaxInflectionLength = 3
    MaxLinesPerStem = 3
    Categories = {"product", "delivery"}
    CategoriesOf <- MCCategoriesOf
    Markers = {"doNotQuote"}
    Radius = 2
    Faults = {"recordContact", "get", "sendTyping", "downloadMedia", "getKnowledgeBaseText", "getSystemPromptText", "generateReply", "sendReply", "notifyManager", "save"}
INVARIANTS
    TypeOK
    OnlyCheckedTextIsSaid
    HistoryIsWhatWasSaid
    NoColdContext
    ContactPrecedesConversation
    PromiseIsKept
    HandoffIsComplete
    HonestQuoteIsSaid
PROPERTIES
    EveryCallEnds
    EditTakesEffect
CHECK_DEADLOCK FALSE
