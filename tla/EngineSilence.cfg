SPECIFICATION Spec
CONSTANTS
    Ttl = 2
    Languages = {"ru", "uz"}
    NoRow = NoRow
    DefaultLanguage = "ru"
    MaxHistoryTurns = 4
    MaxAttachments = 2
    MaxCalls = 2
    MaxClock = 1
    Batches <- MCBatches
    Replies <- MCGoodReplies
    Contents = {1, 2}
    KnowledgeBase <- MCKnowledgeBase
    CacheTtl = 1
    Words <- MCWordList
    Stems <- MCWordList
    StemOf <- MCStemOf
    Excess <- MCExcess
    MaxInflectionLength = 3
    MaxLinesPerStem = 3
    Categories = {"product", "delivery"}
    CategoriesOf <- MCCategoriesOf
    Markers = {"doNotQuote"}
    Radius = 2
    Faults = {"sendTyping"}
INVARIANT
    NeverSilence
CHECK_DEADLOCK FALSE
