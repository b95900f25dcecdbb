SPECIFICATION SpecFront
CONSTANTS
    g1 = g1
    g2 = g2
    g3 = g3
    ia = ia
    ib = ib
    ic = ic
    Calls <- MCCalls
    Id <- MCId
    N <- MCN
    Kind <- MCKind
    Images <- MCImages
    MMCacheSize = 2
    MaxTokens <- MCMaxTokens
    ChunkSize = 1
INVARIANTS
    TokensInOrder
    AnswerWhole
    RequestsAgree
    MirrorKept
PROPERTIES
    AnswerSurvivesDeath
    EveryCallEnds
CHECK_DEADLOCK FALSE
