SPECIFICATION SpecFront
CONSTANTS
    g1 = g1
    g2 = g2
    g3 = g3
    ia = ia
    ib = ib
    ic = ic
    Calls <- RetryCalls
    Id <- RetryId
    N <- RetryN
    Kind <- RetryKind
    Images <- RetryImages
    MMCacheSize = 2
    MaxTokens <- MCMaxTokens
    ChunkSize = 3
INVARIANT
    MirrorKept
CHECK_DEADLOCK FALSE
