SPECIFICATION SpecEngine
CONSTANTS
    r1 = r1
    r2 = r2
    r3 = r3
    r4 = r4
    NoRequest = NoRequest
    Requests <- TwoRequests
    Prompt <- PairPrompt
    Tokens <- MCTokens
    MMPositions <- PairPositions
    ImageToken = 5
    PromptLogprobs <- NoRequests
    Structured <- NoRequests
    Biased <- NoRequests
    NumBlocks = 4
    BlockSize = 3
    MaxModelLen = 6
    MaxArrivals = 2
    EncoderCacheSize = 5
    DisableChunkedMMInput = FALSE
    MaxNumSeqs = 2
    MaxNumReqs = 2
    MaxBatchedTokens = 5
    MaxEncoderTokens = 5
    LongPrefillThreshold = 0
INVARIANT
    ReadsOwnPrefix
CHECK_DEADLOCK FALSE
