SPECIFICATION SpecEngineWF
CONSTANTS
    r1 = r1
    r2 = r2
    r3 = r3
    r4 = r4
    NoRequest = NoRequest
    Requests <- TwoRequests
    Prompt <- RobustPrompt
    Tokens <- MCTokens
    MMPositions <- RobustPositions
    ImageToken = 5
    PromptLogprobs <- NoRequests
    Structured <- NoRequests
    Biased <- NoRequests
    NumBlocks = 5
    BlockSize = 4
    MaxModelLen = 14
    MaxArrivals = 2
    EncoderCacheSize = 5
    DisableChunkedMMInput = FALSE
    MaxNumSeqs = 2
    MaxNumReqs = 2
    MaxBatchedTokens = 5
    MaxEncoderTokens = 5
    LongPrefillThreshold = 0
PROPERTY
    EveryRequestEnds
CHECK_DEADLOCK FALSE
