SPECIFICATION SpecEngine
CONSTANTS
    r1 = r1
    r2 = r2
    r3 = r3
    r4 = r4
    NoRequest = NoRequest
    Requests <- MCRequests
    Prompt <- MCPrompt
    Tokens <- MCTokens
    MMPositions <- MCPositions
    ImageToken = 5
    PromptLogprobs <- NoRequests
    Structured <- MCStructured
    Biased <- MCBiased
    NumBlocks = 5
    BlockSize = 2
    MaxModelLen = 6
    MaxArrivals = 3
    EncoderCacheSize = 3
    DisableChunkedMMInput = FALSE
    MaxNumSeqs = 3
    MaxNumReqs = 3
    MaxBatchedTokens = 4
    MaxEncoderTokens = 3
    LongPrefillThreshold = 2
INVARIANTS
    QueuesExact
    FirstComeFirstServed
    EngineAsserts
    BatchMatches
    BiasesFollow
    EncoderOutputsThere
    WorkerForgets
    EncoderCounted
PROPERTIES
    ImplementsKVCache
    ImplementsService
CHECK_DEADLOCK FALSE
