SPECIFICATION Spec
CONSTANTS
    r1 = r1
    r2 = r2
    r3 = r3
    Requests <- MCRequests
    Prompt <- MCPrompt
    MMPositions <- MCPositions
    ImageToken = 9
    PromptLogprobs <- MCPromptLogprobs
    Tokens <- MCTokens
    NumBlocks = 4
    BlockSize = 2
    MaxModelLen = 5
    MaxArrivals = 3
INVARIANTS
    RefCountExact
    FreeListExact
    CacheTableExact
    HashesRight
    NeverOverdrawn
    ReadsOwnPrefix
    CachedContentRight
    OneWriter
    NoOrphans
