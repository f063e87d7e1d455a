SPECIFICATION MCFairSpec
CONSTANTS
    Tags <- ThreeTags
    Sets <- OneSet
    WayCount = 2
    BlockWords = 2
    Bytes <- OneLane
    Values <- Bits
    BypassLines <- IoLines
INVARIANTS OneCopy CachedIsCode AnswerIsAwaited
PROPERTIES ImplementsInstructionPort FetchCompletes
