SPECIFICATION MCFairSpec
CONSTANTS
    Tags <- TwoTags
    Sets <- OneSet
    BlockWords = 1
    Bytes <- TwoLanes
    Values <- Bits
    BypassLines <- IoLines
INVARIANT ChannelsBelongToStore
PROPERTIES ImplementsCoherentMemory RequestCompletes
