SPECIFICATION MCSpec
CONSTANTS
    Tags <- TwoTags
    Sets <- OneSet
    WayCount = 1
    BlockWords = 2
    Bytes <- OneLane
    Values <- Bits
    BypassLines <- IoLines
VIEW MCView
INVARIANTS CoherenceInv CleanIsMemory VictimIsSaved WritesAreOwed LastMatchesLen
PROPERTY ImplementsCoherentMemory
