SPECIFICATION MCOrderSpec
CONSTANTS
    Tags <- ThreeTags
    Sets <- OneSet
    WayCount = 2
    BlockWords = 2
    Bytes <- OneLane
    Values <- Zero
    BypassLines <- IoLines
INVARIANTS OneCopy BypassNotCached EvictsOldest
PROPERTIES RequestCompletes WriteArrives
