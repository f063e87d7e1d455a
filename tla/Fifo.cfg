SPECIFICATION FifoSpec
CONSTANTS
    Depth = 3
    Items = {0, 1}
INVARIANT CountIsDistance
PROPERTY ImplementsQueue
