CONSTANTS
    MaxSize = 2
    MaxSubmits = 3
    MaxSpare = 5
    Spares = {0, 1, 2, 5}
    PipeCap = 2
    ForceLink = FALSE
SPECIFICATION Spec
INVARIANTS TypeOK JobsOnce SuccessMeansBuilt QuietAtLink PoolInv
PROPERTIES BuildEnds WorkersEnd
CHECK_DEADLOCK FALSE
