CONSTANTS
    MaxSize = 2
    MaxSubmits = 2
    MaxSpare = 1
    Spares = {0, 1}
    PipeCap = 2
    ForceLink = FALSE
SPECIFICATION Spec
PROPERTY AlwaysEnds
CHECK_DEADLOCK FALSE
