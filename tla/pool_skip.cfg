CONSTANTS
    MaxSize = 2
    MaxSubmits = 2
    MaxSpare = 2
    Spares = {0, 1, 2}
    PipeCap = 2
    ForceLink = FALSE
SPECIFICATION Spec
INVARIANT NotLinkingMeansNothingCompiled
CHECK_DEADLOCK FALSE
