CONSTANTS
    sub = sub
    other = other
    v = v
    None = None
    Junk = Junk
    Depth = 2
    Exceptions <- MCExceptions
    Values <- MCValues
    ClauseLists <- MCClauseLists
SPECIFICATION Spec
INVARIANT NoWildPointer
CHECK_DEADLOCK FALSE
