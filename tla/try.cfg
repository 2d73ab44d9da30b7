CONSTANTS
    sub = sub
    other = other
    v = v
    None = None
    Junk = Junk
    Depth = 3
    Exceptions <- MCExceptions
    Values <- MCValues
    ClauseLists <- MCClauseLists
SPECIFICATION Spec
INVARIANTS TypeOK FinallyOnce
PROPERTY Refines
CHECK_DEADLOCK FALSE
