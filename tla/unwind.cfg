CONSTANTS
    Methods <- MCMethods
    EntryPoint = "run"
    Code <- MCCode
    Encodings = {1, 3}
    MaxDepth = 3
    MaxThrows = 3
SPECIFICATION Spec
INVARIANTS
    TypeOK
    TablesReadRight
    InnermostPad
    PhasesAgree
    CaughtIsAlive
    SegvFlagExact
    ReturnsOnlyAtTop
