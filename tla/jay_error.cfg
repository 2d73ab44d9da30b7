SPECIFICATION Spec
CONSTANTS
    Files <- NullableFiles
    ItemChunk = 4
    RuleChunk = 3
    BITS_PER_WORD = 2
    yyMax = 7
    MaxTokens = 4
INVARIANTS
    IrrecoverableErrorThrows
