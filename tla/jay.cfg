SPECIFICATION Spec
CONSTANTS
    Files <- AllFiles
    ItemChunk = 4
    RuleChunk = 3
    BITS_PER_WORD = 2
    yyMax = 7
    MaxTokens = 4
INVARIANTS
    TypeOK
    ArraysLargeEnough
    PackedAsWritten
    TokenValuesDistinct
    StatesCanonical
    LookaheadsExact
    ConflictsReported
    TablesEncodeParser
    AcceptsLanguage
    ActionSeesItsSymbols
PROPERTIES
    ParseEnds
