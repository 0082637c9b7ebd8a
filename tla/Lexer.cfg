SPECIFICATION Spec
CONSTANTS
    Texts <- MCTexts
    Keywords <- MCKeywords
    Size = 6
INVARIANTS
    TypeOK
    OnlyTriviaDropped
    PositionsRight
    LongestPunctuator
    NumbersWhole
    LiteralsClosed
CHECK_DEADLOCK FALSE
