SPECIFICATION Spec
CONSTANTS
    Chars <- MCChars
    TokenSeqs <- MCTokens
    Texts <- MCTexts
    Patterns <- MCPatterns
INVARIANTS
    TypeOK
    VerdictRight
    FastPathAgrees
    EscapedMatchesItself
PROPERTY Termination
