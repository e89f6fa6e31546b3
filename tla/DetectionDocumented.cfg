SPECIFICATION Spec
CONSTANTS
    Chars <- MCChars
    Lower <- MCLower
    Utf8 <- MCUtf8
    Decimal <- MCDecimal
    ParseI64 <- MCParseI64
    Exact = 16
    ParseIp <- MCParseIp
    Width <- MCWidth
    RegexMatches <- MCRegexMatches
    DebugText <- MCDebugText
    MaxMappings = 2
    Nodes <- MCNodes
    Cases <- MCDocumentedCases
INVARIANT MatchesAsDocumented
