SPECIFICATION Spec
CONSTANTS
    Char <- AsciiChar
    Lower <- MCLower
    AsciiLower <- MCAsciiLower
    Field <- MCField
    Source <- MCSource
    NoSource = "none"
    Names <- MCNames
    Hash <- MCHash
    e1 = e1
    e2 = e2
    MAX_UNGATED = 1
    Engines = {e1, e2}
    Rules <- MCRules
    Inputs <- MCInputs
    MaxRules <- MCMaxRules
    BuildMayFail = FALSE
INVARIANTS
    TypeOK
    PrefiltersInvisible
    HitsAreCurrent
    PatternsOwnedOnce
