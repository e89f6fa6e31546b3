SPECIFICATION Spec
CONSTANTS
    Char <- AllChar
    Lower <- MCLower
    AsciiLower <- MCAsciiLower
    Field <- MCField
    Source <- MCSource
    NoSource = "none"
    Names <- MCNames
    Hash <- MCHash
    e1 = e1
    e2 = e2
    MAX_UNGATED = 1
    Engines = {e1}
    Rules <- UnicodeRules
    Inputs <- UnicodeInputs
    MaxRules <- MCMaxRules
    BuildMayFail = FALSE
INVARIANT TrueIdentifiersHit
