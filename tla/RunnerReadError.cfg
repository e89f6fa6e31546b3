SPECIFICATION Spec
CONSTANTS
    Segments <- MCSegments
    IndexNames <- MCIndexNames
    Atoms <- MCAtoms
    Newline <- MCNewline
    Values <- MCValues
    Limits <- MCLimits
    Levels <- MCLevels
    MaxLevels <- MCMaxLevels
    Inputs <- MCInputs
    Configs <- MCConfigs
    Rules <- MCRules
PROPERTY CompletesInContinueMode
