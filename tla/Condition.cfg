SPECIFICATION Spec
CONSTANTS
    Identifiers <- MCIdentifiers
    Aggregates <- MCAggregates
    Patterns <- MCPatterns
    Starts <- MCStarts
    Checked <- MCChecked
    Conditions <- MCConditions
    Longest = 14
    Detections <- MCDetections
INVARIANTS
    TypeOK
    ParsesAsWritten
    FiresAsWritten
    ReferencesResolve
