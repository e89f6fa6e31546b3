SPECIFICATION Spec
CONSTANTS
    Inputs <- MCInputs
    Modes <- BothModes
INVARIANT ExitStatusTells
PROPERTY ImplementsOrderedSink
