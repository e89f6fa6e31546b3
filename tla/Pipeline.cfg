SPECIFICATION Spec
CONSTANTS
    Threads = 2
    Inputs <- MCInputs
    Modes <- BothModes
    MaxSamples = 1
INVARIANTS
    TypeOK
    SendNeverBlocks
    NoChunkLeftBehind
    AlertsInOrder
    StatsBalance
    SamplesAreCapped
PROPERTIES
    ImplementsOrderedSink
    Termination
