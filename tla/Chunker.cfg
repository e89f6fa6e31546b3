SPECIFICATION Spec
CONSTANTS
    max_line_bytes = 4
    DEFAULT_CHUNK_BYTES = 2
    Slack = 3
    Bytes = {"x", "n"}
    MaxInput = 11
INVARIANTS
    TypeOK
    EveryByteOnce
    LinesKeptWhole
    LineNumbersRight
    OnlyLongLinesDrained
    NoFalseEof
PROPERTY Termination
