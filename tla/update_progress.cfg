SPECIFICATION Spec
CONSTANTS
    Word = 2097152
    Byte = 256
    Downloads <- MCDownloads
INVARIANTS
    TypeOK
    PercentIsExact
    FullOnlyAtTheEnd
PROPERTIES
    SpinnerTurns
