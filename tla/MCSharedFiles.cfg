SPECIFICATION Spec
CONSTANTS
    Stores = {s1, s2, s3}
    Reads = {r1}
    Old = Old
    NoFile = NoFile
    MaxCells = 3
SYMMETRY Symmetry
\* All transfers end.
CHECK_DEADLOCK FALSE
INVARIANTS
    TypeOK
    CellsInPlace
    AloneIsWhole
    ReadersMoveForward
