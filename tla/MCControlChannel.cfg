SPECIFICATION Spec
CONSTANTS
    CR = "cr"
    LF = "lf"
    NUL = "nul"
    Space = " "
    Stale = "stale"
    Verbs <- MCVerbs
    Quit <- MCQuit
    Texts <- MCTexts
    LineEnds <- MCLineEnds
    BUFSIZE = 6
    MaxLines = 3
\* The connection ends.
CHECK_DEADLOCK FALSE
INVARIANTS
    TypeOK
    PieceOfOneLine
    WaitingClientIsServed
