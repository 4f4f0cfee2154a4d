SPECIFICATION Spec
CONSTANTS
    Texts <- MCTexts
    ATOI <- MCATOI
    STRNCPY <- MCSTRNCPY
    LOCALHOST = "lo"
    Interfaces = {"lo", "lan"}
    MaxWords = 3
\* The start ends with an accept or an exit.
CHECK_DEADLOCK FALSE
INVARIANTS
    TypeOK
    CommandLineObeyed
    InitAllOrNothing
