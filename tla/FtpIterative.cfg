SPECIFICATION FairSpec
CONSTANTS
    Clients = {c1, c2, c3}
    NoClient = NoClient
    MaxSignals = 3
\* The process may have ended.
CHECK_DEADLOCK FALSE
INVARIANTS
    TypeOK
    NoReentry
PROPERTIES
    ImplementsService
    WaitingEnds
    SignalEnds
