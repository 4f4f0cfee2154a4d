SPECIFICATION FairSpec
CONSTANTS
    Clients = {c1, c2}
    NoClient = NoClient
    Length = 4
    RCVBUFFSIZE = 2
    MaxFd = 2
\* The server may have ended.
CHECK_DEADLOCK FALSE
INVARIANTS
    TypeOK
    EchoIsOwn
    OnlyEndedAreLeaked
PROPERTIES
    AllIsEchoed
