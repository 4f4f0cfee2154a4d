SPECIFICATION FairSpec
CONSTANTS
    Clients = {c1, c2}
    Children = {k1, k2}
    Parent = main
    NoClient = NoClient
    MaxSignals = 1
\* Every process may have ended.
CHECK_DEADLOCK FALSE
PROPERTIES
    ClientAccepted
    GroupShutsDown
