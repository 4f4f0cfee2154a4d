SPECIFICATION Spec
CONSTANTS
    Clients = {c1, c2}
    Children = {k1, k2}
    Parent = main
    NoClient = NoClient
    MaxSignals = 2
SYMMETRY Symmetry
\* Every process may have ended.
CHECK_DEADLOCK FALSE
INVARIANTS
    TypeOK
    OwnSocketOnly
    OrphansAreDoomed
    NoReentry
PROPERTIES
    ImplementsService
