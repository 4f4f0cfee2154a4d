SPECIFICATION FairSpec
CONSTANTS
    m = m
    Zero = Zero
    Garbage = Garbage
    i1 = i1
    i2 = i2
    Null = Null
    Ids <- MCIds
    Callers = {c1, c2}
    Numbers <- MCNumbers
    Requests <- MCRequests
    PowDomain <- MCPowDomain
\* The server stops after the first fault.
CHECK_DEADLOCK FALSE
INVARIANTS
    TypeOK
    AnswerIsOwn
    FaultIsDeserved
PROPERTIES
    CallReturns
