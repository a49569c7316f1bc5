SPECIFICATION FairSpec
CONSTANTS
    Conns = {c1, c2}
    Sizes = {1, 2, 5}
    TxBuffer = 2
    MaxRequests = 2
INVARIANTS
    TypeOK
    ResponseExact
    ClientsListed
PROPERTY
    RequestsServed
CHECK_DEADLOCK FALSE
