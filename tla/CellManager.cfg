SPECIFICATION FairSpec
CONSTANTS
    u1 = u1
    u2 = u2
    NoUser = NoUser
    Users = {u1, u2}
    NumCells = 2
    NumStatic = 1
    Levels <- OneLevel
    Policies = {"classic", "competing", "iuavbs"}
    Algorithms = {"iuavbs"}
    MaxPerSecond = 0
    MaxRnti = 2
    MaxAccessFailures = 1
    MaxLinkFailures = 1
INVARIANTS
    CellTablesExact
    AbortsOnlyAfterLinkFailure
    PendingIsReal
    TakenForRntiTwin
PROPERTY
    PendingClears
CHECK_DEADLOCK FALSE
