SPECIFICATION Spec
CONSTANTS
    NumUsers = 3
    NumEdges = 3
    NumStatic = 1
    EDGE_RESOURCES = 1
    Algorithms = {"genetic", "qos", "greedy", "nomigration"}
    Window = 1
    MaxTime = 2
    MaxHandovers = 2
INVARIANTS
    TypeOK
    UnitsConserved
    EdgeAccounts
    OneEdge
CHECK_DEADLOCK FALSE
