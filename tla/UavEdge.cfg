SPECIFICATION SimulationSpec
CONSTANTS
    NoUser = 0
    Users = {1, 2}
    NumUsers = 2
    NumCells = 2
    NumStatic = 0
    Levels <- OneLevel
    Policies = {"iuavbs"}
    Algorithms = {"greedy", "iuavbs"}
    MaxPerSecond = 3
    MaxRnti = 2
    MaxAccessFailures = 1
    MaxLinkFailures = 1
    EDGE_RESOURCES = 1
    Window = 1
    MaxTime = 1
    MaxHandovers = 1
PROPERTY
    EdgeSpec
CHECK_DEADLOCK FALSE
