SPECIFICATION ManagementSpec
CONSTANTS
    NumDrones = 2
    Users = {u1, u2, u3}
    Clusters = 3
    Places = {0, 1, 3}
    Throughputs = {0, 1}
    LeftRows = 2
    MaxIntervals = 3
INVARIANTS
    ReadsInRange
    OneDronePerHotSpot
CHECK_DEADLOCK FALSE
