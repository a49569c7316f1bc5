SPECIFICATION Spec
CONSTANTS
    small = small
    large = large
    video = video
    Clients = {small, large, c3}
    NumServers = 2
    Home = 1
    MemorySize <- MCRoom
    Content <- MCContent
    Size <- MCUnits
    Region <- MCRegion
    Policies = {4}
    MaxContents = 2
    MaxHandovers = 0
SYMMETRY Interchangeable
INVARIANT
    ContentsBounded
CHECK_DEADLOCK FALSE
