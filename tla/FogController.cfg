SPECIFICATION FairSpec
CONSTANTS
    small = small
    large = large
    video = video
    Clients = {small, large}
    NumServers = 2
    Home = 1
    MemorySize <- MCMemorySize
    Content <- MCContent
    Size <- MCSize
    Region <- MCRegion
    Policies = {3, 4, 5, 7}
    MaxContents = 2
    MaxHandovers = 1
INVARIANTS
    TypeOK
    MemoryConserved
    ContentsMatch
    NoOvercommit
    AbortsOnlyUnderLoad
PROPERTY
    ServersOffAtTheEnd
CHECK_DEADLOCK FALSE
